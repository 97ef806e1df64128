------------------------ MODULE WhatsAppImportProofs -------------------------
(***************************************************************************)
(* Proofs about WhatsAppImport, Uploads and Coverage, for any exports and  *)
(* any number of crashes: an identity and a row are a function of what a   *)
(* line shows, so uploads may interleave, die and be repeated; what is     *)
(* stored is what the files show, wherever they begin; and a coverage      *)
(* report says of every instant whether an import has it.                  *)
(***************************************************************************)
EXTENDS Uploads, Coverage, FiniteSetTheorems, SequenceTheorems, TLAPS

LineOf(e) == 1..Len(e.lines)
SenderOf(e, i) == e.lines[i].sender
Person(e, i) == SenderOf(e, i).kind \in {"name", "phone"}

\* Where the locals of an ingest and the history are defined.
Shaped ==
  /\ upload = [e \in Export |-> upload[e]]
  /\ landed = [e \in Export |-> landed[e]]
  /\ finished \subseteq Export
  /\ \A e \in Export :
       /\ upload[e].pc \in Label
       /\ upload[e].line \in LineOf(e)
       /\ landed[e] = [i \in LineOf(e) |-> landed[e][i]]

\* A participant answers to at most what its id was made from.
Named(p) ==
  \E text : p.id = <<"p", text>> /\ p.phone \in {text, ""} /\ p.aliases \subseteq {text}

PeopleInv ==
  /\ \A p \in participants : Named(p)
  /\ \A p, q \in participants : p.id = q.id => p = q

\* Whom a line is attributed to: no state enters into it.
AuthorOf(e, i) ==
  IF SenderOf(e, i).kind = "system" THEN System
  ELSE IF SenderOf(e, i).kind = "you" THEN Self(e.uploader)
  ELSE ParticipantId(SenderOf(e, i))

Met(e, i) ==
  Person(e, i) => \E p \in participants : AnswersTo(p, e.chat, SenderOf(e, i))

\* A line that an ingest has dealt with.
Stored(e, i) ==
  Met(e, i) /\ Fingerprint(e, i, AuthorOf(e, i)) \in messages

ProgressOf(e) ==
  /\ \A i \in LineOf(e) : upload[e].pc # "idle" /\ i < upload[e].line => Stored(e, i)
  /\ e \in finished => \A i \in LineOf(e) : Stored(e, i)
  /\ upload[e].pc = "creating" => Person(e, upload[e].line) /\ e \notin finished
  /\ upload[e].pc = "saving" => /\ upload[e].author = AuthorOf(e, upload[e].line)
                                /\ Met(e, upload[e].line)

Progress == \A e \in Export : ProgressOf(e)

Landings ==
  \A e \in Export : \A i \in LineOf(e) :
    landed[e][i] \subseteq {Fingerprint(e, i, AuthorOf(e, i))}

ImportInv == Shaped /\ PeopleInv /\ Progress /\ Landings /\ AuthorsKnown

-----------------------------------------------------------------------------
(* Identities *)

\* Whoever answers to a line's sender has the id the sender would be given.
LEMMA AnswersHaveId ==
  ASSUME NEW e \in Export, NEW i \in LineOf(e), NEW p, Named(p),
         AnswersTo(p, e.chat, SenderOf(e, i))
  PROVE  p.id = ParticipantId(SenderOf(e, i)) /\ p.chat = e.chat
<1>1. PICK text : p.id = <<"p", text>> /\ p.phone \in {text, ""} /\ p.aliases \subseteq {text}
  BY DEF Named
<1>2. SenderOf(e, i).kind = "phone" => SenderOf(e, i).text # ""
  BY WhatsAppImportConstants DEF SenderOf, LineOf
<1>3. text = SenderOf(e, i).text
  BY <1>1, <1>2 DEF AnswersTo
<1>4. QED
  BY <1>1, <1>3 DEF AnswersTo, ParticipantId

LEMMA NewcomerAnswers ==
  ASSUME NEW e \in Export, upload[e].line \in LineOf(e), Person(e, upload[e].line)
  PROVE  LET p == NewParticipant(e, ParticipantId(Sender(e))) IN
         Named(p) /\ AnswersTo(p, e.chat, SenderOf(e, upload[e].line))
<1> DEFINE s == Sender(e)
           p == NewParticipant(e, ParticipantId(s))
<1>1. s = SenderOf(e, upload[e].line) /\ s.kind \in {"name", "phone"}
  BY DEF Sender, SenderOf, Person
<1>2. /\ p.id = <<"p", s.text>> /\ p.chat = e.chat
      /\ p.phone = IF s.kind = "phone" THEN s.text ELSE ""
      /\ p.aliases = IF s.kind = "name" THEN {s.text} ELSE {}
  BY DEF NewParticipant, ParticipantId
<1>3. Named(p)
  BY <1>2 DEF Named
<1>4. AnswersTo(p, e.chat, s)
  BY <1>1, <1>2 DEF AnswersTo
<1>5. QED
  BY <1>1, <1>3, <1>4

\* An author that is a person is one who answers to the line.
LEMMA AuthorIsKnown ==
  ASSUME PeopleInv, NEW e \in Export, NEW i \in LineOf(e), Met(e, i),
         AuthorOf(e, i)[1] = "p"
  PROVE  \E p \in participants : p.id = AuthorOf(e, i) /\ p.chat = e.chat
<1>1. SenderOf(e, i).kind \in SenderKind
  BY WhatsAppImportConstants DEF SenderOf, LineOf
<1>2. CASE Person(e, i)
  <2>1. AuthorOf(e, i) = ParticipantId(SenderOf(e, i))
    BY <1>2 DEF Person, AuthorOf
  <2>2. QED
    BY <1>2, <2>1, AnswersHaveId DEF Met, PeopleInv
<1>3. CASE ~Person(e, i)
  <2>1. AuthorOf(e, i) \in {<<"system">>, <<"self", e.uploader>>}
    BY <1>1, <1>3 DEF Person, SenderKind, AuthorOf, System, Self
  <2>2. QED
    BY <2>1
<1>4. QED
  BY <1>2, <1>3

-----------------------------------------------------------------------------
(* Steps *)

LEMMA FirstLine ==
  ASSUME NEW e \in Export
  PROVE  1 \in LineOf(e) /\ \A i \in LineOf(e) : i \in Nat /\ ~(i < 1)
<1>1. Len(e.lines) \in Nat \ {0}
  BY WhatsAppImportConstants
<1>2. QED
  BY <1>1, SMTT(20) DEF LineOf

LEMMA ImportInit == Init => ImportInv
<1> SUFFICES ASSUME Init PROVE ImportInv
  OBVIOUS
<1>1. ASSUME NEW e \in Export
      PROVE  /\ 1 \in LineOf(e)
             /\ upload[e] = NoUpload
             /\ landed[e] = [i \in LineOf(e) |-> {}]
  <2>2. 1 \in LineOf(e)
    BY FirstLine
  <2>3. upload[e] = NoUpload
    BY DEF Init
  <2>4. landed[e] = [i \in LineOf(e) |-> {}]
    BY DEF Init, LineOf
  <2>5. QED
    BY <2>2, <2>3, <2>4
<1>2. NoUpload.pc = "idle" /\ NoUpload.line = 1
  BY DEF NoUpload
<1>3. Shaped
  <2>1. landed = [e \in Export |-> landed[e]] /\ upload = [e \in Export |-> upload[e]]
        /\ finished \subseteq Export
    BY DEF Init
  <2>2. \A e \in Export : landed[e] = [i \in LineOf(e) |-> landed[e][i]]
    BY <1>1
  <2>3. QED
    BY <1>1, <1>2, <2>1, <2>2 DEF Shaped, Label
<1>4. Progress
  BY <1>1, <1>2 DEF Init, Progress, ProgressOf
<1>5. Landings
  BY <1>1 DEF Landings
<1>6. QED
  BY <1>3, <1>4, <1>5 DEF Init, ImportInv, PeopleInv, AuthorsKnown

\* An ingest goes on; the others stay where they are.
LEMMA Moved ==
  ASSUME Shaped, NEW e \in Export, NEW label \in Label, NEW line \in LineOf(e), NEW author,
         MoveTo(e, label, line, author)
  PROVE  /\ upload' = [f \in Export |-> upload'[f]]
         /\ upload'[e].pc = label /\ upload'[e].line = line /\ upload'[e].author = author
         /\ \A f \in Export : f # e => upload'[f] = upload[f]
         /\ \A f \in Export : upload'[f].pc \in Label /\ upload'[f].line \in LineOf(f)
<1> DEFINE u == [pc |-> label, line |-> line, author |-> author]
<1>1. u.pc = label /\ u.line = line /\ u.author = author
  OBVIOUS
<1> HIDE DEF u
<1>2. upload' = [upload EXCEPT ![e] = u] /\ upload = [f \in Export |-> upload[f]]
  BY DEF MoveTo, Shaped, u
<1>3. upload' = [f \in Export |-> upload'[f]] /\ upload'[e] = u
      /\ \A f \in Export : f # e => upload'[f] = upload[f]
  BY <1>2
<1>4. QED
  BY <1>1, <1>3 DEF Shaped

Grows == participants \subseteq participants' /\ messages \subseteq messages'

\* Rows are only added, so what an ingest has dealt with stays dealt with.
LEMMA DealtWithStays ==
  ASSUME Grows, NEW e, NEW i
  PROVE  /\ Met(e, i) => Met(e, i)'
         /\ Stored(e, i) => Stored(e, i)'
BY DEF Grows, Met, Stored

LEMMA ProgressStays ==
  ASSUME Grows, NEW e, ProgressOf(e), upload'[e] = upload[e],
         e \in finished' <=> e \in finished
  PROVE  ProgressOf(e)'
BY DealtWithStays DEF ProgressOf

\* A step that stores no message keeps the invariant if it keeps its own ingest's part.
LEMMA Advance ==
  ASSUME ImportInv, NEW e \in Export, NEW label \in Label, NEW line \in LineOf(e), NEW author,
         MoveTo(e, label, line, author), Grows, PeopleInv', ProgressOf(e)',
         UNCHANGED <<messages, finished, landed>>
  PROVE  ImportInv'
<1>1. Shaped'
  BY Moved DEF ImportInv, Shaped
<1>2. Progress'
  <2>1. \A f \in Export : f # e => upload'[f] = upload[f]
    BY Moved DEF ImportInv
  <2>2. QED
    BY <2>1, ProgressStays DEF ImportInv, Progress
<1>3. Landings'
  BY DEF ImportInv, Landings
<1>4. AuthorsKnown'
  BY DEF ImportInv, AuthorsKnown, Grows
<1>5. QED
  BY <1>1, <1>2, <1>3, <1>4 DEF ImportInv

LEMMA BeginKeeps ==
  ASSUME ImportInv, NEW e \in Export, Begin(e)
  PROVE  ImportInv'
<1>1. 1 \in LineOf(e) /\ \A i \in LineOf(e) : ~(i < 1)
  BY FirstLine
<1>2. MoveTo(e, "resolving", 1, NoAuthor) /\ "resolving" \in Label /\ Grows
      /\ UNCHANGED <<messages, finished, landed>>
  BY DEF Begin, Label, Grows, tables
<1>3. upload'[e].pc = "resolving" /\ upload'[e].line = 1
  BY <1>1, <1>2, Moved DEF ImportInv
<1>4. ProgressOf(e)'
  BY <1>1, <1>2, <1>3, DealtWithStays DEF ImportInv, Progress, ProgressOf, Begin
<1>5. PeopleInv'
  BY DEF ImportInv, PeopleInv, Begin, tables
<1>6. QED
  BY <1>1, <1>2, <1>4, <1>5, Advance

\* An author that was found is the one the line stands for.
LEMMA SavingKeeps ==
  ASSUME ImportInv, NEW e \in Export, NEW author, Goto(e, "saving", author), Grows, PeopleInv',
         upload[e].pc # "idle", author = AuthorOf(e, upload[e].line), Met(e, upload[e].line)',
         UNCHANGED <<messages, finished, landed>>
  PROVE  ImportInv'
<1>1. upload[e].line \in LineOf(e) /\ "saving" \in Label
  BY DEF ImportInv, Shaped, Label
<1>2. MoveTo(e, "saving", upload[e].line, author)
  BY DEF Goto
<1>3. upload'[e].pc = "saving" /\ upload'[e].line = upload[e].line /\ upload'[e].author = author
  BY <1>1, <1>2, Moved DEF ImportInv
<1>4. ProgressOf(e)'
  BY <1>1, <1>3, DealtWithStays DEF ImportInv, Progress, ProgressOf, AuthorOf, Met
<1>5. QED
  BY <1>1, <1>2, <1>4, Advance

LEMMA ResolveFixedKeeps ==
  ASSUME ImportInv, NEW e \in Export, ResolveFixed(e)
  PROVE  ImportInv'
<1>1. Sender(e) = SenderOf(e, upload[e].line)
  BY DEF Sender, SenderOf
<1>2. PeopleInv' /\ Grows /\ upload[e].pc # "idle"
  BY DEF ImportInv, PeopleInv, Grows, ResolveFixed, tables, At
<1>3. PICK author : Goto(e, "saving", author) /\ author = AuthorOf(e, upload[e].line)
                    /\ ~Person(e, upload[e].line)
  BY <1>1 DEF ResolveFixed, AuthorOf, Person
<1>4. Met(e, upload[e].line)' 
  <2>1. upload'[e].line = upload[e].line
    BY <1>3, Moved DEF ImportInv, Shaped, Goto, Label
  <2>2. QED
    BY <1>3, <2>1 DEF Met
<1>5. UNCHANGED <<messages, finished, landed>>
  BY DEF ResolveFixed, tables
<1>6. QED
  BY <1>2, <1>3, <1>4, <1>5, SavingKeeps

LEMMA ResolveKnownKeeps ==
  ASSUME ImportInv, NEW e \in Export, ResolveKnown(e)
  PROVE  ImportInv'
<1>1. PICK p \in participants : Carries(p, e) /\ Goto(e, "saving", p.id)
  BY DEF ResolveKnown
<1>2. PeopleInv' /\ Grows /\ upload[e].pc = "resolving" /\ UNCHANGED <<messages, finished, landed>>
  BY DEF ImportInv, PeopleInv, Grows, ResolveKnown, tables, At
<1>3. upload[e].line \in LineOf(e) /\ AnswersTo(p, e.chat, SenderOf(e, upload[e].line))
  BY <1>1 DEF Carries, Sender, SenderOf, ImportInv, Shaped
<1>4. p.id = AuthorOf(e, upload[e].line)
  <2>1. p.id = ParticipantId(SenderOf(e, upload[e].line))
    BY <1>3, AnswersHaveId DEF ImportInv, PeopleInv
  <2>2. QED
    BY <1>3, <2>1 DEF AnswersTo, AuthorOf
<1>5. Met(e, upload[e].line)'
  <2>1. upload'[e].line = upload[e].line
    BY <1>1, Moved DEF ImportInv, Shaped, Goto, Label
  <2>2. participants' = participants
    BY DEF ResolveKnown, tables
  <2>3. QED
    BY <1>3, <2>1, <2>2 DEF Met
<1>6. upload[e].pc # "idle"
  BY <1>2
<1>7. QED
  BY <1>1, <1>2, <1>4, <1>5, <1>6, SavingKeeps

LEMMA ResolveUnknownKeeps ==
  ASSUME ImportInv, NEW e \in Export, ResolveUnknown(e)
  PROVE  ImportInv'
<1>1. upload[e].line \in LineOf(e) /\ "creating" \in Label
  BY DEF ImportInv, Shaped, Label
<1>2. /\ MoveTo(e, "creating", upload[e].line, NoAuthor)
      /\ Grows /\ PeopleInv' /\ upload[e].pc = "resolving"
      /\ UNCHANGED <<messages, finished, landed>>
  BY DEF ImportInv, PeopleInv, Grows, ResolveUnknown, Goto, tables, At
<1>3. upload'[e].pc = "creating" /\ upload'[e].line = upload[e].line
  BY <1>1, <1>2, Moved DEF ImportInv
<1>4. Person(e, upload[e].line) /\ ~Met(e, upload[e].line)
  BY DEF ResolveUnknown, Carries, Met, Person, Sender, SenderOf
<1>5. e \notin finished
  BY <1>1, <1>4 DEF ImportInv, Progress, ProgressOf, Stored
<1>6. ProgressOf(e)'
  BY <1>2, <1>3, <1>4, <1>5, DealtWithStays DEF ImportInv, Progress, ProgressOf, Person
<1>7. QED
  BY <1>1, <1>2, <1>6, Advance

LEMMA CreateParticipantKeeps ==
  ASSUME ImportInv, NEW e \in Export, CreateParticipant(e)
  PROVE  ImportInv'
<1> DEFINE i == upload[e].line
           p == NewParticipant(e, ParticipantId(Sender(e)))
<1>1. i \in LineOf(e) /\ Person(e, i) /\ upload[e].pc = "creating" /\ Sender(e) = SenderOf(e, i)
  BY DEF ImportInv, Shaped, Progress, ProgressOf, CreateParticipant, At, Sender, SenderOf
<1>2. Named(p) /\ AnswersTo(p, e.chat, SenderOf(e, i))
  BY <1>1, NewcomerAnswers
<1>3. p.id = AuthorOf(e, i)
  BY <1>1 DEF NewParticipant, AuthorOf, Person
<1>4. /\ participants' = participants \union {p}
      /\ \A q \in participants : p.id # q.id
      /\ Goto(e, "saving", p.id)
      /\ UNCHANGED <<messages, finished, landed>>
  BY DEF CreateParticipant, Conflicts
<1> HIDE DEF p
<1>5. PeopleInv'
  BY <1>2, <1>4 DEF ImportInv, PeopleInv, Named
<1>6. Met(e, upload[e].line)'
  <2>1. upload'[e].line = upload[e].line
    BY <1>4, Moved DEF ImportInv, Shaped, Goto, Label
  <2>2. QED
    BY <1>2, <1>4, <2>1 DEF Met
<1>7. Grows /\ upload[e].pc # "idle"
  BY <1>1, <1>4 DEF Grows
<1>8. QED
  BY <1>3, <1>4, <1>5, <1>6, <1>7, SavingKeeps

LEMMA CreateFailsKeeps ==
  ASSUME ImportInv, NEW e \in Export, CreateFails(e)
  PROVE  ImportInv'
<1>1. 1 \in LineOf(e) /\ "idle" \in Label
  BY FirstLine DEF Label
<1>2. /\ MoveTo(e, "idle", 1, NoAuthor)
      /\ Grows /\ PeopleInv'
      /\ UNCHANGED <<messages, finished, landed>>
  BY DEF ImportInv, PeopleInv, Grows, CreateFails, tables
<1>3. upload'[e].pc = "idle"
  BY <1>1, <1>2, Moved DEF ImportInv
<1>4. ProgressOf(e)'
  BY <1>2, <1>3, DealtWithStays DEF ImportInv, Progress, ProgressOf
<1>5. QED
  BY <1>1, <1>2, <1>4, Advance

LEMMA SaveMessageKeeps ==
  ASSUME ImportInv, NEW e \in Export, SaveMessage(e)
  PROVE  ImportInv'
<1> DEFINE i == upload[e].line
           m == Fingerprint(e, i, AuthorOf(e, i))
<1>1. i \in LineOf(e) /\ Met(e, i) /\ upload[e].pc = "saving" /\ upload[e].author = AuthorOf(e, i)
  BY DEF ImportInv, Shaped, Progress, ProgressOf, SaveMessage, At
<1>2. /\ messages' = messages \union {m}
      /\ landed' = [landed EXCEPT ![e][i] = @ \union {m}]
      /\ participants' = participants
  BY <1>1 DEF SaveMessage
<1>3. Len(e.lines) \in Nat \ {0} /\ LineOf(e) = 1..Len(e.lines)
  BY WhatsAppImportConstants DEF LineOf
<1>4. Grows /\ PeopleInv'
  BY <1>2 DEF Grows, ImportInv, PeopleInv, Named
<1>5. \A j \in LineOf(e) : j < i \/ j = i => Stored(e, j)'
  <2>1. \A j \in LineOf(e) : j < i => Stored(e, j)
    BY <1>1 DEF ImportInv, Progress, ProgressOf
  <2>2. ASSUME NEW j \in LineOf(e), j = i PROVE Stored(e, j)'
    BY <1>1, <1>2, <2>2 DEF Stored, Met, AuthorOf, Fingerprint
  <2>3. QED
    BY <1>4, <2>1, <2>2, DealtWithStays
<1>6. /\ landed' = [f \in Export |-> landed'[f]]
      /\ \A f \in Export : landed'[f] = [j \in LineOf(f) |-> landed'[f][j]]
      /\ landed'[e][i] = landed[e][i] \union {m}
      /\ \A f \in Export : \A j \in LineOf(f) :
           f # e \/ j # i => landed'[f][j] = landed[f][j]
  <2> DEFINE row == [landed[e] EXCEPT ![i] = @ \union {m}]
  <2>1. landed = [f \in Export |-> landed[f]]
        /\ \A f \in Export : landed[f] = [j \in LineOf(f) |-> landed[f][j]]
    BY DEF ImportInv, Shaped
  <2>2. landed' = [landed EXCEPT ![e] = row]
    BY <1>2
  <2> HIDE DEF m, i
  <2>3. row = [j \in LineOf(e) |-> row[j]] /\ row[i] = landed[e][i] \union {m}
        /\ \A j \in LineOf(e) : j # i => row[j] = landed[e][j]
    BY <1>1, <2>1
  <2> HIDE DEF row
  <2>4. landed' = [f \in Export |-> landed'[f]] /\ landed'[e] = row
        /\ \A f \in Export : f # e => landed'[f] = landed[f]
    BY <2>1, <2>2
  <2>5. \A f \in Export : f # e => landed'[f] = [j \in LineOf(f) |-> landed'[f][j]]
    BY <2>1, <2>4
  <2>6. QED
    BY <2>3, <2>4, <2>5
<1>7. Landings'
  <2>1. Shaped /\ Landings
    BY DEF ImportInv
  <2>2. ASSUME NEW f \in Export, NEW j \in LineOf(f)
        PROVE  landed'[f][j] \subseteq {Fingerprint(f, j, AuthorOf(f, j))}
    <3>1. CASE f = e /\ j = i
      BY <1>1, <1>6, <2>1, <3>1 DEF Landings
    <3>2. CASE f # e \/ j # i
      BY <1>6, <2>1, <3>2 DEF Landings
    <3>3. QED
      BY <3>1, <3>2
  <2>3. QED
    BY <2>2 DEF Landings
<1>8. AuthorsKnown'
  <2>1. m.author = AuthorOf(e, i) /\ m.chat = e.chat
    BY DEF Fingerprint
  <2>2. m.author[1] = "p" => \E p \in participants : p.id = m.author /\ p.chat = m.chat
    BY <1>1, <2>1, AuthorIsKnown DEF ImportInv
  <2>3. QED
    BY <1>2, <2>2 DEF ImportInv, AuthorsKnown
<1>9. CASE i < Len(e.lines)
  <2>1. MoveTo(e, "resolving", i + 1, NoAuthor) /\ finished' = finished
    BY <1>9 DEF SaveMessage
  <2>2. i + 1 \in LineOf(e) /\ \A j \in LineOf(e) : j < i + 1 => j < i \/ j = i
    BY <1>1, <1>3, <1>9
  <2>3. "resolving" \in Label
    BY DEF Label
  <2>4. upload'[e].pc = "resolving" /\ upload'[e].line = i + 1
        /\ \A f \in Export : f # e => upload'[f] = upload[f]
    BY <2>1, <2>2, <2>3, Moved DEF ImportInv
  <2>5. ProgressOf(e)'
    BY <1>4, <1>5, <2>1, <2>2, <2>4, DealtWithStays DEF ImportInv, Progress, ProgressOf
  <2>6. Progress'
    BY <1>4, <2>1, <2>4, <2>5, ProgressStays DEF ImportInv, Progress
  <2>7. Shaped'
    BY <1>6, <2>1, <2>2, <2>3, Moved DEF ImportInv, Shaped
  <2>8. QED
    BY <1>4, <1>7, <1>8, <2>6, <2>7 DEF ImportInv
<1>10. CASE ~(i < Len(e.lines))
  <2>1. MoveTo(e, "idle", 1, NoAuthor) /\ finished' = finished \union {e}
    BY <1>10 DEF SaveMessage
  <2>2. \A j \in LineOf(e) : j < i \/ j = i
    BY <1>1, <1>3, <1>10
  <2>3. 1 \in LineOf(e) /\ "idle" \in Label
    BY FirstLine DEF Label
  <2>4. upload'[e].pc = "idle" /\ \A f \in Export : f # e => upload'[f] = upload[f]
    BY <2>1, <2>3, Moved DEF ImportInv
  <2>5. ProgressOf(e)'
    BY <1>5, <2>2, <2>4 DEF ProgressOf
  <2>6. Progress'
    BY <1>4, <2>1, <2>4, <2>5, ProgressStays DEF ImportInv, Progress
  <2>7. Shaped'
    BY <1>6, <2>1, <2>3, Moved DEF ImportInv, Shaped
  <2>8. QED
    BY <1>4, <1>7, <1>8, <2>6, <2>7 DEF ImportInv
<1>11. QED
  BY <1>9, <1>10

LEMMA CrashKeeps ==
  ASSUME ImportInv, Crash
  PROVE  ImportInv'
<1>1. upload' = [e \in Export |-> NoUpload] /\ UNCHANGED <<tables, finished, landed>>
  BY DEF Crash
<1>2. NoUpload.pc = "idle" /\ NoUpload.line = 1
  BY DEF NoUpload
<1>3. Shaped'
  BY <1>1, <1>2, FirstLine DEF ImportInv, Shaped, Label
<1>4. Grows /\ PeopleInv' /\ Landings' /\ AuthorsKnown'
  BY <1>1 DEF ImportInv, PeopleInv, Landings, AuthorsKnown, Grows, tables
<1>5. Progress'
  BY <1>1, <1>2, <1>4, DealtWithStays DEF ImportInv, Progress, ProgressOf
<1>6. QED
  BY <1>3, <1>4, <1>5 DEF ImportInv

LEMMA ImportNext == ImportInv /\ [Next]_vars => ImportInv'
<1> SUFFICES ASSUME ImportInv, [Next]_vars PROVE ImportInv'
  OBVIOUS
<1>1. ASSUME NEW e \in Export, Ingest(e) PROVE ImportInv'
  BY <1>1, BeginKeeps, ResolveFixedKeeps, ResolveKnownKeeps, ResolveUnknownKeeps,
     CreateParticipantKeeps, CreateFailsKeeps, SaveMessageKeeps DEF Ingest
<1>2. CASE UNCHANGED vars
  BY <1>2 DEF vars, tables, ImportInv, Shaped, PeopleInv, Progress, ProgressOf, Stored, Met,
              Landings, AuthorsKnown
<1>3. QED
  BY <1>1, <1>2, CrashKeeps DEF Next

LEMMA ImportInvariant == Spec => []ImportInv
BY ImportInit, ImportNext, PTL DEF Spec

-----------------------------------------------------------------------------
(* Types *)

\* A step of one ingest is none of another's.
LEMMA OnlyItsOwn ==
  ASSUME ImportInv, NEW f \in Export, Ingest(f), NEW e \in Export, e # f
  PROVE  upload'[e] = upload[e]
<1>1. PICK u : upload' = [upload EXCEPT ![f] = u]
  BY DEF Ingest, Begin, ResolveFixed, ResolveKnown, ResolveUnknown, CreateParticipant,
         CreateFails, SaveMessage, Goto, MoveTo
<1>2. upload = [g \in Export |-> upload[g]]
  BY DEF ImportInv, Shaped
<1>3. QED
  BY <1>1, <1>2

Chats == {e.chat : e \in Export}

LEMMA SomeAuthor ==
  /\ System # NoAuthor
  /\ \A uploader : Self(uploader) # NoAuthor
  /\ \A sender : ParticipantId(sender) # NoAuthor /\ ParticipantId(sender)[1] = "p"
BY DEF System, Self, ParticipantId, NoAuthor

LEMMA TypeKept == ImportInv /\ ImportInv' /\ TypeOK /\ [Next]_vars => TypeOK'
<1> SUFFICES ASSUME ImportInv, ImportInv', TypeOK, [Next]_vars PROVE TypeOK'
  OBVIOUS
<1>1. finished' \subseteq Export
      /\ \A e \in Export : upload'[e].pc \in Label /\ upload'[e].line \in 1..Len(e.lines)
  BY DEF ImportInv, Shaped, LineOf
<1>2. CASE UNCHANGED vars
  BY <1>2 DEF TypeOK, vars, tables
<1>3. CASE Crash
  BY <1>1, <1>3 DEF TypeOK, Crash, tables, NoUpload
<1>4. ASSUME NEW e \in Export, Ingest(e) PROVE TypeOK'
  <2> DEFINE Told(f) == upload'[f].pc = "saving" <=> upload'[f].author # NoAuthor
  <2>1. \A f \in Export : f # e => Told(f)
    BY <1>4, OnlyItsOwn DEF TypeOK
  <2>2. e.chat \in Chats
    BY DEF Chats
  <2>3. \A p \in participants' : p.id[1] = "p" /\ p.chat \in Chats
    <3>1. CASE participants' = participants
      BY <3>1 DEF TypeOK, Chats
    <3>2. CASE CreateParticipant(e)
      <4> DEFINE p == NewParticipant(e, ParticipantId(Sender(e)))
      <4>1. p.id = ParticipantId(Sender(e)) /\ p.chat = e.chat
        BY DEF NewParticipant
      <4>2. participants' = participants \union {p}
        BY <3>2 DEF CreateParticipant
      <4> HIDE DEF p
      <4>3. p.id[1] = "p"
        BY <4>1, SomeAuthor
      <4>4. QED
        BY <2>2, <4>1, <4>2, <4>3 DEF TypeOK, Chats
    <3>3. QED
      BY <1>4, <3>1, <3>2 DEF Ingest, Begin, ResolveFixed, ResolveKnown, ResolveUnknown,
                               CreateFails, SaveMessage, tables
  <2>4. \A m \in messages' : m.author # NoAuthor /\ m.chat \in Chats
    <3>1. CASE messages' = messages
      BY <3>1 DEF TypeOK, Chats
    <3>2. CASE SaveMessage(e)
      BY <2>2, <3>2 DEF TypeOK, Chats, SaveMessage, Fingerprint, At
    <3>3. QED
      BY <1>4, <3>1, <3>2 DEF Ingest, Begin, ResolveFixed, ResolveKnown, ResolveUnknown,
                               CreateParticipant, CreateFails, tables
  <2>5. Told(e)
    <3>1. \A label, line, author : MoveTo(e, label, line, author) =>
            upload'[e].pc = label /\ upload'[e].author = author
      BY DEF MoveTo, ImportInv, Shaped
    <3> HIDE DEF Told
    <3>2. \A line, author : MoveTo(e, "saving", line, author) /\ author # NoAuthor => Told(e)
      BY <3>1 DEF Told
    <3>3. \A label, line : MoveTo(e, label, line, NoAuthor) /\ label # "saving" => Told(e)
      BY <3>1 DEF Told
    <3>4. CASE ResolveFixed(e)
      BY <3>2, <3>4, SomeAuthor DEF ResolveFixed, Goto
    <3>5. CASE ResolveKnown(e)
      <4>1. \A p \in participants : p.id # NoAuthor
        BY DEF TypeOK, NoAuthor
      <4>2. QED
        BY <3>2, <3>5, <4>1 DEF ResolveKnown, Goto
    <3>6. CASE CreateParticipant(e)
      BY <3>2, <3>6, SomeAuthor DEF CreateParticipant, NewParticipant, Goto
    <3>7. QED
      BY <1>4, <3>3, <3>4, <3>5, <3>6 DEF Ingest, Begin, ResolveUnknown, CreateFails, SaveMessage, Goto
  <2>6. QED
    BY <1>1, <2>1, <2>3, <2>4, <2>5 DEF TypeOK, Chats
<1>5. QED
  BY <1>2, <1>3, <1>4 DEF Next

-----------------------------------------------------------------------------
(* Theorems *)

\* Whatever is interrupted or fails, an upload stands at a line of its export, and
\* knows an author exactly when it is about to save.
THEOREM TypeCorrect == Spec => []TypeOK
<1>1. Init => TypeOK
  BY FirstLine DEF Init, TypeOK, NoUpload, Label, LineOf
<1>2. QED
  BY <1>1, TypeKept, ImportInvariant, PTL DEF Spec

\* Whoever a stored message is attributed to exists in the message's own chat:
\* resolve_author stores the participant before ingest stores the message.
THEOREM AuthorsAreKnown == Spec => []AuthorsKnown
BY ImportInvariant, PTL DEF ImportInv

\* new_participant derives one id from one name or number, and the table has it
\* once, so no name or number of a chat is answered to by two participants.
THEOREM OneRowPerSender == Spec => []OneParticipantPerSender
<1>1. ASSUME ImportInv PROVE OneParticipantPerSender
  <2>1. SUFFICES ASSUME NEW p \in participants, NEW q \in participants, p # q
                 PROVE  /\ p.aliases \intersect q.aliases = {}
                        /\ p.phone = q.phone => p.phone = ""
    BY DEF OneParticipantPerSender
  <2>2. PICK t, u : /\ p.id = <<"p", t>> /\ p.phone \in {t, ""} /\ p.aliases \subseteq {t}
                    /\ q.id = <<"p", u>> /\ q.phone \in {u, ""} /\ q.aliases \subseteq {u}
    BY <1>1 DEF ImportInv, PeopleInv, Named
  <2>3. t # u
    BY <1>1, <2>1, <2>2 DEF ImportInv, PeopleInv
  <2>4. p.aliases \intersect q.aliases = {}
    BY <2>2, <2>3
  <2>5. p.phone # "" /\ q.phone # "" => p.phone # q.phone
    BY <2>2, <2>3
  <2>6. QED
    BY <2>4, <2>5
<1>2. QED
  BY <1>1, ImportInvariant, PTL

\* A line that exports of a chat show alike is one row: fingerprint is a function
\* of what they show, whichever upload gets there first.
THEOREM LinesCollapse == Spec => []SharedLinesCollapse
<1>1. ASSUME ImportInv PROVE SharedLinesCollapse
  <2>1. SUFFICES ASSUME NEW e \in Export, NEW f \in Export,
                        NEW i \in LineOf(e), NEW j \in LineOf(f),
                        e.chat = f.chat, e.lines[i] = f.lines[j], SenderOf(e, i).kind # "you"
                 PROVE  Cardinality(landed[e][i] \union landed[f][j]) <= 1
    BY DEF SharedLinesCollapse, LineOf, SenderOf
  <2>2. Fingerprint(e, i, AuthorOf(e, i)) = Fingerprint(f, j, AuthorOf(f, j))
    BY <2>1 DEF Fingerprint, AuthorOf, SenderOf
  <2> DEFINE m == Fingerprint(e, i, AuthorOf(e, i))
  <2>3. landed[e][i] \union landed[f][j] \subseteq {m}
    BY <1>1, <2>1, <2>2 DEF ImportInv, Landings
  <2>4. IsFiniteSet({m}) /\ Cardinality({m}) = 1
    BY FS_Singleton
  <2> HIDE DEF m
  <2>5. Cardinality(landed[e][i] \union landed[f][j]) <= 1
    BY <2>3, <2>4, FS_Subset
  <2>6. QED
    BY <2>5
<1>2. QED
  BY <1>1, ImportInvariant, PTL

\* Ingesting an export that went through once more changes no table: every line
\* finds its author and its row.
THEOREM ReimportsChangeNothing == Spec => ReimportChangesNothing
<1> DEFINE Inert == \A e \in finished : upload'[e] # upload[e] => UNCHANGED tables
<1>1. ASSUME ImportInv, ImportInv', [Next]_vars PROVE [Inert]_vars
  <2>1. ASSUME NEW e \in finished, upload'[e] # upload[e] PROVE UNCHANGED tables
    <3>1. CASE Crash
      BY <3>1 DEF Crash
    <3>2. ASSUME NEW f \in Export, Ingest(f) PROVE f = e
      BY <1>1, <2>1, <3>2, OnlyItsOwn DEF ImportInv, Shaped
    <3>3. CASE Ingest(e)
      <4>1. e \in Export /\ \A i \in LineOf(e) : Stored(e, i)
        BY <1>1, <2>1 DEF ImportInv, Shaped, Progress, ProgressOf
      <4>2. CASE SaveMessage(e)
        <5>1. upload[e].line \in LineOf(e) /\ upload[e].author = AuthorOf(e, upload[e].line)
          BY <1>1, <4>1, <4>2 DEF ImportInv, Shaped, Progress, ProgressOf, SaveMessage, At
        <5>2. Fingerprint(e, upload[e].line, upload[e].author) \in messages
          BY <4>1, <5>1 DEF Stored
        <5>3. QED
          BY <4>2, <5>2 DEF SaveMessage, tables
      <4>3. ~CreateParticipant(e)
        BY <1>1, <2>1, <4>1 DEF ImportInv, Progress, ProgressOf, CreateParticipant, At
      <4>4. QED
        BY <3>3, <4>2, <4>3 DEF Ingest, Begin, ResolveFixed, ResolveKnown, ResolveUnknown, CreateFails
    <3>4. QED
      BY <1>1, <2>1, <3>1, <3>2, <3>3 DEF Next, vars
  <2>2. QED
    BY <2>1
<1>2. QED
  BY <1>1, ImportInvariant, PTL DEF ReimportChangesNothing, Spec

-----------------------------------------------------------------------------
\* Every author a message is attributed to is a participant of its chat, and no
\* sender is two participants.
THEOREM IdentitiesStaySound == Spec => []IdentitiesSound
<1>1. AuthorsKnown /\ OneParticipantPerSender => IdentitiesSound
  BY DEF IdentitiesSound
<1>2. QED
  BY <1>1, AuthorsAreKnown, OneRowPerSender, PTL

-----------------------------------------------------------------------------
(* Finite sets of instants *)

\* What holds of zero and of each number's successor holds of all.
LEMMA Induction ==
  ASSUME NEW P \in SUBSET Nat, 0 \in P, \A n \in P : n + 1 \in P
  PROVE  \A n \in Nat : n \in P
<1> SUFFICES ASSUME Nat \ P # {} PROVE FALSE
  OBVIOUS
<1> DEFINE R == OpToRel(<, Nat)
           T == Nat \ P
<1>1. IsWellFoundedOn(R, Nat) /\ T \subseteq Nat /\ T # {}
  BY NatLessThanWellFounded
<1>2. \A x, y \in Nat : <<x, y>> \in R <=> x < y
  BY DEF OpToRel
<1> HIDE DEF R, T
<1>3. PICK x \in T : \A y \in T : ~(<<y, x>> \in R)
  BY <1>1, WFMin
<1>4. x \in Nat /\ x # 0 /\ x \notin P
  BY <1>1, <1>3 DEF T
<1>5. x - 1 \in Nat /\ x - 1 < x
  BY <1>4
<1>6. x - 1 \in P
  BY <1>1, <1>2, <1>3, <1>4, <1>5 DEF T
<1>7. QED
  BY <1>4, <1>6

Spans(S) == \E low, high \in S : \A x \in S : low <= x /\ x <= high

LEMMA FiniteSpans ==
  ASSUME NEW S \in SUBSET Int, IsFiniteSet(S), S # {}
  PROVE  Spans(S)
<1> DEFINE P == {n \in Nat : \A U \in SUBSET Int :
                   IsFiniteSet(U) /\ Cardinality(U) = n /\ U # {} => Spans(U)}
<1>1. 0 \in P
  BY FS_EmptySet
<1>2. ASSUME NEW n \in P PROVE n + 1 \in P
  <2> SUFFICES ASSUME NEW U \in SUBSET Int, IsFiniteSet(U), Cardinality(U) = n + 1
               PROVE  Spans(U)
    <3>1. n + 1 \in Nat
      OBVIOUS
    <3>2. QED
      BY <3>1
  <2>1. U # {}
    BY FS_EmptySet
  <2>2. PICK x \in U : TRUE
    BY <2>1
  <2> DEFINE V == U \ {x}
  <2>3. IsFiniteSet(V) /\ Cardinality(V) = n /\ V \in SUBSET Int /\ U = V \union {x}
    <3>1. IsFiniteSet(V) /\ Cardinality(V) = Cardinality(U) - 1
      BY FS_RemoveElement
    <3>2. QED
      BY <3>1
  <2>4. CASE V = {}
    BY <2>2, <2>3, <2>4 DEF Spans
  <2>5. CASE V # {}
    <3>1. PICK low, high \in V : \A y \in V : low <= y /\ y <= high
      BY <2>3, <2>5 DEF Spans
    <3> HIDE DEF V
    <3>2. \E l \in U : \A y \in U : l <= y
      <4>1. CASE x <= low
        BY <2>2, <2>3, <3>1, <4>1
      <4>2. CASE low <= x
        BY <2>2, <2>3, <3>1, <4>2
      <4>3. QED
        BY <2>2, <2>3, <3>1, <4>1, <4>2
    <3>3. \E h \in U : \A y \in U : y <= h
      <4>1. CASE x <= high
        BY <2>2, <2>3, <3>1, <4>1
      <4>2. CASE high <= x
        BY <2>2, <2>3, <3>1, <4>2
      <4>3. QED
        BY <2>2, <2>3, <3>1, <4>1, <4>2
    <3>4. QED
      BY <3>2, <3>3 DEF Spans
  <2>6. QED
    BY <2>4, <2>5
<1>3. Cardinality(S) \in P
  <2>1. P \in SUBSET Nat /\ Cardinality(S) \in Nat
    BY FS_CardinalityType
  <2> HIDE DEF P
  <2>2. QED
    BY <1>1, <1>2, <2>1, Induction
<1>4. QED
  BY <1>3

\* A larger set of instants begins no later and ends no earlier.
LEMMA WiderSpans ==
  ASSUME NEW S \in SUBSET Int, IsFiniteSet(S), NEW T \in SUBSET S, T # {}
  PROVE  Min(S) <= Min(T) /\ Max(T) <= Max(S)
<1>1. IsFiniteSet(T) /\ S # {}
  BY FS_Subset
<1>2. Spans(S) /\ Spans(T)
  BY <1>1, FiniteSpans
<1>3. ASSUME NEW U \in {S, T}
      PROVE  /\ Min(U) \in U /\ \A x \in U : Min(U) <= x
             /\ Max(U) \in U /\ \A x \in U : Max(U) >= x
  <2>1. PICK low, high \in U : \A x \in U : low <= x /\ x <= high
    BY <1>2 DEF Spans
  <2>2. U \subseteq Int
    OBVIOUS
  <2>3. \A x \in U : high >= x
    BY <2>1, <2>2
  <2>4. QED
    BY <2>1, <2>3 DEF Min, Max
<1>4. QED
  BY <1>3

-----------------------------------------------------------------------------
(* An export, line by line *)

\* The function ParseExport is read off, up to line n.
ParsesTo(file, order, zone, n, g) ==
  g = [i \in 0..n |-> IF i = 0 THEN Empty ELSE ParseLine(g[i - 1], file[i], order, zone)]

LEMMA ParseExists ==
  ASSUME NEW file, NEW order, NEW zone, NEW m \in Nat
  PROVE  \E g : ParsesTo(file, order, zone, m, g)
<1> DEFINE P == {n \in Nat : \E g : ParsesTo(file, order, zone, n, g)}
<1>1. 0 \in P
  <2> DEFINE g == [i \in 0..0 |-> Empty]
  <2>1. ParsesTo(file, order, zone, 0, g)
    BY DEF ParsesTo
  <2>2. QED
    BY <2>1
<1>2. ASSUME NEW n \in P PROVE n + 1 \in P
  <2>1. PICK g : ParsesTo(file, order, zone, n, g)
    OBVIOUS
  <2> DEFINE h == [i \in 0..(n + 1) |->
                     IF i = n + 1 THEN ParseLine(g[n], file[n + 1], order, zone) ELSE g[i]]
  <2>2. \A i \in 0..n : g[i] = IF i = 0 THEN Empty
                               ELSE ParseLine(g[i - 1], file[i], order, zone)
    BY <2>1 DEF ParsesTo
  <2>3. \A i \in 0..n : h[i] = g[i] /\ i # n + 1 /\ i \in 0..(n + 1)
    OBVIOUS
  <2>4. /\ h[n + 1] = ParseLine(h[n], file[n + 1], order, zone)
        /\ n + 1 # 0 /\ (n + 1) - 1 = n
    OBVIOUS
  <2>5. h = [i \in 0..(n + 1) |-> h[i]]
    OBVIOUS
  <2> HIDE DEF h
  <2>6. ASSUME NEW i \in 0..(n + 1)
        PROVE  h[i] = IF i = 0 THEN Empty ELSE ParseLine(h[i - 1], file[i], order, zone)
    <3>1. CASE i = n + 1
      BY <2>4, <3>1
    <3>2. CASE i \in 0..n /\ i # 0
      <4>1. i - 1 \in 0..n
        BY <3>2
      <4>2. QED
        BY <2>2, <2>3, <3>2, <4>1
    <3>3. CASE i = 0
      BY <2>2, <2>3, <3>3
    <3>4. QED
      BY <3>1, <3>2, <3>3
  <2>7. ParsesTo(file, order, zone, n + 1, h)
    BY <2>5, <2>6 DEF ParsesTo
  <2>8. QED
    BY <2>7
<1>3. P \in SUBSET Nat
  OBVIOUS
<1>4. m \in P
  <2> HIDE DEF P
  <2>1. QED
    BY <1>1, <1>2, <1>3, Induction
<1>5. QED
  BY <1>4

\* The parses of a file's beginnings, the last of which is the parse of all of it.
Parses(file, order, zone, g) ==
  /\ ParseExport(file, order, zone) = g[Len(file)]
  /\ g[0] = Empty
  /\ \A n \in Nat : n + 1 <= Len(file) =>
       g[n + 1] = ParseLine(g[n], file[n + 1], order, zone)

LEMMA ParseStepwise ==
  ASSUME NEW file, Len(file) \in Nat, NEW order, NEW zone
  PROVE  \E g : Parses(file, order, zone, g)
<1> DEFINE m == Len(file)
           f == CHOOSE g : ParsesTo(file, order, zone, m, g)
<1>1. ParsesTo(file, order, zone, m, f)
  BY ParseExists
<1>2. ParseExport(file, order, zone) = f[m]
  BY DEF ParseExport, ParsesTo
<1> HIDE DEF f
<1>3. \A i \in 0..m : f[i] = IF i = 0 THEN Empty
                             ELSE ParseLine(f[i - 1], file[i], order, zone)
  BY <1>1 DEF ParsesTo
<1>4. f[0] = Empty
  BY <1>3
<1>5. ASSUME NEW n \in Nat, n + 1 <= m
      PROVE  f[n + 1] = ParseLine(f[n], file[n + 1], order, zone)
  <2>1. n + 1 \in 0..m /\ n + 1 # 0 /\ (n + 1) - 1 = n
    BY <1>5
  <2>2. QED
    BY <1>3, <2>1
<1>6. QED
  BY <1>2, <1>4, <1>5 DEF Parses

-----------------------------------------------------------------------------
(* What a line makes of the parse *)

Opening == {"ios", "android", "plain"}

Content == Seq(Seq(STRING \union Opening))

MessageType ==
  [timestamp : Int, sender : [kind : STRING, text : STRING], content : Content,
   has_media : BOOLEAN]

EventKind == {"GroupCreated", "MemberJoinedOrAdded"}

EventType == [kind : EventKind, timestamp : Int]

Parsing == [format : Opening, messages : Seq(MessageType), events : Seq(EventType)]

LEMMA Times ==
  ASSUME NEW a \in Int, NEW b \in Int
  PROVE  a * b \in Int
OBVIOUS

LEMMA InstantIsInt ==
  ASSUME NEW line \in Line, NEW order, NEW zone, Begins(line, order, zone)
  PROVE  InstantOf(line, order, zone) \in Int
<1> DEFINE wall == ParseStamp(line, order)
           date == DayAndMonth(line.numbers, order)
           hour == Hour(line.hour, line.half)
<1>1. wall # Unreadable
  BY DEF Begins, IsHeader
<1>2. /\ date[2] \in 1..12 /\ date[1] \in 1..DaysIn(date[2])
      /\ wall = ((MonthStart(date[2]) + date[1] - 1) * 24 + hour) * TicksPerHour + line.second
  BY <1>1 DEF ParseStamp
<1>3. date[1] \in Int /\ MonthStart(date[2]) \in Int
  BY <1>2, ParserConstants
<1>4. hour \in Int /\ line.second \in Int
  <2>1. line.hour \in Nat /\ line.second \in Nat
    BY DEF Line
  <2>2. QED
    BY <2>1 DEF Hour
<1>5. wall \in Int
  <2> HIDE DEF date, hour
  <2>1. (MonthStart(date[2]) + date[1] - 1) * 24 + hour \in Int
    BY <1>3, <1>4
  <2>2. ((MonthStart(date[2]) + date[1] - 1) * 24 + hour) * TicksPerHour \in Int
    BY <2>1, ParserConstants, Times
  <2> HIDE DEF wall
  <2>3. QED
    BY <1>2, <1>4, <2>2
<1> DEFINE instants == {t \in (wall - MaxOffset)..(wall + MaxOffset) : t + Offset(zone, t) = wall}
<1>6. InstantOf(line, order, zone) = Min(instants) /\ instants # {}
  BY DEF Begins, InstantOf, ToUtc
<1>7. IsFiniteSet(instants) /\ instants \in SUBSET Int
  <2> HIDE DEF wall
  <2>1. wall - MaxOffset \in Int /\ wall + MaxOffset \in Int
    BY <1>5, ParserConstants
  <2>2. IsFiniteSet((wall - MaxOffset)..(wall + MaxOffset))
    BY <2>1, FS_Interval
  <2>3. QED
    BY <2>1, <2>2, FS_Subset
<1> HIDE DEF instants
<1>8. PICK low \in instants : \A t \in instants : low <= t
  BY <1>6, <1>7, FiniteSpans DEF Spans
<1>9. Min(instants) \in instants
  BY <1>8 DEF Min
<1>10. QED
  BY <1>6, <1>7, <1>9

\* The events of a line.
LEMMA NewsTyped ==
  ASSUME NEW line \in Line, NEW order, NEW zone, Begins(line, order, zone)
  PROVE  LET ts == InstantOf(line, order, zone)
             kinds == IF line.sender.kind = "system" THEN ClassifyEvent(line.text) ELSE <<>> IN
         [i \in DOMAIN kinds |-> [kind |-> kinds[i], timestamp |-> ts]] \in Seq(EventType)
<1> DEFINE ts == InstantOf(line, order, zone)
           kinds == IF line.sender.kind = "system" THEN ClassifyEvent(line.text) ELSE <<>>
<1>1. ts \in Int
  BY InstantIsInt
<1>2. kinds \in Seq(EventKind)
  <2>1. \A kind \in EventKind : <<kind>> \in Seq(EventKind)
    OBVIOUS
  <2>2. kinds \in {<<>>, <<"GroupCreated">>, <<"MemberJoinedOrAdded">>}
    BY DEF ClassifyEvent
  <2> HIDE DEF kinds
  <2>3. <<>> \in Seq(EventKind)
    OBVIOUS
  <2>4. <<"GroupCreated">> \in Seq(EventKind) /\ <<"MemberJoinedOrAdded">> \in Seq(EventKind)
    BY <2>1 DEF EventKind
  <2>5. QED
    BY <2>2, <2>3, <2>4
<1> HIDE DEF kinds, ts
<1>3. \A i \in DOMAIN kinds : [kind |-> kinds[i], timestamp |-> ts] \in EventType
  BY <1>1, <1>2 DEF EventType
<1>4. DOMAIN kinds = 1..Len(kinds) /\ Len(kinds) \in Nat
  BY <1>2
<1>5. [i \in DOMAIN kinds |-> [kind |-> kinds[i], timestamp |-> ts]] \in Seq(EventType)
  BY <1>3, <1>4
<1>6. QED
  BY <1>5 DEF kinds, ts

LEMMA NewTyped ==
  ASSUME NEW line \in Line, NEW order, NEW zone, Begins(line, order, zone)
  PROVE  Message(line, InstantOf(line, order, zone)) \in MessageType
<1> DEFINE Words == STRING \union Opening
<1>1. line.text \in Words
  BY DEF Line
<1>2. Content = Seq(Seq(Words))
  BY DEF Content
<1>3. <<<<line.text>>>> \in Content
  <2> HIDE DEF Words
  <2>1. QED
    BY <1>1, <1>2
<1>4. InstantOf(line, order, zone) \in Int
  BY InstantIsInt
<1>5. QED
  BY <1>3, <1>4 DEF Message, MessageType, IsMedia, Line

LEMMA ContinuedTyped ==
  ASSUME NEW message \in MessageType, NEW line \in Line
  PROVE  Continued(message, line) \in MessageType
<1> DEFINE Words == STRING \union Opening
<1>1. line.open \in Words /\ line.text \in Words
  BY DEF Line, Opening
<1>2. Content = Seq(Seq(Words))
  BY DEF Content
<1> HIDE DEF Words
<1>3. Whole(line) \in Seq(Words)
  BY <1>1 DEF Whole
<1>4. message.content \in Content
  BY DEF MessageType
<1>5. Append(message.content, Whole(line)) \in Content
  BY <1>2, <1>3, <1>4
<1>6. QED
  BY <1>5 DEF Continued, MessageType, IsMedia

LEMMA LineParsed ==
  ASSUME NEW parsed \in Parsing, NEW line \in Line, NEW order, NEW zone
  PROVE  ParseLine(parsed, line, order, zone) \in Parsing
<1> DEFINE ts == InstantOf(line, order, zone)
<1>1. CASE ~IsHeader(line, order)
  <2> DEFINE last == Len(parsed.messages)
             new == Continued(parsed.messages[last], line)
  <2>1. CASE last = 0
    BY <1>1, <2>1 DEF ParseLine, Continue
  <2>2. CASE last # 0
    <3>1. last \in 1..last /\ parsed.messages[last] \in MessageType
      BY <2>2 DEF Parsing
    <3>2. new \in MessageType
      BY <3>1, ContinuedTyped
    <3>3. ParseLine(parsed, line, order, zone) = [parsed EXCEPT !.messages[last] = new]
      BY <1>1, <2>2 DEF ParseLine, Continue
    <3> HIDE DEF new
    <3>4. [parsed.messages EXCEPT ![last] = new] \in Seq(MessageType)
      BY <3>1, <3>2 DEF Parsing
    <3>5. QED
      BY <3>3, <3>4 DEF Parsing
  <2>3. QED
    BY <2>1, <2>2
<1>2. CASE IsHeader(line, order) /\ ts = Unreadable
  BY <1>2 DEF ParseLine
<1>3. CASE IsHeader(line, order) /\ ts # Unreadable
  <2> DEFINE kinds == IF line.sender.kind = "system" THEN ClassifyEvent(line.text) ELSE <<>>
             news == [i \in DOMAIN kinds |-> [kind |-> kinds[i], timestamp |-> ts]]
  <2>1. news \in Seq(EventType) /\ Message(line, ts) \in MessageType
    BY <1>3, NewsTyped, NewTyped DEF Begins
  <2>2. ParseLine(parsed, line, order, zone) =
          [format |-> line.open, messages |-> Append(parsed.messages, Message(line, ts)),
           events |-> parsed.events \o news]
    BY <1>3 DEF ParseLine, NewMessage
  <2>3. line.open \in Opening
    BY DEF Line, Opening
  <2> HIDE DEF news
  <2>4. QED
    BY <2>1, <2>2, <2>3 DEF Parsing
<1>4. QED
  BY <1>1, <1>2, <1>3

\* Each beginning of a file parses to messages and events.
LEMMA PrefixesParsed ==
  ASSUME NEW file \in Seq(Line), NEW order, NEW zone, NEW g, Parses(file, order, zone, g)
  PROVE  \A n \in 0..Len(file) : g[n] \in Parsing
<1> DEFINE P == {n \in Nat : n <= Len(file) => g[n] \in Parsing}
<1>1. 0 \in P
  <2>1. <<>> \in Seq(MessageType) /\ <<>> \in Seq(EventType) /\ "ios" \in Opening
    BY DEF Opening
  <2>2. Empty \in Parsing
    BY <2>1 DEF Empty, Parsing
  <2>3. QED
    BY <2>2 DEF Parses
<1>2. ASSUME NEW n \in P PROVE n + 1 \in P
  <2>1. CASE n + 1 <= Len(file)
    <3>1. g[n] \in Parsing /\ file[n + 1] \in Line
      BY <2>1
    <3>2. g[n + 1] = ParseLine(g[n], file[n + 1], order, zone)
      BY <2>1 DEF Parses
    <3>3. QED
      BY <3>1, <3>2, LineParsed
  <2>2. QED
    BY <2>1
<1>3. \A n \in Nat : n \in P
  <2>1. P \in SUBSET Nat
    OBVIOUS
  <2> HIDE DEF P
  <2>2. QED
    BY <1>1, <1>2, <2>1, Induction
<1>4. QED
  BY <1>3


-----------------------------------------------------------------------------
(* What a parse tells of the lines it has read *)

BelowTo(file, order, zone, i, n) ==
  {l \in (i + 1)..n :
     ~IsHeader(file[l], order) /\ \A j \in (i + 1)..l : ~Begins(file[j], order, zone)}

ReadsTo(content, file, order, zone, i, n) ==
  LET below == BelowTo(file, order, zone, i, n) IN
  /\ Len(content) = 1 + Cardinality(below)
  /\ content[1] = <<file[i].text>>
  /\ \A l \in below : content[1 + Cardinality({k \in below : k <= l})] = Whole(file[l])

\* Message k is the message that starts at line s[k].
TellsAt(message, file, order, zone, i, n) ==
  /\ Begins(file[i], order, zone)
  /\ message.timestamp = InstantOf(file[i], order, zone)
  /\ message.sender = file[i].sender
  /\ ReadsTo(message.content, file, order, zone, i, n)

TellsBy(read, file, order, zone, n, s) ==
  /\ s \in [1..Len(read) -> 1..n]
  /\ \A j, k \in 1..Len(read) : j < k => s[j] < s[k]
  /\ \A i \in 1..n : Begins(file[i], order, zone) => \E k \in 1..Len(read) : s[k] = i
  /\ \A k \in 1..Len(read) : TellsAt(read[k], file, order, zone, s[k], n)

Tells(read, file, order, zone, n) == \E s : TellsBy(read, file, order, zone, n, s)

\* A line belongs to a message above it when it is not like a header and no message
\* starts between the two.
LEMMA BelowNext ==
  ASSUME NEW file, NEW order, NEW zone, NEW n \in Nat, NEW i \in 1..n,
         ~IsHeader(file[n + 1], order),
         \A j \in (i + 1)..n : ~Begins(file[j], order, zone)
  PROVE  BelowTo(file, order, zone, i, n + 1) = BelowTo(file, order, zone, i, n) \union {n + 1}
<1>1. ~Begins(file[n + 1], order, zone)
  BY DEF Begins
<1>2. \A l \in (i + 1)..(n + 1) : l \in (i + 1)..n \/ l = n + 1
  OBVIOUS
<1>3. n + 1 \in (i + 1)..(n + 1) /\ \A l \in (i + 1)..n : l \in (i + 1)..(n + 1)
  OBVIOUS
<1>4. \A j \in (i + 1)..(n + 1) : ~Begins(file[j], order, zone)
  BY <1>1, <1>2
<1>5. QED
  BY <1>2, <1>3, <1>4 DEF BelowTo

LEMMA BelowStays ==
  ASSUME NEW file, NEW order, NEW zone, NEW n \in Nat, NEW i \in 1..n,
         \/ IsHeader(file[n + 1], order)
         \/ \E j \in (i + 1)..n : Begins(file[j], order, zone)
  PROVE  BelowTo(file, order, zone, i, n + 1) = BelowTo(file, order, zone, i, n)
<1>1. \A l \in (i + 1)..(n + 1) : l \in (i + 1)..n \/ l = n + 1
  OBVIOUS
<1>2. \A l \in (i + 1)..n : l \in (i + 1)..(n + 1)
  OBVIOUS
<1>3. n + 1 \notin BelowTo(file, order, zone, i, n + 1)
  <2>1. \A j \in (i + 1)..n : j \in (i + 1)..(n + 1)
    OBVIOUS
  <2>2. QED
    BY <2>1 DEF BelowTo
<1>4. QED
  BY <1>1, <1>2, <1>3 DEF BelowTo

LEMMA TellsStays ==
  ASSUME NEW file, NEW order, NEW zone, NEW n \in Nat, NEW i \in 1..n, NEW message,
         TellsAt(message, file, order, zone, i, n),
         BelowTo(file, order, zone, i, n + 1) = BelowTo(file, order, zone, i, n)
  PROVE  TellsAt(message, file, order, zone, i, n + 1)
BY DEF TellsAt, ReadsTo

LEMMA BelowFinite ==
  ASSUME NEW file, NEW order, NEW zone, NEW n \in Nat, NEW i \in Nat
  PROVE  /\ IsFiniteSet(BelowTo(file, order, zone, i, n))
         /\ Cardinality(BelowTo(file, order, zone, i, n)) \in Nat
<1>1. IsFiniteSet((i + 1)..n)
  BY FS_Interval
<1>2. BelowTo(file, order, zone, i, n) \in SUBSET ((i + 1)..n)
  BY DEF BelowTo
<1>3. QED
  BY <1>1, <1>2, FS_Subset, FS_CardinalityType

\* A line goes to the message above it.
LEMMA ContinuedTells ==
  ASSUME NEW file \in Seq(Line), NEW order, NEW zone, NEW n \in Nat, n + 1 <= Len(file),
         NEW i \in 1..n, NEW message \in MessageType,
         TellsAt(message, file, order, zone, i, n),
         ~IsHeader(file[n + 1], order),
         \A j \in (i + 1)..n : ~Begins(file[j], order, zone)
  PROVE  TellsAt(Continued(message, file[n + 1]), file, order, zone, i, n + 1)
<1> DEFINE old == BelowTo(file, order, zone, i, n)
           new == BelowTo(file, order, zone, i, n + 1)
           content == Append(message.content, Whole(file[n + 1]))
<1>1. new = old \union {n + 1}
  BY BelowNext
<1>2. IsFiniteSet(old) /\ Cardinality(old) \in Nat
  BY BelowFinite
<1>3. n + 1 \notin old /\ \A l \in old : l \in Nat /\ l <= n
  BY DEF BelowTo
<1>4. IsFiniteSet(new) /\ Cardinality(new) = Cardinality(old) + 1
  BY <1>1, <1>2, <1>3, FS_AddElement
<1>5. /\ Len(message.content) = 1 + Cardinality(old)
      /\ message.content[1] = <<file[i].text>>
      /\ \A l \in old : message.content[1 + Cardinality({k \in old : k <= l})] = Whole(file[l])
  BY DEF TellsAt, ReadsTo
<1>6. message.content \in Content
  BY DEF MessageType
<1>7. Continued(message, file[n + 1]).content = content
      /\ Continued(message, file[n + 1]).timestamp = message.timestamp
      /\ Continued(message, file[n + 1]).sender = message.sender
  BY DEF Continued, MessageType
<1> HIDE DEF old, new
<1>8. /\ Len(content) = Len(message.content) + 1
      /\ content[Len(content)] = Whole(file[n + 1])
      /\ \A j \in 1..Len(message.content) : content[j] = message.content[j]
  BY <1>6 DEF Content
<1> HIDE DEF content
<1>9. ASSUME NEW l \in new
      PROVE  content[1 + Cardinality({k \in new : k <= l})] = Whole(file[l])
  <2>1. CASE l = n + 1
    <3>1. \A k \in new : k <= l
      BY <1>1, <1>3, <2>1
    <3>2. {k \in new : k <= l} = new
      BY <3>1
    <3>3. Len(content) = 1 + Cardinality(new)
      BY <1>2, <1>4, <1>5, <1>8
    <3>4. QED
      BY <1>8, <2>1, <3>2, <3>3
  <2>2. CASE l \in old
    <3>1. {k \in new : k <= l} = {k \in old : k <= l}
      BY <1>1, <1>3, <2>2
    <3>2. /\ Cardinality({k \in old : k <= l}) \in Nat
          /\ Cardinality({k \in old : k <= l}) <= Cardinality(old)
      <4>1. {k \in old : k <= l} \in SUBSET old
        OBVIOUS
      <4>2. QED
        BY <1>2, <4>1, FS_Subset, FS_CardinalityType
    <3>3. 1 + Cardinality({k \in old : k <= l}) \in 1..Len(message.content)
      BY <1>2, <1>5, <3>2
    <3>4. QED
      BY <1>5, <1>8, <2>2, <3>1, <3>3
  <2>3. QED
    BY <1>1, <2>1, <2>2
<1>10. Len(content) = 1 + Cardinality(new)
  BY <1>2, <1>4, <1>5, <1>8
<1>11. content[1] = <<file[i].text>>
  <2>1. 1 \in 1..Len(message.content)
    BY <1>2, <1>5
  <2>2. QED
    BY <1>5, <1>8, <2>1
<1>12. ReadsTo(content, file, order, zone, i, n + 1)
  BY <1>9, <1>10, <1>11 DEF ReadsTo, new
<1>13. QED
  BY <1>7, <1>12 DEF TellsAt

\* A line that starts a message tells of itself alone.
LEMMA NewTells ==
  ASSUME NEW file, NEW order, NEW zone, NEW n \in Nat, Begins(file[n + 1], order, zone)
  PROVE  TellsAt(Message(file[n + 1], InstantOf(file[n + 1], order, zone)),
                 file, order, zone, n + 1, n + 1)
<1>1. BelowTo(file, order, zone, n + 1, n + 1) = {}
  BY DEF BelowTo
<1>2. QED
  BY <1>1, FS_EmptySet DEF TellsAt, ReadsTo, Message

\* Reading a line keeps the messages telling of what was read.
LEMMA TellsStep ==
  ASSUME NEW file \in Seq(Line), NEW order, NEW zone, NEW n \in Nat, n + 1 <= Len(file),
         NEW parsed \in Parsing, Tells(parsed.messages, file, order, zone, n)
  PROVE  Tells(ParseLine(parsed, file[n + 1], order, zone).messages, file, order, zone, n + 1)
<1> DEFINE line == file[n + 1]
           old == parsed.messages
           m == Len(old)
           new == ParseLine(parsed, line, order, zone).messages
           ts == InstantOf(line, order, zone)
<1>1. PICK s : TellsBy(old, file, order, zone, n, s)
  BY DEF Tells
<1>2. /\ s \in [1..m -> 1..n]
      /\ \A j, k \in 1..m : j < k => s[j] < s[k]
      /\ \A i \in 1..n : Begins(file[i], order, zone) => \E k \in 1..m : s[k] = i
      /\ \A k \in 1..m : TellsAt(old[k], file, order, zone, s[k], n)
  BY <1>1 DEF TellsBy
<1>3. old \in Seq(MessageType) /\ m \in Nat /\ parsed = [parsed EXCEPT !.messages = old]
  BY DEF Parsing
<1>4. \A i \in 1..(n + 1) : i \in 1..n \/ i = n + 1
  OBVIOUS
<1>5. \A i \in 1..n : i \in 1..(n + 1)
  OBVIOUS
<1>6. ASSUME ~Begins(line, order, zone), Len(new) = m,
             \A k \in 1..m : TellsAt(new[k], file, order, zone, s[k], n + 1)
      PROVE  Tells(new, file, order, zone, n + 1)
  <2>1. s \in [1..m -> 1..(n + 1)]
    BY <1>2, <1>5
  <2>2. \A i \in 1..(n + 1) : Begins(file[i], order, zone) => \E k \in 1..m : s[k] = i
    BY <1>2, <1>4, <1>6
  <2> HIDE DEF new, m
  <2>3. TellsBy(new, file, order, zone, n + 1, s)
    BY <1>2, <1>6, <2>1, <2>2 DEF TellsBy
  <2>4. QED
    BY <2>3 DEF Tells
<1>7. CASE ~IsHeader(line, order)
  <2>1. ~Begins(line, order, zone)
    BY <1>7 DEF Begins
  <2>2. CASE m = 0
    <3>1. new = old
      BY <1>7, <2>2 DEF ParseLine, Continue
    <3>2. QED
      BY <1>6, <2>1, <2>2, <3>1
  <2>3. CASE m # 0
    <3>1. m \in 1..m /\ s[m] \in 1..n /\ old[m] \in MessageType
      BY <1>2, <1>3, <2>3
    <3>2. new = [old EXCEPT ![m] = Continued(old[m], line)]
      BY <1>7, <2>3 DEF ParseLine, Continue, Parsing
    <3>3. Len(new) = m /\ new[m] = Continued(old[m], line)
          /\ \A k \in 1..m : k # m => new[k] = old[k]
      BY <1>3, <3>1, <3>2
    <3> HIDE DEF new, old, m, line
    <3>4. \A j \in (s[m] + 1)..n : ~Begins(file[j], order, zone)
      <4> SUFFICES ASSUME NEW j \in (s[m] + 1)..n, Begins(file[j], order, zone) PROVE FALSE
        OBVIOUS
      <4>1. j \in 1..n /\ j > s[m]
        BY <3>1
      <4>2. PICK k \in 1..m : s[k] = j
        BY <1>2, <4>1
      <4>3. k = m \/ k < m
        BY <1>3, <4>2
      <4>4. k = m \/ s[k] < s[m]
        BY <1>2, <3>1, <4>3
      <4>5. QED
        BY <3>1, <4>1, <4>2, <4>4
    <3>5. TellsAt(new[m], file, order, zone, s[m], n + 1)
      BY <1>2, <1>7, <3>1, <3>3, <3>4, ContinuedTells DEF line
    <3>6. ASSUME NEW k \in 1..m, k # m
          PROVE  TellsAt(new[k], file, order, zone, s[k], n + 1)
      <4>1. k < m /\ s[k] < s[m] /\ s[k] \in 1..n
        BY <1>2, <1>3, <3>1, <3>6
      <4>2. s[m] \in (s[k] + 1)..n /\ Begins(file[s[m]], order, zone)
        BY <1>2, <3>1, <4>1 DEF TellsAt
      <4>3. TellsAt(old[k], file, order, zone, s[k], n)
        BY <1>2
      <4>4. BelowTo(file, order, zone, s[k], n + 1) = BelowTo(file, order, zone, s[k], n)
        BY <4>1, <4>2, BelowStays
      <4>5. TellsAt(old[k], file, order, zone, s[k], n + 1)
        BY <4>1, <4>3, <4>4, TellsStays
      <4>6. QED
        BY <3>3, <3>6, <4>5
    <3>7. \A k \in 1..m : TellsAt(new[k], file, order, zone, s[k], n + 1)
      BY <3>5, <3>6
    <3>8. Tells(new, file, order, zone, n + 1)
      BY <1>6, <2>1, <3>3, <3>7
    <3>9. QED
      BY <3>8 DEF new, line
  <2>4. QED
    BY <2>2, <2>3
<1>8. ASSUME IsHeader(line, order), NEW k \in 1..m
      PROVE  TellsAt(old[k], file, order, zone, s[k], n + 1)
  <2>1. s[k] \in 1..n /\ TellsAt(old[k], file, order, zone, s[k], n)
    BY <1>2
  <2>2. BelowTo(file, order, zone, s[k], n + 1) = BelowTo(file, order, zone, s[k], n)
    BY <1>8, <2>1, BelowStays
  <2>3. QED
    BY <2>1, <2>2, TellsStays
<1>9. CASE IsHeader(line, order) /\ ts = Unreadable
  <2>1. ~Begins(line, order, zone) /\ new = old
    BY <1>9 DEF Begins, ParseLine
  <2>2. QED
    BY <1>6, <1>8, <1>9, <2>1
<1>10. CASE IsHeader(line, order) /\ ts # Unreadable
  <2>1. Begins(line, order, zone)
    BY <1>10 DEF Begins
  <2>2. new = Append(old, Message(line, ts))
    BY <1>10 DEF ParseLine, NewMessage
  <2>3. /\ Len(new) = m + 1 /\ new[m + 1] = Message(line, ts)
        /\ \A k \in 1..m : new[k] = old[k]
    BY <1>3, <2>2
  <2> DEFINE t == [k \in 1..(m + 1) |-> IF k = m + 1 THEN n + 1 ELSE s[k]]
  <2>4. /\ t[m + 1] = n + 1
        /\ \A k \in 1..m : k \in 1..(m + 1) /\ k # m + 1 /\ t[k] = s[k]
        /\ m + 1 \in 1..(m + 1)
        /\ \A k \in 1..(m + 1) : k \in 1..m \/ k = m + 1
    BY <1>3
  <2>5. t \in [1..(m + 1) -> 1..(n + 1)]
    BY <1>2
  <2> HIDE DEF t, new, old, m
  <2>6. \A j, k \in 1..(m + 1) : j < k => t[j] < t[k]
    <3> SUFFICES ASSUME NEW j \in 1..(m + 1), NEW k \in 1..(m + 1), j < k
                 PROVE  t[j] < t[k]
      OBVIOUS
    <3>1. j \in 1..m /\ t[j] = s[j] /\ s[j] \in 1..n
      BY <1>2, <1>3, <2>4
    <3>2. CASE k = m + 1
      BY <2>4, <3>1, <3>2
    <3>3. CASE k \in 1..m
      BY <1>2, <2>4, <3>1, <3>3
    <3>4. QED
      BY <2>4, <3>2, <3>3
  <2>7. \A i \in 1..(n + 1) : Begins(file[i], order, zone) => \E k \in 1..(m + 1) : t[k] = i
    <3> SUFFICES ASSUME NEW i \in 1..(n + 1), Begins(file[i], order, zone)
                 PROVE  \E k \in 1..(m + 1) : t[k] = i
      OBVIOUS
    <3>1. CASE i = n + 1
      BY <2>4, <3>1
    <3>2. CASE i \in 1..n
      <4>1. PICK k \in 1..m : s[k] = i
        BY <1>2, <3>2
      <4>2. QED
        BY <2>4, <4>1
    <3>3. QED
      BY <1>4, <3>1, <3>2
  <2>8. \A k \in 1..(m + 1) : TellsAt(new[k], file, order, zone, t[k], n + 1)
    <3>1. TellsAt(new[m + 1], file, order, zone, t[m + 1], n + 1)
      BY <2>1, <2>3, <2>4, NewTells
    <3>2. \A k \in 1..m : TellsAt(new[k], file, order, zone, t[k], n + 1)
      BY <1>8, <1>10, <2>3, <2>4
    <3>3. QED
      BY <2>4, <3>1, <3>2
  <2>9. TellsBy(new, file, order, zone, n + 1, t)
    BY <2>3, <2>5, <2>6, <2>7, <2>8 DEF TellsBy
  <2>10. QED
    BY <2>9 DEF Tells, new
<1>11. QED
  BY <1>7, <1>9, <1>10

\* The messages of a parse are the messages of the file, each whole and in order.
LEMMA ParseTells ==
  ASSUME NEW file \in Seq(Line), NEW order, NEW zone
  PROVE  /\ ParseExport(file, order, zone) \in Parsing
         /\ Tells(ParseExport(file, order, zone).messages, file, order, zone, Len(file))
<1>1. PICK g : Parses(file, order, zone, g)
  BY ParseStepwise
<1>2. \A n \in 0..Len(file) : g[n] \in Parsing
  BY <1>1, PrefixesParsed
<1> DEFINE P == {n \in Nat : n <= Len(file) => Tells(g[n].messages, file, order, zone, n)}
<1>3. 0 \in P
  <2>1. g[0].messages = <<>>
    BY <1>1 DEF Parses, Empty
  <2>2. [k \in 1..0 |-> 0] \in [1..Len(<<>>) -> 1..0]
    OBVIOUS
  <2>3. TellsBy(<<>>, file, order, zone, 0, [k \in 1..0 |-> 0])
    BY <2>2 DEF TellsBy
  <2>4. QED
    BY <2>1, <2>3 DEF Tells
<1>4. ASSUME NEW n \in P PROVE n + 1 \in P
  <2>1. CASE n + 1 <= Len(file)
    <3>1. g[n] \in Parsing /\ Tells(g[n].messages, file, order, zone, n)
      BY <1>2, <2>1
    <3>2. g[n + 1] = ParseLine(g[n], file[n + 1], order, zone)
      BY <1>1, <2>1 DEF Parses
    <3>3. Tells(g[n + 1].messages, file, order, zone, n + 1)
      BY <2>1, <3>1, <3>2, TellsStep
    <3>4. QED
      BY <3>3
  <2>2. QED
    BY <2>1
<1>5. \A n \in Nat : n \in P
  <2>1. P \in SUBSET Nat
    OBVIOUS
  <2> HIDE DEF P
  <2>2. QED
    BY <1>3, <1>4, <2>1, Induction
<1>6. Len(file) \in Nat /\ Len(file) \in 0..Len(file)
  OBVIOUS
<1>7. QED
  BY <1>1, <1>2, <1>5, <1>6 DEF Parses

-----------------------------------------------------------------------------
(* What is stored *)

\* Every row was made of a line of an export.
Made(m) == \E e \in Export : \E i \in LineOf(e) : \E author : m = Fingerprint(e, i, author)

StoredInv == \A m \in messages : Made(m)

\* No row comes from anywhere but a line of an export.
THEOREM StoredInvariant == Spec => []StoredInv
<1>1. Init => StoredInv
  BY DEF Init, StoredInv
<1>2. ImportInv /\ StoredInv /\ [Next]_vars => StoredInv'
  <2> SUFFICES ASSUME ImportInv, StoredInv, [Next]_vars PROVE StoredInv'
    OBVIOUS
  <2>1. CASE UNCHANGED messages
    BY <2>1 DEF StoredInv, Made
  <2>2. ASSUME NEW e \in Export, SaveMessage(e) PROVE StoredInv'
    <3>1. upload[e].line \in LineOf(e)
      BY DEF ImportInv, Shaped
    <3>2. messages' = messages \union {Fingerprint(e, upload[e].line, upload[e].author)}
      BY <2>2 DEF SaveMessage
    <3>3. QED
      BY <3>1, <3>2 DEF StoredInv, Made
  <2>3. [Next]_vars => UNCHANGED messages \/ \E e \in Export : SaveMessage(e)
    BY DEF Next, Ingest, vars, tables, Begin, ResolveFixed, ResolveKnown, ResolveUnknown,
           CreateParticipant, CreateFails, Crash
  <2>4. QED
    BY <2>1, <2>2, <2>3
<1>3. QED
  BY <1>1, <1>2, ImportInvariant, PTL DEF Spec

\* The lines of an export are the messages of its file.
LEMMA UploadTells ==
  ASSUME NEW e \in Export
  PROVE  LET written == ParseExport(e.file, e.order, e.zone).messages IN
         /\ Len(e.lines) = Len(written) /\ LineOf(e) = 1..Len(written)
         /\ \A j \in LineOf(e) :
              e.lines[j].stamp = <<written[j].timestamp, written[j].content>>
         /\ Tells(written, e.file, e.order, e.zone, Len(e.file))
<1> DEFINE written == ParseExport(e.file, e.order, e.zone).messages
<1>1. e.file \in Seq(Line)
  BY UploadsAssumption
<1>2. /\ ParseExport(e.file, e.order, e.zone) \in Parsing
      /\ Tells(written, e.file, e.order, e.zone, Len(e.file))
  BY <1>1, ParseTells
<1>3. written \in Seq(MessageType)
  BY <1>2 DEF Parsing
<1>4. e.lines = [j \in DOMAIN written |->
                   [stamp |-> <<written[j].timestamp, written[j].content>>,
                    sender |-> written[j].sender]]
  <2>1. e = Uploaded(e.chat, e.uploader, e.order, e.zone, e.file)
    BY UploadsAssumption
  <2>2. QED
    BY <2>1 DEF Uploaded
<1> HIDE DEF written
<1>5. DOMAIN written = 1..Len(written) /\ Len(written) \in Nat
  BY <1>3
<1>6. Len(e.lines) = Len(written) /\ LineOf(e) = 1..Len(written)
  BY <1>4, <1>5 DEF LineOf
<1>7. \A j \in LineOf(e) : e.lines[j].stamp = <<written[j].timestamp, written[j].content>>
  BY <1>4, <1>5, <1>6
<1>8. QED
  BY <1>2, <1>6, <1>7 DEF written

LEMMA TellsOfLine ==
  ASSUME NEW e \in Export, NEW i \in Nat, NEW message, NEW m,
         TellsAt(message, e.file, e.order, e.zone, i, Len(e.file)),
         m.chat = e.chat, m.stamp = <<message.timestamp, message.content>>
  PROVE  TellsOf(m, e, i)
<1>1. Below(e.file, e.order, e.zone, i) = BelowTo(e.file, e.order, e.zone, i, Len(e.file))
  BY DEF Below, BelowTo
<1>2. m.stamp[1] = message.timestamp /\ m.stamp[2] = message.content
  OBVIOUS
<1>3. QED
  BY <1>1, <1>2 DEF TellsOf, ReadsAs, TellsAt, ReadsTo

\* Every message of a file that went through is stored, whole and at its instant, and
\* what is stored is a message of some file: StoredAsWritten.
THEOREM FilesAreStored == Spec => []StoredAsWritten
<1>1. ImportInv /\ StoredInv => StoredAsWritten
  <2> SUFFICES ASSUME ImportInv, StoredInv PROVE StoredAsWritten
    OBVIOUS
  <2>1. ASSUME NEW e \in finished, NEW i \in Starts(e.file, e.order, e.zone)
        PROVE  \E m \in messages : TellsOf(m, e, i)
    <3> DEFINE written == ParseExport(e.file, e.order, e.zone).messages
    <3>1. e \in Export /\ e.file \in Seq(Line)
      BY UploadsAssumption DEF ImportInv, Shaped
    <3>2. PICK s : TellsBy(written, e.file, e.order, e.zone, Len(e.file), s)
      BY <3>1, UploadTells DEF Tells
    <3>3. i \in 1..Len(e.file) /\ Begins(e.file[i], e.order, e.zone)
      BY <3>1 DEF Starts
    <3>4. PICK j \in 1..Len(written) : s[j] = i
      BY <3>2, <3>3 DEF TellsBy
    <3>5. TellsAt(written[j], e.file, e.order, e.zone, i, Len(e.file))
      BY <3>2, <3>4 DEF TellsBy
    <3>6. j \in LineOf(e) /\ e.lines[j].stamp = <<written[j].timestamp, written[j].content>>
      BY <3>1, <3>4, UploadTells
    <3>7. Fingerprint(e, j, AuthorOf(e, j)) \in messages
      BY <2>1, <3>1, <3>6 DEF ImportInv, Progress, ProgressOf, Stored
    <3> HIDE DEF written
    <3>8. TellsOf(Fingerprint(e, j, AuthorOf(e, j)), e, i)
      <4> DEFINE m == Fingerprint(e, j, AuthorOf(e, j))
      <4>1. m.chat = e.chat /\ m.stamp = <<written[j].timestamp, written[j].content>>
        BY <3>6 DEF Fingerprint
      <4>2. i \in Nat
        BY <3>3
      <4> HIDE DEF m
      <4>3. TellsOf(m, e, i)
        BY <3>1, <3>5, <4>1, <4>2, TellsOfLine
      <4>4. QED
        BY <4>3 DEF m
    <3>9. QED
      BY <3>7, <3>8
  <2>2. ASSUME NEW m \in messages
        PROVE  \E e \in Export : \E i \in Starts(e.file, e.order, e.zone) : TellsOf(m, e, i)
    <3>0. PICK e \in Export : \E j \in LineOf(e) : \E author : m = Fingerprint(e, j, author)
      BY DEF StoredInv, Made
    <3>1. PICK j \in LineOf(e) : \E author : m = Fingerprint(e, j, author)
      BY <3>0
    <3> DEFINE written == ParseExport(e.file, e.order, e.zone).messages
    <3>2. PICK s : TellsBy(written, e.file, e.order, e.zone, Len(e.file), s)
      BY UploadTells DEF Tells
    <3>3. j \in 1..Len(written) /\ e.lines[j].stamp = <<written[j].timestamp, written[j].content>>
      BY UploadTells
    <3>4. s[j] \in 1..Len(e.file) /\ TellsAt(written[j], e.file, e.order, e.zone, s[j], Len(e.file))
      BY <3>2, <3>3 DEF TellsBy
    <3>5. s[j] \in Starts(e.file, e.order, e.zone)
      BY <3>4, UploadsAssumption DEF Starts, TellsAt
    <3> HIDE DEF written
    <3>6. m.chat = e.chat /\ m.stamp = <<written[j].timestamp, written[j].content>>
      BY <3>1, <3>3 DEF Fingerprint
    <3>7. s[j] \in Nat
      BY <3>4
    <3>8. TellsOf(m, e, s[j])
      BY <3>4, <3>6, <3>7, TellsOfLine
    <3>9. QED
      BY <3>5, <3>8
  <2>3. QED
    BY <2>1, <2>2 DEF StoredAsWritten
<1>2. QED
  BY <1>1, ImportInvariant, StoredInvariant, PTL

-----------------------------------------------------------------------------
(* Where a file begins *)

LEMMA ConcatExcept ==
  ASSUME NEW S, NEW s \in Seq(S), NEW t \in Seq(S), NEW x \in S, NEW n \in 1..Len(t)
  PROVE  /\ [s \o t EXCEPT ![Len(s) + n] = x] = s \o [t EXCEPT ![n] = x]
         /\ [t EXCEPT ![n] = x] \in Seq(S) /\ [t EXCEPT ![n] = x] # <<>>
<1> DEFINE v == [t EXCEPT ![n] = x]
           w == s \o t
           p == [w EXCEPT ![Len(s) + n] = x]
           q == s \o v
           m == Len(s)
           all == Len(s) + Len(t)
<1>1. /\ v \in Seq(S) /\ Len(v) = Len(t)
      /\ \A j \in 1..Len(t) : v[j] = IF j = n THEN x ELSE t[j]
  BY ExceptSeq
<1>2. /\ w \in Seq(S) /\ Len(w) = all
      /\ \A j \in 1..all : w[j] = IF j <= m THEN s[j] ELSE t[j - m]
  BY ConcatProperties
<1> HIDE DEF v, w
<1>3. /\ p \in Seq(S) /\ Len(p) = all
      /\ \A j \in 1..all : p[j] = IF j = m + n THEN x ELSE w[j]
  <2>1. m + n \in 1..Len(w)
    BY <1>2
  <2>2. /\ p \in Seq(S) /\ Len(p) = Len(w)
        /\ \A j \in 1..Len(w) : p[j] = IF j = m + n THEN x ELSE w[j]
    BY <1>2, <2>1, ExceptSeq
  <2> HIDE DEF p
  <2>3. QED
    BY <1>2, <2>2
<1>4. /\ q \in Seq(S) /\ Len(q) = all
      /\ \A j \in 1..all : q[j] = IF j <= m THEN s[j] ELSE v[j - m]
  <2>1. /\ q \in Seq(S) /\ Len(q) = m + Len(v)
        /\ \A j \in 1..(m + Len(v)) : q[j] = IF j <= m THEN s[j] ELSE v[j - m]
    BY <1>1, ConcatProperties
  <2> HIDE DEF q
  <2>2. QED
    BY <1>1, <2>1
<1>5. m \in Nat /\ Len(t) \in Nat /\ all = m + Len(t)
  OBVIOUS
<1> HIDE DEF p, q, m, all
<1>6. ASSUME NEW j \in 1..all PROVE p[j] = q[j]
  <2>1. CASE j <= m
    BY <1>2, <1>3, <1>4, <1>5, <2>1
  <2>2. CASE j > m
    <3>1. j - m \in 1..Len(t) /\ (j = m + n <=> j - m = n) /\ ~(j <= m)
      BY <1>5, <2>2
    <3>2. QED
      BY <1>1, <1>2, <1>3, <1>4, <3>1
  <2>3. QED
    BY <1>5, <2>1, <2>2
<1>7. p = q
  BY <1>3, <1>4, <1>6, SeqEqual
<1>8. v # <<>>
  BY <1>1
<1>9. QED
  BY <1>1, <1>7, <1>8 DEF p, q, v, w, m

LEMMA ConcatSuffix ==
  ASSUME NEW S, NEW s \in Seq(S), NEW t \in Seq(S)
  PROVE  IsSuffix(t, s \o t)
<1> DEFINE u == s \o t
           m == Len(s)
           n == Len(t)
<1>1. /\ Len(u) = m + n /\ m \in Nat /\ n \in Nat
      /\ \A j \in 1..(m + n) : u[j] = IF j <= m THEN s[j] ELSE t[j - m]
  BY ConcatProperties
<1>2. /\ Reverse(t) = [i \in 1..n |-> t[(n - i) + 1]]
      /\ Reverse(u) = [i \in 1..(m + n) |-> u[(m + n - i) + 1]]
  BY <1>1 DEF Reverse
<1>3. Len(Reverse(t)) = n /\ Len(Reverse(u)) = m + n
  BY <1>1, <1>2
<1>4. \A i \in 1..n : Reverse(t)[i] = Reverse(u)[i]
  <2> SUFFICES ASSUME NEW i \in 1..n PROVE Reverse(t)[i] = Reverse(u)[i]
    OBVIOUS
  <2> HIDE DEF u, m, n
  <2>1. i \in 1..(m + n) /\ (m + n - i) + 1 \in 1..(m + n) /\ ~((m + n - i) + 1 <= m)
    BY <1>1
  <2>2. ((m + n - i) + 1) - m = (n - i) + 1
    BY <1>1
  <2>3. QED
    BY <1>1, <1>2, <2>1, <2>2
<1> HIDE DEF u, m, n
<1>5. /\ SubSeq(Reverse(t), 1, n) = [i \in 1..n |-> Reverse(t)[i]]
      /\ SubSeq(Reverse(u), 1, n) = [i \in 1..n |-> Reverse(u)[i]]
  BY <1>1
<1>6. SubSeq(Reverse(t), 1, n) = SubSeq(Reverse(u), 1, n)
  BY <1>4, <1>5
<1>7. QED
  BY <1>1, <1>3, <1>6 DEF IsSuffix, IsPrefix, u

\* What a parse has more than another comes before what they share.
Ahead(whole, tail, before, past) ==
  /\ whole.messages = before \o tail.messages
  /\ whole.events = past \o tail.events

LEMMA LineReadAlike ==
  ASSUME NEW whole \in Parsing, NEW tail \in Parsing, tail.messages # <<>>,
         NEW before \in Seq(MessageType), NEW past \in Seq(EventType),
         Ahead(whole, tail, before, past),
         NEW line \in Line, NEW order, NEW zone
  PROVE  /\ Ahead(ParseLine(whole, line, order, zone), ParseLine(tail, line, order, zone),
                  before, past)
         /\ ParseLine(tail, line, order, zone).messages # <<>>
<1> DEFINE ts == InstantOf(line, order, zone)
           m == Len(before)
           n == Len(tail.messages)
<1>1. /\ tail.messages \in Seq(MessageType) /\ tail.events \in Seq(EventType)
      /\ whole.messages = before \o tail.messages
      /\ whole.events = past \o tail.events
      /\ n \in Nat /\ n # 0 /\ m \in Nat
  BY DEF Parsing, Ahead
<1>2. CASE ~IsHeader(line, order)
  <2> DEFINE new == Continued(tail.messages[n], line)
  <2>1. Len(whole.messages) = m + n /\ whole.messages[m + n] = tail.messages[n]
    BY <1>1
  <2>2. /\ ParseLine(tail, line, order, zone) = [tail EXCEPT !.messages[n] = new]
        /\ ParseLine(whole, line, order, zone) = [whole EXCEPT !.messages[m + n] = new]
    BY <1>1, <1>2, <2>1 DEF ParseLine, Continue
  <2>3. /\ ParseLine(tail, line, order, zone).messages = [tail.messages EXCEPT ![n] = new]
        /\ ParseLine(tail, line, order, zone).events = tail.events
        /\ ParseLine(whole, line, order, zone).messages = [whole.messages EXCEPT ![m + n] = new]
        /\ ParseLine(whole, line, order, zone).events = whole.events
    BY <2>2 DEF Parsing
  <2> HIDE DEF new
  <2>4. new \in MessageType
    BY <1>1, ContinuedTyped DEF new
  <2>5. /\ [whole.messages EXCEPT ![m + n] = new] = before \o [tail.messages EXCEPT ![n] = new]
        /\ [tail.messages EXCEPT ![n] = new] # <<>>
    <3>1. n \in 1..n
      BY <1>1
    <3> HIDE DEF new
    <3>2. \A t \in Seq(MessageType) : \A k \in 1..Len(t) :
            /\ [before \o t EXCEPT ![Len(before) + k] = new] = before \o [t EXCEPT ![k] = new]
            /\ [t EXCEPT ![k] = new] # <<>>
      <4>1. TAKE t \in Seq(MessageType)
      <4>2. TAKE k \in 1..Len(t)
      <4>3. QED
        BY <2>4, ConcatExcept
    <3>3. QED
      BY <1>1, <3>1, <3>2
  <2>6. QED
    BY <1>1, <2>3, <2>5 DEF Ahead
<1>3. CASE IsHeader(line, order) /\ ts = Unreadable
  BY <1>3 DEF ParseLine
<1>4. CASE IsHeader(line, order) /\ ts # Unreadable
  <2> DEFINE kinds == IF line.sender.kind = "system" THEN ClassifyEvent(line.text) ELSE <<>>
             news == [i \in DOMAIN kinds |-> [kind |-> kinds[i], timestamp |-> ts]]
  <2>1. /\ ParseLine(tail, line, order, zone).messages = Append(tail.messages, Message(line, ts))
        /\ ParseLine(tail, line, order, zone).events = tail.events \o news
        /\ ParseLine(whole, line, order, zone).messages = Append(whole.messages, Message(line, ts))
        /\ ParseLine(whole, line, order, zone).events = whole.events \o news
    BY <1>4 DEF ParseLine, NewMessage
  <2>2. news \in Seq(EventType)
    BY <1>4, NewsTyped DEF Begins
  <2> HIDE DEF news
  <2> DEFINE new == Message(line, ts)
  <2>3. new \in MessageType
    BY <1>4, NewTyped DEF Begins
  <2> HIDE DEF new
  <2>4. /\ Append(whole.messages, new) = before \o Append(tail.messages, new)
        /\ Append(tail.messages, new) # <<>>
    <3>1. /\ Append(whole.messages, new) = whole.messages \o <<new>>
          /\ Append(tail.messages, new) = tail.messages \o <<new>>
          /\ Append(tail.messages, new) # <<>>
      <4>1. whole.messages \in Seq(MessageType)
        BY DEF Parsing
      <4>2. QED
        BY <1>1, <2>3, <4>1, AppendIsConcat, AppendProperties
    <3>2. <<new>> \in Seq(MessageType)
      BY <2>3
    <3>3. \A t \in Seq(MessageType) : (before \o t) \o <<new>> = before \o (t \o <<new>>)
      BY <3>2, ConcatAssociative
    <3>4. QED
      BY <1>1, <3>1, <3>3
  <2>5. whole.events \o news = past \o (tail.events \o news)
    <3>1. \A t \in Seq(EventType) : (past \o t) \o news = past \o (t \o news)
      BY <2>2, ConcatAssociative
    <3>2. QED
      BY <1>1, <3>1
  <2>6. QED
    BY <2>1, <2>4, <2>5 DEF Ahead, new
<1>5. QED
  BY <1>2, <1>3, <1>4

\* The first line of a tail starts a message in both, wherever the tail begins.
LEMMA FirstReadAlike ==
  ASSUME NEW whole \in Parsing, NEW line \in Line, NEW order, NEW zone,
         Begins(line, order, zone)
  PROVE  /\ Ahead(ParseLine(whole, line, order, zone), ParseLine(Empty, line, order, zone),
                  whole.messages, whole.events)
         /\ ParseLine(Empty, line, order, zone).messages # <<>>
<1> DEFINE ts == InstantOf(line, order, zone)
           new == Message(line, ts)
           kinds == IF line.sender.kind = "system" THEN ClassifyEvent(line.text) ELSE <<>>
           news == [i \in DOMAIN kinds |-> [kind |-> kinds[i], timestamp |-> ts]]
<1>1. /\ ParseLine(whole, line, order, zone).messages = Append(whole.messages, new)
      /\ ParseLine(whole, line, order, zone).events = whole.events \o news
      /\ ParseLine(Empty, line, order, zone).messages = Append(<<>>, new)
      /\ ParseLine(Empty, line, order, zone).events = <<>> \o news
  BY DEF ParseLine, NewMessage, Begins, Empty
<1>2. new \in MessageType /\ news \in Seq(EventType)
  BY NewTyped, NewsTyped
<1>3. whole.messages \in Seq(MessageType)
  BY DEF Parsing
<1> HIDE DEF new, news
<1>4. Append(<<>>, new) = <<new>>
  OBVIOUS
<1>5. Append(whole.messages, new) = whole.messages \o <<new>>
  BY <1>2, <1>3, AppendIsConcat
<1>6. <<>> \o news = news
  BY <1>2, ConcatEmptySeq
<1>7. <<new>> # <<>>
  OBVIOUS
<1>8. QED
  BY <1>1, <1>4, <1>5, <1>6, <1>7 DEF Ahead

LEMMA TailParsed ==
  ASSUME NEW file \in Seq(Line), NEW order, NEW zone, NEW k \in Starts(file, order, zone)
  PROVE  LET whole == ParseExport(file, order, zone)
             tail == ParseExport(SubSeq(file, k, Len(file)), order, zone) IN
         /\ whole \in Parsing /\ tail \in Parsing
         /\ tail.messages # <<>>
         /\ \E before \in Seq(MessageType), past \in Seq(EventType) :
              Ahead(whole, tail, before, past)
<1> DEFINE cut == SubSeq(file, k, Len(file))
           m == Len(file)
           n == Len(cut)
<1>1. m \in Nat /\ k \in 1..m /\ Begins(file[k], order, zone)
  BY DEF Starts
<1>2. /\ cut \in Seq(Line) /\ n = m - k + 1
      /\ \A i \in 1..n : cut[i] = file[k - 1 + i]
  <2>1. \A i \in k..m : file[i] \in Line
    BY <1>1
  <2>2. /\ cut \in Seq(Line) /\ n = IF k <= m THEN m - k + 1 ELSE 0
        /\ \A i \in 1..(m - k + 1) : cut[i] = file[k + i - 1]
    BY <1>1, <2>1, SubSeqProperties
  <2> HIDE DEF cut
  <2>3. n = m - k + 1
    BY <1>1, <2>2
  <2>4. ASSUME NEW i \in 1..n PROVE cut[i] = file[k - 1 + i]
    <3>1. i \in 1..(m - k + 1) /\ k + i - 1 = k - 1 + i
      BY <1>1, <2>3
    <3>2. QED
      BY <2>2, <3>1
  <2>5. QED
    BY <2>2, <2>3, <2>4
<1> HIDE DEF cut
<1>3. PICK g : Parses(file, order, zone, g)
  BY ParseStepwise
<1>4. PICK h : Parses(cut, order, zone, h)
  BY <1>2, ParseStepwise
<1>5. \A i \in 0..m : g[i] \in Parsing
  BY <1>3, PrefixesParsed
<1>6. \A i \in 0..n : h[i] \in Parsing
  BY <1>2, <1>4, PrefixesParsed
<1> DEFINE before == g[k - 1].messages
           past == g[k - 1].events
           P == {i \in Nat : i + 1 <= n =>
                   Ahead(g[k + i], h[i + 1], before, past) /\ h[i + 1].messages # <<>>}
<1>7. before \in Seq(MessageType) /\ past \in Seq(EventType)
  <2>1. k - 1 \in 0..m
    BY <1>1
  <2>2. QED
    BY <1>5, <2>1 DEF Parsing
<1>8. 0 \in P
  <2>1. k - 1 \in Nat /\ (k - 1) + 1 = k /\ k <= m /\ 1 <= n /\ 0 + 1 = 1 /\ k + 0 = k
    BY <1>1, <1>2
  <2>2. g[k] = ParseLine(g[k - 1], file[k], order, zone)
    BY <1>3, <2>1 DEF Parses
  <2>3. cut[1] = file[k]
    BY <1>1, <1>2, <2>1
  <2>4. h[1] = ParseLine(Empty, file[k], order, zone)
    <3>1. h[0] = Empty /\ h[0 + 1] = ParseLine(h[0], cut[0 + 1], order, zone)
      BY <1>4, <2>1 DEF Parses
    <3>2. QED
      BY <2>1, <2>3, <3>1
  <2>5. g[k - 1] \in Parsing /\ file[k] \in Line
    BY <1>1, <1>5
  <2>6. QED
    BY <1>1, <2>1, <2>2, <2>4, <2>5, FirstReadAlike
<1>9. ASSUME NEW i \in P PROVE i + 1 \in P
  <2> SUFFICES ASSUME (i + 1) + 1 <= n
               PROVE  /\ Ahead(g[k + (i + 1)], h[(i + 1) + 1], before, past)
                      /\ h[(i + 1) + 1].messages # <<>>
    OBVIOUS
  <2>1. /\ k + i \in 0..m /\ k + i \in Nat /\ (k + i) + 1 <= m /\ (k + i) + 1 \in 1..m
        /\ k + (i + 1) = (k + i) + 1
        /\ i + 1 \in 0..n /\ i + 1 \in Nat /\ (i + 1) + 1 \in 1..n
        /\ k - 1 + ((i + 1) + 1) = (k + i) + 1
    BY <1>1, <1>2
  <2>2. Ahead(g[k + i], h[i + 1], before, past) /\ h[i + 1].messages # <<>>
    BY <2>1
  <2> HIDE DEF before, past, P
  <2>3. g[(k + i) + 1] = ParseLine(g[k + i], file[(k + i) + 1], order, zone)
    BY <1>3, <2>1 DEF Parses
  <2>4. h[(i + 1) + 1] = ParseLine(h[i + 1], cut[(i + 1) + 1], order, zone)
    BY <1>4, <2>1 DEF Parses
  <2>5. cut[(i + 1) + 1] = file[(k + i) + 1]
    BY <1>2, <2>1
  <2>6. g[k + i] \in Parsing /\ h[i + 1] \in Parsing /\ file[(k + i) + 1] \in Line
    BY <1>5, <1>6, <2>1
  <2> DEFINE line == file[(k + i) + 1]
             w == g[k + i]
             t == h[i + 1]
  <2>7. /\ Ahead(ParseLine(w, line, order, zone), ParseLine(t, line, order, zone), before, past)
        /\ ParseLine(t, line, order, zone).messages # <<>>
    BY <1>7, <2>2, <2>6, LineReadAlike
  <2>8. QED
    BY <2>1, <2>3, <2>4, <2>5, <2>7
<1>10. \A i \in Nat : i \in P
  <2>1. P \in SUBSET Nat
    OBVIOUS
  <2> HIDE DEF P
  <2>2. QED
    BY <1>8, <1>9, <2>1, Induction
<1>11. Ahead(g[m], h[n], before, past) /\ h[n].messages # <<>>
  <2>1. n - 1 \in Nat /\ (n - 1) + 1 = n /\ k + (n - 1) = m
    BY <1>1, <1>2
  <2>2. n - 1 \in P
    BY <1>10, <2>1
  <2>3. QED
    BY <2>1, <2>2
<1>12. /\ ParseExport(file, order, zone) = g[m] /\ ParseExport(cut, order, zone) = h[n]
       /\ g[m] \in Parsing /\ h[n] \in Parsing
  BY <1>1, <1>2, <1>3, <1>4, <1>5, <1>6 DEF Parses
<1> HIDE DEF before, past, m, n
<1>13. QED
  BY <1>7, <1>11, <1>12 DEF cut, m

\* The instants of a parse.
TimesOf(parsed) ==
  {parsed.messages[i].timestamp : i \in DOMAIN parsed.messages}
    \union {parsed.events[i].timestamp : i \in DOMAIN parsed.events}

LEMMA TimesFinite ==
  ASSUME NEW parsed \in Parsing
  PROVE  TimesOf(parsed) \in SUBSET Int /\ IsFiniteSet(TimesOf(parsed))
<1> DEFINE M == {parsed.messages[i].timestamp : i \in DOMAIN parsed.messages}
           E == {parsed.events[i].timestamp : i \in DOMAIN parsed.events}
<1>1. /\ parsed.messages \in Seq(MessageType) /\ parsed.events \in Seq(EventType)
  BY DEF Parsing
<1>2. /\ DOMAIN parsed.messages = 1..Len(parsed.messages) /\ Len(parsed.messages) \in Nat
      /\ DOMAIN parsed.events = 1..Len(parsed.events) /\ Len(parsed.events) \in Nat
  BY <1>1
<1>3. M \in SUBSET Int /\ E \in SUBSET Int
  <2>1. \A i \in DOMAIN parsed.messages : parsed.messages[i] \in MessageType
    BY <1>1
  <2>2. \A i \in DOMAIN parsed.events : parsed.events[i] \in EventType
    BY <1>1
  <2>3. QED
    BY <2>1, <2>2 DEF MessageType, EventType
<1>4. IsFiniteSet(DOMAIN parsed.messages) /\ IsFiniteSet(DOMAIN parsed.events)
  BY <1>2, FS_Interval
<1>5. IsFiniteSet(M)
  <2> DEFINE f == [i \in DOMAIN parsed.messages |-> parsed.messages[i].timestamp]
  <2>1. f \in Surjection(DOMAIN parsed.messages, M)
    BY DEF Surjection
  <2>2. QED
    BY <1>4, <2>1, FS_Surjection
<1>6. IsFiniteSet(E)
  <2> DEFINE f == [i \in DOMAIN parsed.events |-> parsed.events[i].timestamp]
  <2>1. f \in Surjection(DOMAIN parsed.events, E)
    BY DEF Surjection
  <2>2. QED
    BY <1>4, <2>1, FS_Surjection
<1>7. QED
  BY <1>3, <1>5, <1>6, FS_Union DEF TimesOf

\* Where an export begins does not change how what follows is read: for any file,
\* cut off at any of its messages.
THEOREM TailsReadAlike ==
  ASSUME NEW file \in Seq(Line), NEW order, NEW zone, NEW k \in Starts(file, order, zone)
  PROVE  TailReadsAlike(file, order, zone, k)
<1> DEFINE whole == ParseExport(file, order, zone)
           tail == ParseExport(SubSeq(file, k, Len(file)), order, zone)
<1>1. /\ whole \in Parsing /\ tail \in Parsing /\ tail.messages # <<>>
      /\ \E before \in Seq(MessageType), past \in Seq(EventType) :
           Ahead(whole, tail, before, past)
  BY TailParsed
<1> HIDE DEF whole, tail
<1>2. PICK before \in Seq(MessageType), past \in Seq(EventType) : Ahead(whole, tail, before, past)
  BY <1>1
<1>3. /\ tail.messages \in Seq(MessageType) /\ tail.events \in Seq(EventType)
      /\ whole.messages = before \o tail.messages
      /\ whole.events = past \o tail.events
  BY <1>1, <1>2 DEF Parsing, Ahead
<1>4. IsSuffix(tail.messages, whole.messages)
  BY <1>3, ConcatSuffix
<1>5. IsSuffix(tail.events, whole.events)
  BY <1>3, ConcatSuffix
<1>6. TimesOf(tail) \subseteq TimesOf(whole)
  <2>1. \A i \in DOMAIN tail.messages : \E j \in DOMAIN whole.messages :
          whole.messages[j] = tail.messages[i]
    <3> SUFFICES ASSUME NEW i \in DOMAIN tail.messages
                 PROVE  \E j \in DOMAIN whole.messages : whole.messages[j] = tail.messages[i]
      OBVIOUS
    <3>1. Len(before) + i \in DOMAIN whole.messages
      BY <1>3
    <3>2. whole.messages[Len(before) + i] = tail.messages[i]
      BY <1>3
    <3>3. QED
      BY <3>1, <3>2
  <2>2. \A i \in DOMAIN tail.events : \E j \in DOMAIN whole.events :
          whole.events[j] = tail.events[i]
    <3> SUFFICES ASSUME NEW i \in DOMAIN tail.events
                 PROVE  \E j \in DOMAIN whole.events : whole.events[j] = tail.events[i]
      OBVIOUS
    <3>1. Len(past) + i \in DOMAIN whole.events
      BY <1>3
    <3>2. whole.events[Len(past) + i] = tail.events[i]
      BY <1>3
    <3>3. QED
      BY <3>1, <3>2
  <2>3. QED
    BY <2>1, <2>2 DEF TimesOf
<1>7. TimesOf(tail) # {}
  <2>1. 1 \in DOMAIN tail.messages
    BY <1>1, <1>3
  <2>2. QED
    BY <2>1 DEF TimesOf
<1>8. /\ Min(TimesOf(whole)) <= Min(TimesOf(tail))
      /\ Max(TimesOf(tail)) <= Max(TimesOf(whole))
  BY <1>1, <1>6, <1>7, TimesFinite, WiderSpans
<1>9. /\ DateRange(whole) = <<Min(TimesOf(whole)), Max(TimesOf(whole))>>
      /\ DateRange(tail) = <<Min(TimesOf(tail)), Max(TimesOf(tail))>>
  BY <1>6, <1>7 DEF DateRange, TimesOf
<1>10. /\ DateRange(whole)[1] <= DateRange(tail)[1]
       /\ DateRange(tail)[2] <= DateRange(whole)[2]
  BY <1>8, <1>9
<1>11. QED
  BY <1>4, <1>5, <1>10 DEF TailReadsAlike, whole, tail

\* What overlapping exports of a chat have in common is parsed alike:
\* OverlapParsedAlike.
THEOREM OverlapsParsedAlike == Spec => []OverlapParsedAlike
<1>1. \A file \in SampleFiles : file \in Seq(Line)
  <2> SUFFICES ASSUME NEW n \in 1..SampleLength, NEW file \in [1..n -> SampleLine]
               PROVE  file \in Seq(Line)
    BY DEF SampleFiles
  <2>1. file \in [1..n -> Line] /\ n \in Nat
    BY SampleAssumption
  <2>2. QED
    BY <2>1
<1>2. OverlapParsedAlike
  BY <1>1, TailsReadAlike DEF OverlapParsedAlike
<1>3. QED
  BY <1>2, PTL

-----------------------------------------------------------------------------
(* Coverage: the sorted spans, the merged ones, and what is between them *)

Steps(S, m) == [S \X (1..m) -> S]

Repeats(f, S, base, m, step) ==
  f \in [0..m -> S] /\ f[0] = base /\ \A n \in 1..m : f[n] = step[<<f[n - 1], n>>]

\* A step taken a number of times leads somewhere.
LEMMA Repeated ==
  ASSUME NEW S, NEW base \in S, NEW m \in Nat, NEW step \in Steps(S, m)
  PROVE  \E f : Repeats(f, S, base, m, step)
<1>0. step \in [S \X (1..m) -> S]
  BY DEF Steps
<1> DEFINE Runs(f, k) ==
             f \in [0..k -> S] /\ f[0] = base /\ \A n \in 1..k : f[n] = step[<<f[n - 1], n>>]
           P == {k \in Nat : k <= m => \E f : Runs(f, k)}
<1>1. 0 \in P
  <2>1. Runs([n \in 0..0 |-> base], 0)
    OBVIOUS
  <2>2. QED
    BY <2>1
<1>2. ASSUME NEW k \in P PROVE k + 1 \in P
  <2> SUFFICES ASSUME k + 1 <= m PROVE \E f : Runs(f, k + 1)
    OBVIOUS
  <2>1. PICK f : Runs(f, k)
    OBVIOUS
  <2> DEFINE h == [n \in 0..(k + 1) |-> IF n = k + 1 THEN step[<<f[k], k + 1>>] ELSE f[n]]
  <2>2. f[k] \in S /\ k + 1 \in 1..m
    BY <2>1
  <2>3. step[<<f[k], k + 1>>] \in S
    BY <1>0, <2>2
  <2>4. h \in [0..(k + 1) -> S]
    BY <2>1, <2>3
  <2>5. h[0] = base
    BY <2>1
  <2>6. ASSUME NEW n \in 1..(k + 1) PROVE h[n] = step[<<h[n - 1], n>>]
    <3>1. n - 1 \in 0..k /\ h[n - 1] = f[n - 1]
      OBVIOUS
    <3>2. CASE n = k + 1
      <4>1. h[k + 1] = step[<<f[k], k + 1>>] /\ n - 1 = k
        BY <3>2
      <4>2. QED
        BY <3>1, <3>2, <4>1
    <3>3. CASE n # k + 1
      <4>1. n \in 1..k /\ h[n] = f[n]
        BY <3>3
      <4>2. QED
        BY <2>1, <3>1, <4>1
    <3>4. QED
      BY <3>2, <3>3
  <2>7. QED
    BY <2>4, <2>5, <2>6
<1>3. m \in P
  <2> HIDE DEF P
  <2>1. \A k \in Nat : k \in P
    BY <1>1, <1>2, Induction DEF P
  <2>2. QED
    BY <2>1
<1>4. QED
  BY <1>3 DEF Repeats

LEMMA Largest ==
  ASSUME NEW n \in Nat, NEW S \in SUBSET (0..n), S # {}
  PROVE  Max(S) \in S /\ \A x \in S : x <= Max(S)
<1> DEFINE P == {k \in Nat : \A T \in SUBSET (0..k) :
                               T # {} => \E x \in T : \A y \in T : y <= x}
<1>1. 0 \in P
  <2>1. ASSUME NEW T \in SUBSET (0..0), T # {} PROVE \E x \in T : \A y \in T : y <= x
    <3>1. \A y \in T : y = 0 /\ y <= y
      OBVIOUS
    <3>2. PICK x \in T : TRUE
      BY <2>1
    <3>3. \A y \in T : y <= x
      BY <3>1, <3>2
    <3>4. QED
      BY <3>3
  <2>2. QED
    BY <2>1
<1>2. ASSUME NEW k \in P PROVE k + 1 \in P
  <2> SUFFICES ASSUME NEW T \in SUBSET (0..(k + 1)), T # {}
               PROVE  \E x \in T : \A y \in T : y <= x
    OBVIOUS
  <2>1. CASE k + 1 \in T
    BY <2>1
  <2>2. CASE k + 1 \notin T
    <3>1. T \in SUBSET (0..k)
      BY <2>2
    <3>2. QED
      BY <3>1
  <2>3. QED
    BY <2>1, <2>2
<1>3. n \in P
  BY <1>1, <1>2, Induction
<1>4. \E x \in S : \A y \in S : x >= y
  <2>1. PICK x \in S : \A y \in S : y <= x
    BY <1>3
  <2>2. QED
    BY <2>1
<1>5. Max(S) \in S /\ \A y \in S : Max(S) >= y
  BY <1>4 DEF Max
<1>6. QED
  BY <1>5

Upright == {s \in Span : s.start <= s.end}

Elements(list) == {list[i] : i \in 1..Len(list)}

Ordered(list) == \A i, j \in 1..Len(list) : i < j => list[i].start <= list[j].start

\* result is list with s behind its k first elements.
Inserts(result, list, k, s) ==
  /\ Len(result) = Len(list) + 1
  /\ \A i \in 1..k : result[i] = list[i]
  /\ result[k + 1] = s
  /\ \A i \in (k + 2)..(Len(list) + 1) : result[i] = list[i - 1]

LEMMA InsertedAt ==
  ASSUME NEW S, NEW list \in Seq(S), NEW s \in S, NEW k \in Nat, k <= Len(list)
  PROVE  /\ InsertAt(list, 1 + k, s) \in Seq(S)
         /\ Inserts(InsertAt(list, 1 + k, s), list, k, s)
<1> DEFINE n == Len(list)
           front == SubSeq(list, 1, k)
           back == SubSeq(list, 1 + k, n)
<1>1. n \in Nat /\ \A i \in 1..n : list[i] \in S
  OBVIOUS
<1>2. InsertAt(list, 1 + k, s) = front \o <<s>> \o back
  <2>1. (1 + k) - 1 = k
    OBVIOUS
  <2>2. QED
    BY <2>1 DEF InsertAt
<1>3. /\ front \in Seq(S) /\ Len(front) = k
      /\ \A i \in 1..k : front[i] = list[i]
  BY <1>1
<1>4. /\ back \in Seq(S) /\ Len(back) = n - k
      /\ \A i \in 1..(n - k) : back[i] = list[k + i]
  BY <1>1, SubSeqProperties
<1> HIDE DEF front, back
<1> DEFINE head == front \o <<s>>
<1>5. /\ head \in Seq(S) /\ Len(head) = k + 1
      /\ \A i \in 1..k : head[i] = list[i]
      /\ head[k + 1] = s
  BY <1>3
<1> HIDE DEF head
<1>6. /\ head \o back \in Seq(S) /\ Len(head \o back) = n + 1
      /\ \A i \in 1..(k + 1) : (head \o back)[i] = head[i]
      /\ \A i \in (k + 2)..(n + 1) : (head \o back)[i] = back[i - (k + 1)]
  BY <1>1, <1>4, <1>5
<1>7. ASSUME NEW i \in (k + 2)..(n + 1) PROVE (head \o back)[i] = list[i - 1]
  <2>1. i - (k + 1) \in 1..(n - k) /\ k + (i - (k + 1)) = i - 1
    BY <1>1
  <2>2. QED
    BY <1>4, <1>6, <2>1
<1>8. \A i \in 1..k : (head \o back)[i] = list[i]
  BY <1>5, <1>6
<1> DEFINE result == InsertAt(list, 1 + k, s)
<1>9. result = head \o back
  BY <1>2 DEF head
<1> SUFFICES /\ result \in Seq(S) /\ Len(result) = n + 1
             /\ \A i \in 1..k : result[i] = list[i]
             /\ result[k + 1] = s
             /\ \A i \in (k + 2)..(n + 1) : result[i] = list[i - 1]
  BY DEF Inserts
<1> HIDE DEF result, n
<1>10. k + 1 \in 1..(k + 1)
  OBVIOUS
<1>11. QED
  BY <1>5, <1>6, <1>7, <1>8, <1>9, <1>10

LEMMA Inserted ==
  ASSUME NEW list \in Seq(Upright), Ordered(list), NEW s \in Upright
  PROVE  /\ Insert(list, s) \in Seq(Upright)
         /\ Ordered(Insert(list, s))
         /\ Elements(Insert(list, s)) = Elements(list) \union {s}
<1> DEFINE n == Len(list)
           S == {0} \union {i \in DOMAIN list : list[i].start <= s.start}
           k == Max(S)
           result == InsertAt(list, 1 + k, s)
<1>1. n \in Nat /\ DOMAIN list = 1..n
  OBVIOUS
<1>2. k \in S /\ \A x \in S : x <= k
  <2>1. S \in SUBSET (0..n) /\ S # {}
    BY <1>1
  <2>2. QED
    BY <1>1, <2>1, Largest
<1>3. k \in 0..n
  BY <1>1, <1>2
<1>4. /\ \A i \in 1..k : list[i].start <= s.start
      /\ \A i \in (k + 1)..n : s.start <= list[i].start
  <2>1. ASSUME NEW i \in 1..k PROVE list[i].start <= s.start
    <3>1. k \in DOMAIN list /\ list[k].start <= s.start /\ i \in 1..n
      BY <1>1, <1>2, <1>3
    <3>2. list[i] \in Upright /\ list[k] \in Upright
      BY <1>1, <3>1
    <3>3. i = k \/ list[i].start <= list[k].start
      BY <1>1, <3>1 DEF Ordered
    <3>4. QED
      BY <3>1, <3>2, <3>3 DEF Upright, Span
  <2>2. ASSUME NEW i \in (k + 1)..n PROVE s.start <= list[i].start
    <3>1. i \in DOMAIN list /\ i \notin S
      BY <1>1, <1>2, <1>3
    <3>2. list[i] \in Upright
      BY <3>1
    <3>3. QED
      BY <3>1, <3>2 DEF Upright, Span
  <2>3. QED
    BY <2>1, <2>2
<1>5. Insert(list, s) = result
  BY DEF Insert
<1> HIDE DEF k, S
<1>8. /\ result \in Seq(Upright) /\ Len(result) = n + 1
      /\ \A i \in 1..k : result[i] = list[i]
      /\ result[k + 1] = s
      /\ \A i \in (k + 2)..(n + 1) : result[i] = list[i - 1]
  <2>1. /\ k \in Nat /\ k <= Len(list)
        /\ list \in Seq(Upright) /\ s \in Upright
    BY <1>1, <1>3
  <2> HIDE DEF result
  <2>2. result \in Seq(Upright) /\ Inserts(result, list, k, s)
    BY <2>1, InsertedAt DEF result
  <2>3. QED
    BY <2>2 DEF Inserts
<1> HIDE DEF result
<1>9. Ordered(result)
  <2> SUFFICES ASSUME NEW i \in 1..(n + 1), NEW j \in 1..(n + 1), i < j
               PROVE  result[i].start <= result[j].start
    BY <1>8 DEF Ordered
  <2>1. \A p \in 1..n, q \in 1..n : p < q => list[p].start <= list[q].start
    BY DEF Ordered
  <2>2. CASE j <= k
    BY <1>1, <1>3, <1>8, <2>1, <2>2
  <2>3. CASE j = k + 1
    BY <1>1, <1>3, <1>4, <1>8, <2>3
  <2>4. CASE i = k + 1
    BY <1>1, <1>3, <1>4, <1>8, <2>4
  <2>5. CASE i > k + 1
    BY <1>1, <1>3, <1>8, <2>1, <2>5
  <2>6. CASE i <= k /\ j > k + 1
    BY <1>1, <1>3, <1>8, <2>1, <2>6
  <2>7. QED
    BY <1>1, <1>3, <2>2, <2>3, <2>4, <2>5, <2>6
<1>10. Elements(result) = Elements(list) \union {s}
  <2>1. ASSUME NEW i \in 1..(n + 1) PROVE result[i] \in Elements(list) \union {s}
    BY <1>1, <1>3, <1>8 DEF Elements
  <2>2. ASSUME NEW i \in 1..n PROVE list[i] \in Elements(result)
    <3>1. CASE i <= k
      BY <1>1, <1>3, <1>8, <3>1 DEF Elements
    <3>2. CASE i > k
      <4>1. i + 1 \in (k + 2)..(n + 1) /\ (i + 1) - 1 = i /\ i + 1 \in 1..(n + 1)
        BY <1>1, <1>3, <3>2
      <4>2. QED
        BY <1>8, <4>1 DEF Elements
    <3>3. QED
      BY <1>1, <1>3, <3>1, <3>2
  <2>3. s \in Elements(result)
    BY <1>1, <1>3, <1>8 DEF Elements
  <2>4. QED
    BY <1>8, <2>1, <2>2, <2>3 DEF Elements
<1>11. QED
  BY <1>5, <1>8, <1>9, <1>10

Sorts(spans, m, f) ==
  f = [n \in 0..m |-> IF n = 0 THEN <<>>
                      ELSE IF spans[n].end < spans[n].start THEN f[n - 1]
                      ELSE Insert(f[n - 1], spans[n])]

\* The sorted upright spans are ordered, and the same spans.
LEMMA SortedUpright ==
  ASSUME NEW spans \in Seq(Span)
  PROVE  /\ SortUpright(spans) \in Seq(Upright)
         /\ Ordered(SortUpright(spans))
         /\ Elements(SortUpright(spans)) = Elements(spans) \intersect Upright
<1> DEFINE m == Len(spans)
           S == {list \in Seq(Upright) : Ordered(list)}
           step == [p \in S \X (1..m) |->
                      IF spans[p[2]].end < spans[p[2]].start THEN p[1]
                      ELSE Insert(p[1], spans[p[2]])]
<1>1. m \in Nat /\ \A n \in 1..m : spans[n] \in Span
  OBVIOUS
<1>2. <<>> \in S /\ Elements(<<>>) = {}
  BY DEF Ordered, Elements
<1>3. ASSUME NEW list \in S, NEW n \in 1..m
      PROVE  /\ step[<<list, n>>] \in S
             /\ Elements(step[<<list, n>>]) = Elements(list) \union ({spans[n]} \intersect Upright)
  <2>1. step[<<list, n>>] = IF spans[n].end < spans[n].start THEN list
                            ELSE Insert(list, spans[n])
    OBVIOUS
  <2>2. CASE spans[n] \in Upright
    <3>1. step[<<list, n>>] = Insert(list, spans[n])
      BY <2>1, <2>2 DEF Upright, Span
    <3>2. list \in Seq(Upright) /\ Ordered(list)
      OBVIOUS
    <3>3. /\ Insert(list, spans[n]) \in Seq(Upright)
          /\ Ordered(Insert(list, spans[n]))
          /\ Elements(Insert(list, spans[n])) = Elements(list) \union {spans[n]}
      BY <2>2, <3>2, Inserted
    <3>4. {spans[n]} \intersect Upright = {spans[n]}
      BY <2>2
    <3>5. QED
      BY <3>1, <3>3, <3>4
  <2>3. CASE spans[n] \notin Upright
    <3>1. step[<<list, n>>] = list
      BY <1>1, <2>1, <2>3 DEF Upright, Span
    <3>2. QED
      BY <2>3, <3>1
  <2>4. QED
    BY <2>2, <2>3
<1>4. step \in [S \X (1..m) -> S]
  <2>1. ASSUME NEW p \in S \X (1..m) PROVE step[p] \in S
    <3>1. p = <<p[1], p[2]>> /\ p[1] \in S /\ p[2] \in 1..m
      OBVIOUS
    <3>2. QED
      BY <1>3, <3>1
  <2>2. QED
    BY <2>1
<1> HIDE DEF step
<1>5. PICK g : Repeats(g, S, <<>>, m, step)
  <2>1. step \in Steps(S, m)
    BY <1>4 DEF Steps
  <2> HIDE DEF S, m
  <2>2. QED
    BY <1>1, <1>2, <2>1, Repeated
<1>6. Sorts(spans, m, g)
  <2>1. ASSUME NEW n \in 0..m
        PROVE  g[n] = IF n = 0 THEN <<>>
                      ELSE IF spans[n].end < spans[n].start THEN g[n - 1]
                      ELSE Insert(g[n - 1], spans[n])
    <3>1. CASE n = 0
      BY <1>5, <3>1 DEF Repeats
    <3>2. CASE n # 0
      <4>1. n \in 1..m /\ n - 1 \in 0..m
        BY <3>2
      <4>2. g[n - 1] \in S
        BY <1>5, <4>1 DEF Repeats
      <4>3. QED
        BY <1>5, <3>2, <4>1, <4>2 DEF step, Repeats
    <3>3. QED
      BY <3>1, <3>2
  <2>2. QED
    BY <1>5, <2>1 DEF Sorts, Repeats
<1>7. PICK f : Sorts(spans, m, f) /\ SortUpright(spans) = f[m]
  <2> DEFINE f == CHOOSE f : Sorts(spans, m, f)
  <2>1. Sorts(spans, m, f)
    BY <1>6
  <2>2. SortUpright(spans) = f[m]
    BY DEF SortUpright, Sorts
  <2>3. QED
    BY <2>1, <2>2
<1> DEFINE P == {k \in Nat : k <= m =>
                   f[k] \in S /\ Elements(f[k]) = {spans[i] : i \in 1..k} \intersect Upright}
<1>8. \A n \in 0..m : f[n] = IF n = 0 THEN <<>>
                             ELSE IF spans[n].end < spans[n].start THEN f[n - 1]
                             ELSE Insert(f[n - 1], spans[n])
  BY <1>7 DEF Sorts
<1>9. 0 \in P
  <2>1. f[0] = <<>>
    BY <1>1, <1>8
  <2>2. {spans[i] : i \in 1..0} = {}
    OBVIOUS
  <2>3. f[0] \in S /\ Elements(f[0]) = {spans[i] : i \in 1..0} \intersect Upright
    BY <1>2, <2>1, <2>2
  <2>4. QED
    BY <2>3
<1>10. ASSUME NEW k \in P PROVE k + 1 \in P
  <2> SUFFICES ASSUME k + 1 <= m
               PROVE  /\ f[k + 1] \in S
                      /\ Elements(f[k + 1]) = {spans[i] : i \in 1..(k + 1)} \intersect Upright
    OBVIOUS
  <2>1. f[k] \in S /\ Elements(f[k]) = {spans[i] : i \in 1..k} \intersect Upright
    BY <1>1
  <2>2. k + 1 \in 1..m /\ k + 1 \in 0..m /\ k + 1 # 0 /\ (k + 1) - 1 = k
    BY <1>1
  <2>3. f[k + 1] = step[<<f[k], k + 1>>]
    BY <1>8, <2>1, <2>2 DEF step
  <2>4. {spans[i] : i \in 1..(k + 1)} = {spans[i] : i \in 1..k} \union {spans[k + 1]}
    OBVIOUS
  <2>5. QED
    BY <1>3, <2>1, <2>2, <2>3, <2>4
<1>11. m \in P
  <2> HIDE DEF P
  <2>1. \A k \in Nat : k \in P
    BY <1>9, <1>10, Induction DEF P
  <2>2. QED
    BY <1>1, <2>1
<1>12. f[m] \in S /\ Elements(f[m]) = {spans[i] : i \in 1..m} \intersect Upright
  BY <1>1, <1>11
<1>13. {spans[i] : i \in 1..m} = Elements(spans)
  BY DEF Elements
<1>14. QED
  BY <1>7, <1>12, <1>13

\* Spans apart that say what the spans of a set say.
Parts(merged, spans) ==
  /\ merged \in Seq(Upright)
  /\ \A i, j \in 1..Len(merged) : i < j => merged[i].end < merged[j].start
  /\ \A s \in spans : \E i \in 1..Len(merged) :
       merged[i].start <= s.start /\ s.end <= merged[i].end
  /\ \A i \in 1..Len(merged) :
       /\ \E s \in spans : s.start = merged[i].start
       /\ \E s \in spans : s.end = merged[i].end
       /\ \A u \in Units(merged[i]) : \E s \in spans : u \in Units(s)

LEMMA Joined ==
  ASSUME NEW spans \in SUBSET Upright, NEW merged, Parts(merged, spans),
         NEW s \in Upright, \A t \in spans : t.start <= s.start
  PROVE  Parts(Join(merged, s), spans \union {s})
<1> DEFINE n == Len(merged)
           all == spans \union {s}
<1>1. /\ n \in Nat /\ merged \in Seq(Upright)
      /\ \A i \in 1..n : merged[i] \in Upright
  BY DEF Parts
<1>2. \A t \in Upright : t.start \in Int /\ t.end \in Int /\ t.start <= t.end
  BY CoverageConstants DEF Upright, Span
<1>3. \A i, j \in 1..n : i < j => merged[i].end < merged[j].start
  BY DEF Parts
<1>4. \A t \in spans : \E i \in 1..n : merged[i].start <= t.start /\ t.end <= merged[i].end
  BY DEF Parts
<1>5. \A i \in 1..n :
        /\ \E t \in spans : t.start = merged[i].start
        /\ \E t \in spans : t.end = merged[i].end
        /\ \A u \in Units(merged[i]) : \E t \in spans : u \in Units(t)
  BY DEF Parts
<1>6. CASE n > 0 /\ s.start <= merged[n].end
  <2> DEFINE last == [merged[n] EXCEPT !.end = Larger(@, s.end)]
             new == [merged EXCEPT ![n] = last]
  <2>1. Join(merged, s) = new
    BY <1>6 DEF Join
  <2>2. n \in 1..n /\ merged[n] \in Upright
    BY <1>1, <1>6
  <2>3. /\ last.start = merged[n].start /\ last.start <= s.start
        /\ last.end = Larger(merged[n].end, s.end)
        /\ last.end \in {merged[n].end, s.end}
        /\ last.end >= merged[n].end /\ last.end >= s.end
        /\ last \in Upright
    <3>1. merged[n].start <= s.start
      BY <1>5, <2>2
    <3>2. QED
      BY <1>2, <2>2, <3>1 DEF Upright, Span, Larger
  <2>4. /\ new \in Seq(Upright) /\ Len(new) = n
        /\ \A i \in 1..n : new[i] = IF i = n THEN last ELSE merged[i]
    BY <1>1, <2>2, <2>3
  <2> HIDE DEF new, last
  <2>5. ASSUME NEW i \in 1..n, NEW j \in 1..n, i < j PROVE new[i].end < new[j].start
    BY <1>1, <1>3, <2>2, <2>3, <2>4, <2>5
  <2>6. ASSUME NEW t \in all
        PROVE  \E i \in 1..n : new[i].start <= t.start /\ t.end <= new[i].end
    <3>1. CASE t = s
      BY <2>2, <2>3, <2>4, <3>1
    <3>2. CASE t \in spans
      <4>1. PICK i \in 1..n : merged[i].start <= t.start /\ t.end <= merged[i].end
        BY <1>4, <3>2
      <4>2. CASE i = n
        BY <1>1, <1>2, <2>2, <2>3, <2>4, <3>2, <4>1, <4>2
      <4>3. CASE i # n
        BY <2>4, <4>1, <4>3
      <4>4. QED
        BY <4>2, <4>3
    <3>3. QED
      BY <3>1, <3>2
  <2>7. ASSUME NEW i \in 1..n
        PROVE  /\ \E t \in all : t.start = new[i].start
               /\ \E t \in all : t.end = new[i].end
               /\ \A u \in Units(new[i]) : \E t \in all : u \in Units(t)
    <3>1. CASE i # n
      BY <1>5, <2>4, <3>1
    <3>2. CASE i = n
      <4>1. new[i] = last
        BY <2>4, <3>2
      <4>2. \E t \in all : t.start = last.start
        BY <1>5, <2>2, <2>3
      <4>3. \E t \in all : t.end = last.end
        BY <1>5, <2>2, <2>3
      <4>4. ASSUME NEW u \in Units(last) PROVE \E t \in all : u \in Units(t)
        <5>1. u \in Int /\ merged[n].start <= u /\ u < last.end
          BY <1>2, <2>2, <2>3 DEF Units
        <5>2. CASE u < merged[n].end
          <6>1. u \in Units(merged[n])
            BY <1>2, <2>2, <5>1, <5>2 DEF Units
          <6>2. QED
            BY <1>5, <2>2, <6>1
        <5>3. CASE ~(u < merged[n].end)
          <6>1. u \in Units(s)
            BY <1>2, <1>6, <2>2, <2>3, <5>1, <5>3 DEF Units
          <6>2. QED
            BY <6>1
        <5>4. QED
          BY <5>2, <5>3
      <4>5. QED
        BY <4>1, <4>2, <4>3, <4>4
    <3>3. QED
      BY <3>1, <3>2
  <2>8. QED
    BY <2>1, <2>4, <2>5, <2>6, <2>7 DEF Parts
<1>7. CASE ~(n > 0 /\ s.start <= merged[n].end)
  <2> DEFINE new == Append(merged, s)
  <2>1. Join(merged, s) = new
    BY <1>7 DEF Join
  <2>2. /\ new \in Seq(Upright) /\ Len(new) = n + 1
        /\ \A i \in 1..n : new[i] = merged[i]
        /\ new[n + 1] = s
    BY <1>1
  <2> HIDE DEF new
  <2>3. ASSUME NEW i \in 1..(n + 1), NEW j \in 1..(n + 1), i < j
        PROVE  new[i].end < new[j].start
    <3>1. CASE j <= n
      BY <1>1, <1>3, <2>2, <2>3, <3>1
    <3>2. CASE j = n + 1
      <4>1. i \in 1..n /\ n \in 1..n /\ merged[n].end < s.start
        BY <1>1, <1>2, <1>7, <2>3, <3>2
      <4>2. merged[i].end <= merged[n].end
        <5>1. CASE i = n
          BY <1>1, <1>2, <4>1, <5>1
        <5>2. CASE i < n
          BY <1>1, <1>2, <1>3, <4>1, <5>2
        <5>3. QED
          BY <1>1, <4>1, <5>1, <5>2
      <4>3. QED
        BY <1>1, <1>2, <2>2, <3>2, <4>1, <4>2
    <3>3. QED
      BY <1>1, <3>1, <3>2
  <2>4. ASSUME NEW t \in all
        PROVE  \E i \in 1..(n + 1) : new[i].start <= t.start /\ t.end <= new[i].end
    <3>1. CASE t = s
      BY <1>1, <1>2, <2>2, <3>1
    <3>2. CASE t \in spans
      <4>1. PICK i \in 1..n : merged[i].start <= t.start /\ t.end <= merged[i].end
        BY <1>4, <3>2
      <4>2. QED
        BY <1>1, <2>2, <4>1
    <3>3. QED
      BY <3>1, <3>2
  <2>5. ASSUME NEW i \in 1..(n + 1)
        PROVE  /\ \E t \in all : t.start = new[i].start
               /\ \E t \in all : t.end = new[i].end
               /\ \A u \in Units(new[i]) : \E t \in all : u \in Units(t)
    <3>1. CASE i \in 1..n
      BY <1>5, <2>2, <3>1
    <3>2. CASE i = n + 1
      BY <2>2, <3>2
    <3>3. QED
      BY <1>1, <3>1, <3>2
  <2>6. QED
    BY <2>1, <2>2, <2>3, <2>4, <2>5 DEF Parts
<1>8. QED
  BY <1>6, <1>7

Joins(list, m, f) ==
  f = [n \in 0..m |-> IF n = 0 THEN <<>> ELSE Join(f[n - 1], list[n])]

LEMMA AllJoined ==
  ASSUME NEW list \in Seq(Upright), Ordered(list)
  PROVE  Parts(JoinAll(list), Elements(list))
<1> DEFINE m == Len(list)
           S == Seq(Upright)
           step == [p \in S \X (1..m) |-> Join(p[1], list[p[2]])]
<1>1. /\ m \in Nat
      /\ \A n \in 1..m : list[n] \in Upright
      /\ \A i, j \in 1..m : i < j => list[i].start <= list[j].start
  BY DEF Ordered
<1>2. \A t \in Upright : t.start \in Int /\ t.end \in Int /\ t.start <= t.end
  BY CoverageConstants DEF Upright, Span
<1>3. ASSUME NEW merged \in S, NEW n \in 1..m
      PROVE  step[<<merged, n>>] = Join(merged, list[n]) /\ Join(merged, list[n]) \in S
  <2> DEFINE k == Len(merged)
             s == list[n]
  <2>1. step[<<merged, n>>] = Join(merged, s) /\ s \in Upright /\ k \in Nat
    BY <1>1
  <2>2. CASE k > 0 /\ s.start <= merged[k].end
    <3> DEFINE last == [merged[k] EXCEPT !.end = Larger(@, s.end)]
    <3>1. k \in 1..k /\ merged[k] \in Upright
      BY <2>1, <2>2
    <3>2. last \in Upright
      <4>1. /\ merged[k] \in Span /\ s \in Span
            /\ merged[k].start <= merged[k].end
        BY <2>1, <3>1 DEF Upright
      <4>2. /\ last \in Span /\ last.start = merged[k].start
            /\ last.end = Larger(merged[k].end, s.end)
        BY <4>1 DEF Span, Larger
      <4>3. last.start <= last.end
        BY <4>1, <4>2, CoverageConstants DEF Span, Larger
      <4>4. QED
        BY <4>2, <4>3 DEF Upright
    <3>3. [merged EXCEPT ![k] = last] \in S
      BY <3>1, <3>2
    <3>4. QED
      BY <2>1, <2>2, <3>3 DEF Join
  <2>3. CASE ~(k > 0 /\ s.start <= merged[k].end)
    BY <2>1, <2>3 DEF Join
  <2>4. QED
    BY <2>2, <2>3
<1>4. step \in Steps(S, m)
  <2>1. ASSUME NEW p \in S \X (1..m) PROVE step[p] \in S
    <3>1. p = <<p[1], p[2]>> /\ p[1] \in S /\ p[2] \in 1..m
      OBVIOUS
    <3>2. QED
      BY <1>3, <3>1
  <2>2. QED
    BY <2>1 DEF Steps
<1> HIDE DEF step
<1>5. PICK g : Repeats(g, S, <<>>, m, step)
  <2>1. <<>> \in S
    OBVIOUS
  <2> HIDE DEF S, m
  <2>2. QED
    BY <1>1, <1>4, <2>1, Repeated
<1>6. Joins(list, m, g)
  <2>1. ASSUME NEW n \in 0..m
        PROVE  g[n] = IF n = 0 THEN <<>> ELSE Join(g[n - 1], list[n])
    <3>1. CASE n = 0
      BY <1>5, <3>1 DEF Repeats
    <3>2. CASE n # 0
      <4>1. n \in 1..m /\ n - 1 \in 0..m
        BY <3>2
      <4>2. g[n - 1] \in S /\ g[n] = step[<<g[n - 1], n>>]
        BY <1>5, <4>1 DEF Repeats
      <4>3. QED
        BY <1>3, <3>2, <4>1, <4>2
    <3>3. QED
      BY <3>1, <3>2
  <2>2. QED
    BY <1>5, <2>1 DEF Joins, Repeats
<1>7. PICK f : Joins(list, m, f) /\ JoinAll(list) = f[m]
  <2> DEFINE f == CHOOSE f : Joins(list, m, f)
  <2>1. Joins(list, m, f)
    BY <1>6
  <2>2. JoinAll(list) = f[m]
    BY DEF JoinAll, Joins
  <2>3. QED
    BY <2>1, <2>2
<1>8. \A n \in 0..m : f[n] = IF n = 0 THEN <<>> ELSE Join(f[n - 1], list[n])
  BY <1>7 DEF Joins
<1> DEFINE First(k) == {list[i] : i \in 1..k}
           P == {k \in Nat : k <= m => Parts(f[k], First(k))}
<1>9. 0 \in P
  <2>1. f[0] = <<>> /\ First(0) = {}
    BY <1>1, <1>8
  <2>2. Parts(<<>>, {})
    BY DEF Parts
  <2>3. QED
    BY <2>1, <2>2
<1>10. ASSUME NEW k \in P PROVE k + 1 \in P
  <2> SUFFICES ASSUME k + 1 <= m PROVE Parts(f[k + 1], First(k + 1))
    OBVIOUS
  <2>1. Parts(f[k], First(k))
    BY <1>1
  <2>2. f[k + 1] = Join(f[k], list[k + 1])
    <3>1. k + 1 \in 0..m /\ k + 1 # 0 /\ (k + 1) - 1 = k
      BY <1>1
    <3>2. QED
      BY <1>8, <3>1
  <2>3. First(k + 1) = First(k) \union {list[k + 1]}
    OBVIOUS
  <2>4. /\ First(k) \in SUBSET Upright /\ list[k + 1] \in Upright
        /\ \A t \in First(k) : t.start <= list[k + 1].start
    <3>1. \A i \in 1..k : i \in 1..m /\ k + 1 \in 1..m /\ i < k + 1
      BY <1>1
    <3>2. k + 1 \in 1..m
      BY <1>1
    <3>3. QED
      BY <1>1, <3>1, <3>2
  <2> HIDE DEF First
  <2>5. QED
    BY <2>1, <2>2, <2>3, <2>4, Joined
<1>11. m \in P
  <2> HIDE DEF P
  <2>1. \A k \in Nat : k \in P
    BY <1>9, <1>10, Induction DEF P
  <2>2. QED
    BY <1>1, <2>1
<1>12. Parts(f[m], First(m)) /\ First(m) = Elements(list)
  BY <1>1, <1>11 DEF Elements
<1>13. QED
  BY <1>7, <1>12

LEMMA PartsAre ==
  ASSUME NEW merged, NEW spans, Parts(merged, spans)
  PROVE  /\ Len(merged) \in Nat
         /\ \A i \in 1..Len(merged) :
              /\ merged[i] \in Upright
              /\ merged[i].start \in Int /\ merged[i].end \in Int
              /\ merged[i].start <= merged[i].end
         /\ \A i, j \in 1..Len(merged) : i < j => merged[i].end < merged[j].start
<1>1. merged \in Seq(Upright)
  BY DEF Parts
<1>2. Len(merged) \in Nat /\ \A i \in 1..Len(merged) : merged[i] \in Upright
  BY <1>1
<1>3. \A s \in Upright : s.start \in Int /\ s.end \in Int /\ s.start <= s.end
  BY CoverageConstants DEF Upright, Span
<1>4. \A i, j \in 1..Len(merged) : i < j => merged[i].end < merged[j].start
  BY DEF Parts
<1>5. QED
  BY <1>2, <1>3, <1>4

\* The upright imports.
UprightOf(spans) == Elements(spans) \intersect Upright

\* merge_spans, whatever the spans.
LEMMA Merged ==
  ASSUME NEW spans \in Seq(Span)
  PROVE  Parts(MergeSpans(spans), UprightOf(spans))
BY SortedUpright, AllJoined DEF MergeSpans, UprightOf

UnitsOf(spans) == UNION {Units(s) : s \in spans}

LEMMA UnitsWhole ==
  ASSUME NEW spans \in Seq(Span)
  PROVE  UNION {Units(spans[i]) : i \in DOMAIN spans} = UnitsOf(UprightOf(spans))
<1>1. ASSUME NEW i \in 1..Len(spans), NEW u \in Units(spans[i]) PROVE u \in UnitsOf(UprightOf(spans))
  <2>1. spans[i] \in Span
    OBVIOUS
  <2>2. spans[i] \in Upright
    BY <1>1, <2>1, CoverageConstants DEF Upright, Span, Units
  <2>3. spans[i] \in UprightOf(spans)
    BY <2>2 DEF UprightOf, Elements
  <2>4. QED
    BY <1>1, <2>3 DEF UnitsOf
<1>2. ASSUME NEW s \in UprightOf(spans), NEW u \in Units(s)
      PROVE  \E i \in DOMAIN spans : u \in Units(spans[i])
  <2>1. PICK i \in 1..Len(spans) : s = spans[i]
    BY DEF UprightOf, Elements
  <2>2. i \in DOMAIN spans
    OBVIOUS
  <2>3. QED
    BY <1>2, <2>1, <2>2
<1>3. \A i \in DOMAIN spans : i \in 1..Len(spans)
  OBVIOUS
<1> DEFINE left == UNION {Units(spans[i]) : i \in DOMAIN spans}
           right == UnitsOf(UprightOf(spans))
<1>4. \A u \in left : u \in right
  BY <1>1, <1>3
<1>5. \A u \in right : u \in left
  BY <1>2 DEF UnitsOf
<1> HIDE DEF left, right
<1>6. left = right
  BY <1>4, <1>5
<1>7. QED
  BY <1>6 DEF left, right

LEMMA UnitsMerged ==
  ASSUME NEW merged, NEW spans \in SUBSET Upright, Parts(merged, spans)
  PROVE  UnitsOf(Elements(merged)) = UnitsOf(spans)
<1>1. ASSUME NEW s \in spans, NEW u \in Units(s) PROVE u \in UnitsOf(Elements(merged))
  <2>1. PICK i \in 1..Len(merged) : merged[i].start <= s.start /\ s.end <= merged[i].end
    BY DEF Parts
  <2>2. s \in Upright /\ merged[i] \in Upright
    BY DEF Parts
  <2>3. u \in Units(merged[i])
    BY <2>1, <2>2, CoverageConstants DEF Upright, Span, Units
  <2>4. QED
    BY <2>3 DEF UnitsOf, Elements
<1>2. ASSUME NEW i \in 1..Len(merged), NEW u \in Units(merged[i]) PROVE u \in UnitsOf(spans)
  <2>1. \E s \in spans : u \in Units(s)
    BY <1>2 DEF Parts
  <2>2. QED
    BY <2>1 DEF UnitsOf
<1>3. ASSUME NEW s \in Elements(merged), NEW u \in Units(s) PROVE u \in UnitsOf(spans)
  <2>1. PICK i \in 1..Len(merged) : s = merged[i]
    BY DEF Elements
  <2>2. QED
    BY <1>2, <1>3, <2>1
<1>4. QED
  BY <1>1, <1>3 DEF UnitsOf

Sums(merged, m, f) ==
  f = [n \in 0..m |-> IF n = 0 THEN 0 ELSE f[n - 1] + merged[n].end - merged[n].start]

LEMMA UnitsCount ==
  ASSUME NEW s \in Upright
  PROVE  IsFiniteSet(Units(s)) /\ Cardinality(Units(s)) = s.end - s.start
<1>1. s.start \in Int /\ s.end \in Int /\ s.start <= s.end
  BY CoverageConstants DEF Upright, Span
<1>2. s.end - 1 \in Int
  BY <1>1
<1>3. /\ IsFiniteSet(s.start..(s.end - 1))
      /\ Cardinality(s.start..(s.end - 1)) =
           IF s.start > s.end - 1 THEN 0 ELSE (s.end - 1) - s.start + 1
  BY <1>1, <1>2, FS_Interval
<1>4. QED
  BY <1>1, <1>3 DEF Units

LEMMA CoveredUnits ==
  ASSUME NEW merged, NEW spans \in SUBSET Upright, Parts(merged, spans)
  PROVE  CoveredSecs(merged) = Cardinality(UnitsOf(spans))
<1> DEFINE m == Len(merged)
           step == [p \in Int \X (1..m) |-> p[1] + merged[p[2]].end - merged[p[2]].start]
<1>1. /\ m \in Nat
      /\ \A n \in 1..m : merged[n] \in Upright
      /\ \A i, j \in 1..m : i < j => merged[i].end < merged[j].start
  BY PartsAre
<1>2. \A n \in 1..m : merged[n].start \in Int /\ merged[n].end \in Int
  BY PartsAre
<1>3. ASSUME NEW sum \in Int, NEW n \in 1..m
      PROVE  /\ step[<<sum, n>>] = sum + merged[n].end - merged[n].start
             /\ step[<<sum, n>>] \in Int
  BY <1>2
<1>4. step \in Steps(Int, m)
  <2>1. ASSUME NEW p \in Int \X (1..m) PROVE step[p] \in Int
    <3>1. p = <<p[1], p[2]>> /\ p[1] \in Int /\ p[2] \in 1..m
      OBVIOUS
    <3>2. QED
      BY <1>3, <3>1
  <2>2. QED
    BY <2>1 DEF Steps
<1> HIDE DEF step
<1>5. PICK g : Repeats(g, Int, 0, m, step)
  <2> HIDE DEF m
  <2>1. QED
    BY <1>1, <1>4, Repeated
<1>6. Sums(merged, m, g)
  <2>1. ASSUME NEW n \in 0..m
        PROVE  g[n] = IF n = 0 THEN 0 ELSE g[n - 1] + merged[n].end - merged[n].start
    <3>1. CASE n = 0
      BY <1>5, <3>1 DEF Repeats
    <3>2. CASE n # 0
      <4>1. n \in 1..m /\ n - 1 \in 0..m
        BY <3>2
      <4>2. g[n - 1] \in Int /\ g[n] = step[<<g[n - 1], n>>]
        BY <1>5, <4>1 DEF Repeats
      <4>3. QED
        BY <1>3, <3>2, <4>1, <4>2
    <3>3. QED
      BY <3>1, <3>2
  <2>2. QED
    BY <1>5, <2>1 DEF Sums, Repeats
<1>7. PICK f : Sums(merged, m, f) /\ CoveredSecs(merged) = f[m]
  <2> DEFINE f == CHOOSE f : Sums(merged, m, f)
  <2>1. Sums(merged, m, f)
    BY <1>6
  <2>2. CoveredSecs(merged) = f[m]
    BY DEF CoveredSecs, Sums
  <2>3. QED
    BY <2>1, <2>2
<1>8. \A n \in 0..m : f[n] = IF n = 0 THEN 0 ELSE f[n - 1] + merged[n].end - merged[n].start
  BY <1>7 DEF Sums
<1> DEFINE First(k) == {merged[i] : i \in 1..k}
           P == {k \in Nat : k <= m =>
                   /\ IsFiniteSet(UnitsOf(First(k)))
                   /\ f[k] = Cardinality(UnitsOf(First(k)))}
<1>9. 0 \in P
  <2>1. f[0] = 0 /\ UnitsOf(First(0)) = {}
    BY <1>1, <1>8 DEF UnitsOf
  <2>2. QED
    BY <2>1, FS_EmptySet
<1>10. ASSUME NEW k \in P PROVE k + 1 \in P
  <2> SUFFICES ASSUME k + 1 <= m
               PROVE  /\ IsFiniteSet(UnitsOf(First(k + 1)))
                      /\ f[k + 1] = Cardinality(UnitsOf(First(k + 1)))
    OBVIOUS
  <2> DEFINE s == merged[k + 1]
             old == UnitsOf(First(k))
             new == Units(s)
  <2>1. IsFiniteSet(old) /\ f[k] = Cardinality(old)
    BY <1>1
  <2>2. k + 1 \in 1..m /\ k + 1 \in 0..m /\ k + 1 # 0 /\ (k + 1) - 1 = k
    BY <1>1
  <2>3. f[k + 1] = f[k] + s.end - s.start
    BY <1>8, <2>2
  <2>4. IsFiniteSet(new) /\ Cardinality(new) = s.end - s.start
    BY <1>1, <2>2, UnitsCount
  <2>5. UnitsOf(First(k + 1)) = old \union new
    <3>1. First(k + 1) = First(k) \union {s}
      OBVIOUS
    <3> HIDE DEF First, s
    <3>2. QED
      BY <3>1 DEF UnitsOf
  <2>6. old \intersect new = {}
    <3> SUFFICES ASSUME NEW i \in 1..k, NEW u \in Units(merged[i]), u \in new PROVE FALSE
      BY DEF UnitsOf
    <3>1. i \in 1..m /\ i < k + 1
      BY <1>1
    <3>2. merged[i].end < s.start
      BY <1>1, <2>2, <3>1
    <3>3. QED
      BY <1>2, <2>2, <3>1, <3>2 DEF Units
  <2>7. /\ IsFiniteSet(old \union new)
        /\ Cardinality(old \union new) =
             Cardinality(old) + Cardinality(new) - Cardinality(old \intersect new)
    BY <2>1, <2>4, FS_Union
  <2>8. Cardinality(old \intersect new) = 0
    BY <2>6, FS_EmptySet
  <2>9. Cardinality(old) \in Nat
    BY <2>1, FS_CardinalityType
  <2>10. s.start \in Int /\ s.end \in Int
    BY <1>2, <2>2
  <2>12. IsFiniteSet(UnitsOf(First(k + 1)))
    BY <2>5, <2>7
  <2>13. Cardinality(UnitsOf(First(k + 1))) = Cardinality(old) + Cardinality(new)
    <3>1. Cardinality(new) \in Nat
      BY <2>4, FS_CardinalityType
    <3>2. Cardinality(UnitsOf(First(k + 1))) = Cardinality(old \union new)
      BY <2>5
    <3> HIDE DEF old, new, First
    <3>3. QED
      BY <2>7, <2>8, <2>9, <3>1, <3>2
  <2>14. Cardinality(old) + Cardinality(new) = f[k + 1]
    <3> HIDE DEF old, new, s
    <3>1. QED
      BY <2>1, <2>3, <2>4, <2>9, <2>10
  <2>11. QED
    BY <2>12, <2>13, <2>14
<1>11. m \in P
  <2> HIDE DEF P
  <2>1. \A k \in Nat : k \in P
    BY <1>9, <1>10, Induction DEF P
  <2>2. QED
    BY <1>1, <2>1
<1>12. f[m] = Cardinality(UnitsOf(First(m))) /\ First(m) = Elements(merged)
  BY <1>1, <1>11 DEF Elements
<1>13. QED
  BY <1>7, <1>12, UnitsMerged

\* Between what, for 0 before the first span and Len(merged) behind the last.
LeftOf(merged, from, i) == IF i = 0 THEN from ELSE merged[i].end
RightOf(merged, to, i) == IF i = Len(merged) THEN to ELSE merged[i + 1].start

Before(merged, from) ==
  IF from = Unknown THEN {} ELSE GapIf(from, merged[1].start, "before_join")

BetweenAt(merged, i) == GapIf(merged[i].end, merged[i + 1].start, "between_imports")

After(merged, to) == GapIf(merged[Len(merged)].end, to, "after_last")

LEMMA GapsAre ==
  ASSUME NEW merged, NEW from, NEW to, NEW g
  PROVE  g \in Gaps(merged, from, to) <=>
           \/ g \in Before(merged, from)
           \/ \E i \in 1..(Len(merged) - 1) : g \in BetweenAt(merged, i)
           \/ g \in After(merged, to)
<1> DEFINE between == UNION {BetweenAt(merged, i) : i \in 1..(Len(merged) - 1)}
           gaps == Gaps(merged, from, to)
<1>1. gaps = Before(merged, from) \union between \union After(merged, to)
  BY DEF Gaps, Before, BetweenAt, After
<1>2. g \in between <=> \E i \in 1..(Len(merged) - 1) : g \in BetweenAt(merged, i)
  OBVIOUS
<1> HIDE DEF between, gaps
<1>3. g \in gaps <=> g \in Before(merged, from) \/ g \in between \/ g \in After(merged, to)
  BY <1>1
<1>4. QED
  BY <1>2, <1>3 DEF gaps

LEMMA GapBounds ==
  ASSUME NEW merged, NEW spans, Parts(merged, spans), Len(merged) > 0,
         NEW from, NEW to, NEW g \in Gaps(merged, from, to)
  PROVE  \E i \in 0..Len(merged) :
           /\ g.start = LeftOf(merged, from, i) /\ g.end = RightOf(merged, to, i)
           /\ i = 0 => from # Unknown
           /\ g.end - g.start > MinGap
<1> DEFINE n == Len(merged)
<1>1. n \in Nat
  BY DEF Parts
<1>2. \A a, b, kind : \A h \in GapIf(a, b, kind) :
        h.start = a /\ h.end = b /\ h.end - h.start > MinGap
  BY DEF GapIf
<1>3. CASE g \in Before(merged, from)
  <2>0. from # Unknown /\ g \in GapIf(from, merged[1].start, "before_join")
    BY <1>3 DEF Before
  <2>1. LeftOf(merged, from, 0) = from /\ RightOf(merged, to, 0) = merged[1].start
    BY <1>1 DEF LeftOf, RightOf
  <2>2. QED
    BY <1>1, <1>2, <2>0, <2>1
<1>4. ASSUME NEW i \in 1..(n - 1), g \in BetweenAt(merged, i)
      PROVE  \E j \in 0..n :
               /\ g.start = LeftOf(merged, from, j) /\ g.end = RightOf(merged, to, j)
               /\ j = 0 => from # Unknown
               /\ g.end - g.start > MinGap
  <2>1. /\ i \in 0..n /\ i # 0 /\ LeftOf(merged, from, i) = merged[i].end
        /\ RightOf(merged, to, i) = merged[i + 1].start
    BY <1>1 DEF LeftOf, RightOf
  <2>2. QED
    BY <1>2, <1>4, <2>1 DEF BetweenAt
<1>5. CASE g \in After(merged, to)
  <2>1. /\ n \in 0..n /\ n # 0 /\ LeftOf(merged, from, n) = merged[n].end
        /\ RightOf(merged, to, n) = to
    BY <1>1 DEF LeftOf, RightOf
  <2>2. QED
    BY <1>2, <1>5, <2>1 DEF After
<1>6. QED
  BY <1>3, <1>4, <1>5, GapsAre

LEMMA GapReported ==
  ASSUME NEW merged, NEW spans, Parts(merged, spans), Len(merged) > 0,
         NEW from, NEW to, NEW i \in 0..Len(merged), i = 0 => from # Unknown,
         RightOf(merged, to, i) - LeftOf(merged, from, i) > MinGap
  PROVE  \E g \in Gaps(merged, from, to) :
           g.start = LeftOf(merged, from, i) /\ g.end = RightOf(merged, to, i)
<1> DEFINE n == Len(merged)
           gap(kind) == [start |-> LeftOf(merged, from, i), end |-> RightOf(merged, to, i),
                         kind |-> kind]
<1>1. n \in Nat
  BY DEF Parts
<1>2. \A kind : gap(kind) \in GapIf(LeftOf(merged, from, i), RightOf(merged, to, i), kind)
  BY DEF GapIf
<1>3. \A kind : gap(kind).start = LeftOf(merged, from, i) /\ gap(kind).end = RightOf(merged, to, i)
  OBVIOUS
<1> HIDE DEF gap
<1>4. CASE i = 0
  <2>1. gap("before_join") \in Before(merged, from)
    BY <1>1, <1>2, <1>4 DEF LeftOf, RightOf, Before
  <2>2. QED
    BY <1>3, <2>1, GapsAre
<1>5. CASE i = n
  <2>1. gap("after_last") \in After(merged, to)
    BY <1>1, <1>2, <1>5 DEF LeftOf, RightOf, After
  <2>2. QED
    BY <1>3, <2>1, GapsAre
<1>6. CASE i # 0 /\ i # n
  <2>1. i \in 1..(n - 1)
    BY <1>1, <1>6
  <2>2. gap("between_imports") \in BetweenAt(merged, i)
    BY <1>1, <1>2, <1>6 DEF LeftOf, RightOf, BetweenAt
  <2>3. QED
    BY <1>3, <2>1, <2>2, GapsAre
<1>7. QED
  BY <1>4, <1>5, <1>6

\* An instant is behind some of the spans and before the end of the others.
LEMMA Located ==
  ASSUME NEW merged, NEW spans, Parts(merged, spans), NEW a \in Int
  PROVE  \E i \in 0..Len(merged) :
           /\ i > 0 => merged[i].end <= a
           /\ i < Len(merged) => a < merged[i + 1].end
<1> DEFINE n == Len(merged)
           S == {0} \union {i \in 1..n : merged[i].end <= a}
           k == Max(S)
<1>1. n \in Nat /\ \A i \in 1..n : merged[i] \in Upright
  BY DEF Parts
<1>2. k \in S /\ \A x \in S : x <= k
  <2>1. S \in SUBSET (0..n) /\ S # {}
    BY <1>1
  <2>2. QED
    BY <1>1, <2>1, Largest
<1>3. k \in 0..n
  BY <1>1, <1>2
<1>4. k > 0 => merged[k].end <= a
  BY <1>2, <1>3
<1>5. ASSUME k < n PROVE a < merged[k + 1].end
  <2>1. k + 1 \in 1..n /\ k + 1 \notin S
    BY <1>1, <1>2, <1>3, <1>5
  <2>2. merged[k + 1] \in Upright
    BY <1>1, <2>1
  <2>3. QED
    BY <2>1, <2>2, CoverageConstants DEF Upright, Span
<1> HIDE DEF k
<1>6. QED
  BY <1>3, <1>4, <1>5

\* On either side of a place between spans.
LEMMA Sides ==
  ASSUME NEW merged, NEW spans, Parts(merged, spans),
         NEW i \in 0..Len(merged), NEW j \in 1..Len(merged)
  PROVE  \/ i > 0 /\ merged[j].end <= merged[i].end
         \/ i < Len(merged) /\ merged[i + 1].start <= merged[j].start
<1> DEFINE n == Len(merged)
<1>1. /\ n \in Nat
      /\ \A p, q \in 1..n : p < q => merged[p].end < merged[q].start
  BY PartsAre
<1>2. \A p \in 1..n : /\ merged[p].start \in Int /\ merged[p].end \in Int
                      /\ merged[p].start <= merged[p].end
  BY PartsAre
<1>3. CASE j <= i
  <2>1. i > 0 /\ i \in 1..n
    BY <1>1, <1>3
  <2>2. j = i \/ merged[j].end < merged[i].start
    BY <1>1, <1>3, <2>1
  <2>3. QED
    BY <1>2, <2>1, <2>2
<1>4. CASE i < j
  <2>1. i < n /\ i + 1 \in 1..n
    BY <1>1, <1>4
  <2>2. j = i + 1 \/ merged[i + 1].end < merged[j].start
    BY <1>1, <1>4, <2>1
  <2>3. QED
    BY <1>2, <2>1, <2>2
<1>5. QED
  BY <1>1, <1>3, <1>4

\* What the report is made of; its first instant tells whether anything is
\* imported.
LEMMA Analyzed ==
  ASSUME NEW spans \in Seq(Span), NEW from, NEW to
  PROVE  LET merged == MergeSpans(spans)
             report == AnalyzeCoverage(spans, from, to)
         IN  /\ Parts(merged, UprightOf(spans))
             /\ Len(merged) = 0 => /\ report.earliest = Unknown
                                   /\ report.covered = 0 /\ report.gaps = {}
             /\ Len(merged) > 0 => /\ report.earliest = merged[1].start
                                   /\ report.earliest # Unknown
                                   /\ report.covered = CoveredSecs(merged)
                                   /\ report.gaps = Gaps(merged, from, to)
<1> DEFINE merged == MergeSpans(spans)
           report == AnalyzeCoverage(spans, from, to)
<1>1. Parts(merged, UprightOf(spans))
  BY Merged
<1>2. merged \in Seq(Upright)
  BY <1>1 DEF Parts
<1>3. report = IF merged = <<>>
               THEN [earliest |-> Unknown, latest |-> Unknown, covered |-> 0, gaps |-> {}]
               ELSE [earliest |-> merged[1].start, latest |-> merged[Len(merged)].end,
                     covered |-> CoveredSecs(merged), gaps |-> Gaps(merged, from, to)]
  BY DEF AnalyzeCoverage
<1> HIDE DEF merged, report
<1>4. CASE Len(merged) = 0
  <2>1. merged = <<>>
    BY <1>2, <1>4
  <2>2. QED
    BY <1>1, <1>3, <1>4, <2>1 DEF merged, report
<1>5. CASE Len(merged) > 0
  <2>1. merged # <<>> /\ 1 \in 1..Len(merged)
    BY <1>2, <1>5
  <2>2. merged[1].start # Unknown
    BY <1>1, <2>1, PartsAre, CoverageConstants
  <2>3. QED
    BY <1>1, <1>3, <1>5, <2>1, <2>2 DEF merged, report
<1>6. QED
  BY <1>2, <1>4, <1>5

\* Of anybody's spans: the covered time is that of their union, the gaps are apart
\* from them, and each exceeds the floor.
LEMMA AnalysisIsRight ==
  ASSUME NEW spans \in Seq(Span), NEW from \in Int \union {Unknown}, NEW to \in Int
  PROVE  LET report == AnalyzeCoverage(spans, from, to)
         IN  /\ report.covered = Cardinality(UnitsOf(UprightOf(spans)))
             /\ MissingBy(report) \intersect UnitsOf(UprightOf(spans)) = {}
             /\ \A g \in report.gaps : g.end - g.start > MinGap
<1> DEFINE merged == MergeSpans(spans)
           n == Len(merged)
           report == AnalyzeCoverage(spans, from, to)
<1>1. Parts(merged, UprightOf(spans)) /\ UprightOf(spans) \in SUBSET Upright
  BY Merged DEF UprightOf
<1>2. n \in Nat
  BY <1>1, PartsAre
<1>3. UnitsOf(Elements(merged)) = UnitsOf(UprightOf(spans))
  BY <1>1, UnitsMerged
<1>4. CASE n = 0
  <2>1. report.covered = 0 /\ report.gaps = {}
    BY <1>4, Analyzed
  <2>2. UnitsOf(Elements(merged)) = {}
    BY <1>4 DEF UnitsOf, Elements
  <2> HIDE DEF report
  <2>3. QED
    BY <1>3, <2>1, <2>2, FS_EmptySet DEF MissingBy, report
<1>5. CASE n > 0
  <2>1. report.covered = CoveredSecs(merged) /\ report.gaps = Gaps(merged, from, to)
    BY <1>5, Analyzed
  <2>2. report.covered = Cardinality(UnitsOf(UprightOf(spans)))
    BY <1>1, <2>1, CoveredUnits
  <2>3. ASSUME NEW g \in report.gaps
        PROVE  /\ g.end - g.start > MinGap
               /\ \A u \in Units(g) : u \notin UnitsOf(Elements(merged))
    <3>1. PICK i \in 0..n :
            /\ g.start = LeftOf(merged, from, i) /\ g.end = RightOf(merged, to, i)
            /\ i = 0 => from # Unknown
            /\ g.end - g.start > MinGap
      BY <1>1, <1>5, <2>1, <2>3, GapBounds
    <3>2. ASSUME NEW u \in Units(g), NEW j \in 1..n, u \in Units(merged[j]) PROVE FALSE
      <4>1. /\ \A k \in 1..n : merged[k].start \in Int /\ merged[k].end \in Int
        BY <1>1, PartsAre
      <4>2. CASE i > 0 /\ merged[j].end <= merged[i].end
        <5>1. g.start = merged[i].end /\ i \in 1..n
          BY <1>2, <3>1, <4>2 DEF LeftOf
        <5>2. QED
          BY <3>2, <4>1, <4>2, <5>1 DEF Units
      <4>3. CASE i < n /\ merged[i + 1].start <= merged[j].start
        <5>1. g.end = merged[i + 1].start /\ i + 1 \in 1..n
          BY <1>2, <3>1, <4>3 DEF RightOf
        <5>2. QED
          BY <3>2, <4>1, <4>3, <5>1 DEF Units
      <4>4. QED
        BY <1>1, <4>2, <4>3, Sides
    <3>3. QED
      BY <3>1, <3>2 DEF UnitsOf, Elements
  <2> HIDE DEF report
  <2>4. MissingBy(report) \intersect UnitsOf(UprightOf(spans)) = {}
    BY <1>3, <2>3 DEF MissingBy
  <2>5. QED
    BY <2>2, <2>3, <2>4 DEF report
<1>6. QED
  BY <1>2, <1>4, <1>5

Beginning == IF created = Unknown THEN 0 ELSE created

\* What is imported is upright spans and others, of the chat's life.
CoverageInv ==
  /\ imports \in Seq(Span)
  /\ clock \in 0..MaxClock
  /\ created \in (0..MaxClock) \union {Unknown}
  /\ \A i \in 1..Len(imports) : {imports[i].start, imports[i].end} \subseteq Beginning..clock

LEMMA CoverageInvariant == CoverageSpec => []CoverageInv
<1>1. CoverageInit => CoverageInv
  BY CoverageConstants DEF CoverageInit, CoverageInv
<1>2. CoverageInv /\ [CoverageNext]_coverageVars => CoverageInv'
  <2> SUFFICES ASSUME CoverageInv, [CoverageNext]_coverageVars PROVE CoverageInv'
    OBVIOUS
  <2>1. CASE Tick
    <3>1. clock' \in 0..MaxClock
      BY <2>1, CoverageConstants DEF Tick, CoverageInv
    <3>2. \A x \in Beginning..clock : x \in Beginning..clock'
      BY <2>1, CoverageConstants DEF Tick, CoverageInv, Beginning
    <3>3. QED
      BY <2>1, <3>1, <3>2 DEF Tick, CoverageInv, Beginning
  <2>2. ASSUME NEW s \in Span, RecordImport(s) PROVE CoverageInv'
    <3>1. imports' \in Seq(Span) /\ Len(imports') = Len(imports) + 1
      BY <2>2 DEF RecordImport, CoverageInv
    <3>2. \A i \in 1..Len(imports') :
            imports'[i] = s \/ (i \in 1..Len(imports) /\ imports'[i] = imports[i])
      BY <2>2 DEF RecordImport, CoverageInv
    <3>3. {s.start, s.end} \subseteq Beginning..clock
      BY <2>2 DEF RecordImport, Beginning
    <3>4. Beginning' = Beginning /\ clock' = clock /\ created' = created
      BY <2>2 DEF RecordImport, Beginning
    <3>5. QED
      BY <3>1, <3>2, <3>3, <3>4 DEF CoverageInv
  <2>3. CASE UNCHANGED coverageVars
    BY <2>3 DEF coverageVars, CoverageInv, Beginning
  <2>4. QED
    BY <2>1, <2>2, <2>3 DEF CoverageNext
<1>3. QED
  BY <1>1, <1>2, PTL DEF CoverageSpec

\* A report is right: the covered time is that of the imports' union, however
\* they overlap, and its gaps are apart from the imports and above the floor.
THEOREM ReportsAreRight == CoverageSpec => []ReportIsRight
<1>1. CoverageInv => ReportIsRight
  <2> SUFFICES ASSUME CoverageInv PROVE ReportIsRight
    OBVIOUS
  <2>1. imports \in Seq(Span) /\ created \in Int \union {Unknown} /\ clock \in Int
    BY CoverageConstants DEF CoverageInv
  <2>2. Imported = UnitsOf(UprightOf(imports))
    BY <2>1, UnitsWhole DEF Imported
  <2>3. /\ Report.covered = Cardinality(UnitsOf(UprightOf(imports)))
        /\ Missing \intersect UnitsOf(UprightOf(imports)) = {}
        /\ \A g \in Report.gaps : g.end - g.start > MinGap
    BY <2>1, AnalysisIsRight DEF Report, Missing
  <2>4. QED
    BY <2>2, <2>3 DEF ReportIsRight, CoveredIsUnion, GapsAreGaps
<1>2. QED
  BY <1>1, CoverageInvariant, PTL

\* The unit of time at an instant between two neighbours is of neither.
LEMMA FreeUnit ==
  ASSUME NEW spans \in Seq(Span), NEW u \in Int, u \notin UnitsOf(UprightOf(spans)),
         NEW i \in 0..Len(MergeSpans(spans)), i < Len(MergeSpans(spans)),
         u < MergeSpans(spans)[i + 1].end
  PROVE  u < MergeSpans(spans)[i + 1].start
<1> DEFINE merged == MergeSpans(spans)
<1>1. Parts(merged, UprightOf(spans)) /\ UprightOf(spans) \in SUBSET Upright
  BY Merged DEF UprightOf
<1>2. Len(merged) \in Nat
  BY <1>1, PartsAre
<1>3. i + 1 \in 1..Len(merged)
  BY <1>2
<1>4. merged[i + 1].start \in Int /\ merged[i + 1].end \in Int
  BY <1>1, <1>3, PartsAre
<1>5. u \notin Units(merged[i + 1])
  BY <1>1, <1>3, UnitsMerged DEF UnitsOf, Elements
<1>6. QED
  BY <1>4, <1>5 DEF Units

\* Nothing is hidden: time that is neither imported nor reported, between the
\* chat's beginning and now, is in stretches no longer than the floor.
THEOREM NothingIsHidden == CoverageSpec => []NothingHidden
<1>1. CoverageInv => NothingHidden
  <2> DEFINE merged == MergeSpans(imports)
             n == Len(merged)
             from == IF created = Unknown THEN Report.earliest ELSE created
             hidden == (from..(clock - 1)) \ (Imported \union Missing)
             ends == {s.start : s \in Range(merged)}
  <2> SUFFICES ASSUME CoverageInv, Report.earliest # Unknown, NEW u \in hidden,
                      u..(u + MinGap) \subseteq hidden,
                      ends \intersect (u + 1)..(u + MinGap) = {}
               PROVE  FALSE
    BY DEF NothingHidden
  <2>1. imports \in Seq(Span) /\ created \in Int \union {Unknown} /\ clock \in Int
    BY CoverageConstants DEF CoverageInv
  <2>2. Parts(merged, UprightOf(imports))
    BY <2>1, Merged
  <2>3. n \in Nat /\ \A i \in 1..n : merged[i].start \in Int /\ merged[i].end \in Int
    BY <2>2, PartsAre
  <2>4. n > 0 /\ Report.earliest = merged[1].start /\ Report.gaps = Gaps(merged, created, clock)
    BY <2>1, <2>3, Analyzed DEF Report
  <2>5. from \in Int
    BY <2>1, <2>3, <2>4
  <2>6. /\ u \in Int /\ from <= u
        /\ u \notin UnitsOf(UprightOf(imports))
    BY <2>1, <2>5, UnitsWhole DEF Imported
  <2>7. PICK i \in 0..n : /\ i > 0 => merged[i].end <= u
                          /\ i < n => u < merged[i + 1].end
    BY <2>2, <2>6, Located
  <2>8. i < n => u < merged[i + 1].start
    BY <2>1, <2>6, <2>7, FreeUnit
  <2>9. i = 0 => created # Unknown /\ from = created
    BY <2>3, <2>4, <2>6, <2>8
  <2> DEFINE a == LeftOf(merged, created, i)
             b == RightOf(merged, clock, i)
  <2>10. a \in Int /\ a <= u
    BY <2>3, <2>5, <2>6, <2>7, <2>9 DEF LeftOf
  <2>11. b \in Int /\ u + MinGap < b
    <3>1. CASE i = n
      <4>1. u + MinGap \in hidden
        BY <2>6, CoverageConstants
      <4>2. u + MinGap <= clock - 1
        BY <2>1, <2>5, <2>6, <4>1, CoverageConstants
      <4>3. QED
        BY <2>1, <2>6, <3>1, <4>2, CoverageConstants DEF RightOf
    <3>2. CASE i < n
      <4>1. i + 1 \in 1..n /\ b = merged[i + 1].start
        BY <2>3, <3>2 DEF RightOf
      <4>2. merged[i + 1] \in Range(merged)
        <5>1. merged \in Seq(Upright)
          BY <2>2 DEF Parts
        <5>2. i + 1 \in DOMAIN merged
          BY <4>1, <5>1
        <5>3. QED
          BY <5>2 DEF Range
      <4>3. b \in ends
        BY <4>1, <4>2
      <4>4. b \notin (u + 1)..(u + MinGap)
        BY <4>3
      <4>5. QED
        BY <2>3, <2>6, <2>8, <3>2, <4>1, <4>4, CoverageConstants
    <3>3. QED
      BY <2>3, <3>1, <3>2
  <2>12. PICK g \in Gaps(merged, created, clock) : g.start = a /\ g.end = b
    <3>1. b - a > MinGap
      BY <2>6, <2>10, <2>11, CoverageConstants
    <3>2. QED
      BY <2>2, <2>4, <2>9, <3>1, GapReported
  <2>13. u \in Units(g)
    BY <2>6, <2>10, <2>11, <2>12, CoverageConstants DEF Units
  <2>14. u \in Missing
    BY <2>4, <2>12, <2>13 DEF Missing, MissingBy
  <2>15. QED
    BY <2>14
<1>2. QED
  BY <1>1, CoverageInvariant, PTL

\* Something was imported of a life, and more is.
Grown(old, new, from, to) ==
  /\ old \in Seq(Span) /\ new \in Seq(Span) /\ UprightOf(old) \subseteq UprightOf(new)
  /\ Len(MergeSpans(old)) > 0 /\ Len(MergeSpans(new)) > 0
  /\ from \in Int /\ to \in Int /\ from <= to
  /\ \A s \in UprightOf(new) : from <= s.end /\ s.start <= to

\* A gap after an import was within a gap before it.
LEMMA GapWasGap ==
  ASSUME NEW old, NEW new, NEW from, NEW to, Grown(old, new, from, to),
         NEW g \in Gaps(MergeSpans(new), from, to)
  PROVE  \E h \in Gaps(MergeSpans(old), from, to) : Units(g) \subseteq Units(h)
<1> DEFINE was == MergeSpans(old)
           is == MergeSpans(new)
           m == Len(was)
           n == Len(is)
           a == g.start
           b == g.end
<1>0. /\ old \in Seq(Span) /\ new \in Seq(Span)
      /\ m > 0 /\ n > 0 /\ from \in Int /\ to \in Int /\ from <= to
      /\ \A s \in UprightOf(new) : from <= s.end /\ s.start <= to
  BY DEF Grown
<1>1. /\ Parts(was, UprightOf(old)) /\ Parts(is, UprightOf(new))
      /\ UprightOf(old) \in SUBSET Upright /\ UprightOf(new) \in SUBSET Upright
  BY <1>0, Merged DEF UprightOf
<1>2. /\ m \in Nat /\ \A i \in 1..m : was[i].start \in Int /\ was[i].end \in Int
      /\ n \in Nat /\ \A i \in 1..n : is[i].start \in Int /\ is[i].end \in Int
  BY <1>1, PartsAre
<1>3. \A s \in Upright : s.start \in Int /\ s.end \in Int /\ s.start <= s.end
  BY CoverageConstants DEF Upright, Span
<1>4. PICK i \in 0..n : /\ a = LeftOf(is, from, i) /\ b = RightOf(is, to, i)
                        /\ b - a > MinGap
  BY <1>0, <1>1, GapBounds, CoverageConstants
<1>5. /\ a \in Int /\ from <= a
  <2>1. CASE i = 0
    BY <1>0, <1>4, <2>1 DEF LeftOf
  <2>2. CASE i # 0
    <3>1. i \in 1..n /\ a = is[i].end
      BY <1>4, <2>2 DEF LeftOf
    <3>2. PICK s \in UprightOf(new) : s.end = is[i].end
      BY <1>1, <3>1 DEF Parts
    <3>3. QED
      BY <1>0, <1>2, <3>1, <3>2
  <2>3. QED
    BY <2>1, <2>2
<1>6. /\ b \in Int /\ b <= to
  <2>1. CASE i = n
    BY <1>0, <1>4, <2>1 DEF RightOf
  <2>2. CASE i # n
    <3>1. i + 1 \in 1..n /\ b = is[i + 1].start
      BY <1>2, <1>4, <2>2 DEF RightOf
    <3>2. PICK s \in UprightOf(new) : s.start = is[i + 1].start
      BY <1>1, <3>1 DEF Parts
    <3>3. QED
      BY <1>0, <1>2, <3>1, <3>2
  <2>3. QED
    BY <2>1, <2>2
<1>7. a < b
  BY <1>4, <1>5, <1>6, CoverageConstants
\* Each import lies to one side of the gap
<1>8. ASSUME NEW s \in UprightOf(old) PROVE s.end <= a \/ b <= s.start
  <2>1. PICK j \in 1..n : is[j].start <= s.start /\ s.end <= is[j].end
    <3>1. s \in UprightOf(new)
      BY DEF Grown
    <3>2. QED
      BY <1>1, <3>1 DEF Parts
  <2>2. s.start \in Int /\ s.end \in Int
    BY <1>1, <1>3
  <2>3. CASE i > 0 /\ is[j].end <= is[i].end
    <3>1. a = is[i].end /\ i \in 1..n
      BY <1>2, <1>4, <2>3 DEF LeftOf
    <3>2. QED
      BY <1>2, <2>1, <2>2, <2>3, <3>1
  <2>4. CASE i < n /\ is[i + 1].start <= is[j].start
    <3>1. b = is[i + 1].start /\ i + 1 \in 1..n
      BY <1>2, <1>4, <2>4 DEF RightOf
    <3>2. QED
      BY <1>2, <2>1, <2>2, <2>4, <3>1
  <2>5. QED
    BY <1>1, <2>3, <2>4, Sides
\* and so does what the imports were merged to.
<1>9. ASSUME NEW j \in 1..m, a < was[j].end PROVE b <= was[j].start
  <2> SUFFICES ASSUME was[j].start < b PROVE FALSE
    BY <1>2, <1>6
  <2>1. PICK s \in UprightOf(old) : s.start = was[j].start
    BY <1>1 DEF Parts
  <2>2. s.start \in Int /\ s.end \in Int /\ s.start <= s.end
    BY <1>1, <1>3
  <2>3. was[j].start <= a
    <3>1. s.end <= a \/ b <= s.start
      BY <1>8
    <3>2. QED
      BY <1>2, <1>5, <1>6, <2>1, <2>2, <3>1
  <2>4. a \in Units(was[j])
    BY <1>2, <1>5, <1>9, <2>3 DEF Units
  <2>5. PICK t \in UprightOf(old) : a \in Units(t)
    BY <1>1, <2>4 DEF Parts
  <2>6. t.start \in Int /\ t.end \in Int
    BY <1>1, <1>3
  <2>7. t.start <= a /\ a < t.end
    BY <1>5, <2>5, <2>6 DEF Units
  <2>8. QED
    BY <1>5, <1>6, <1>7, <1>8, <2>6, <2>7
<1>10. PICK k \in 0..m : /\ k > 0 => was[k].end <= a
                         /\ k < m => a < was[k + 1].end
  BY <1>1, <1>5, Located
<1> DEFINE c == LeftOf(was, from, k)
           d == RightOf(was, to, k)
<1>11. c \in Int /\ c <= a
  BY <1>0, <1>2, <1>5, <1>10 DEF LeftOf
<1>12. d \in Int /\ b <= d
  <2>1. CASE k = m
    BY <1>0, <1>6, <2>1 DEF RightOf
  <2>2. CASE k < m
    <3>1. k + 1 \in 1..m /\ d = was[k + 1].start
      BY <1>2, <2>2 DEF RightOf
    <3>2. QED
      BY <1>2, <1>9, <1>10, <2>2, <3>1
  <2>3. QED
    BY <1>2, <2>1, <2>2
<1>13. d - c > MinGap
  BY <1>4, <1>5, <1>6, <1>11, <1>12, CoverageConstants
<1>14. from # Unknown
  BY <1>0, CoverageConstants
<1>15. PICK h \in Gaps(was, from, to) : h.start = c /\ h.end = d
  BY <1>0, <1>1, <1>13, <1>14, GapReported
<1>16. Units(g) \subseteq Units(h)
  BY <1>5, <1>6, <1>11, <1>12, <1>15 DEF Units
<1>17. QED
  BY <1>15, <1>16

LEMMA MissingFilled ==
  ASSUME NEW first \in Seq(Span), NEW s \in Span, NEW from \in Int, NEW to \in Int,
         \A t \in UprightOf(Append(first, s)) : from <= t.end /\ t.start <= to /\ from <= to,
         AnalyzeCoverage(first, from, to).earliest # Unknown
  PROVE  MissingBy(AnalyzeCoverage(Append(first, s), from, to)) \subseteq
           MissingBy(AnalyzeCoverage(first, from, to))
<1> DEFINE then == Append(first, s)
           before == AnalyzeCoverage(first, from, to)
           after == AnalyzeCoverage(then, from, to)
<1>1. then \in Seq(Span)
  OBVIOUS
<1>2. UprightOf(first) \subseteq UprightOf(then)
  <2>1. \A i \in 1..Len(first) : i \in 1..Len(then) /\ then[i] = first[i]
    OBVIOUS
  <2>2. QED
    BY <2>1 DEF UprightOf, Elements
<1> HIDE DEF then, before, after
<1>3. /\ Parts(MergeSpans(first), UprightOf(first)) /\ Parts(MergeSpans(then), UprightOf(then))
      /\ Len(MergeSpans(first)) \in Nat /\ Len(MergeSpans(then)) \in Nat
  BY <1>1, Merged, PartsAre
<1>4. Len(MergeSpans(first)) > 0 /\ before.gaps = Gaps(MergeSpans(first), from, to)
  BY <1>3, Analyzed DEF before
<1>5. PICK t \in UprightOf(first) : TRUE
  <2>1. 1 \in 1..Len(MergeSpans(first))
    BY <1>3, <1>4
  <2>2. QED
    BY <1>3, <2>1 DEF Parts
<1>6. from <= to
  BY <1>2, <1>5 DEF then
<1>7. Len(MergeSpans(then)) > 0
  <2>1. t \in UprightOf(then)
    BY <1>2, <1>5
  <2>2. \E i \in 1..Len(MergeSpans(then)) : TRUE
    BY <1>3, <2>1 DEF Parts
  <2>3. QED
    BY <1>3, <2>2
<1>8. after.gaps = Gaps(MergeSpans(then), from, to)
  BY <1>1, <1>7, Analyzed DEF after
<1>9. \A r \in UprightOf(then) : from <= r.end /\ r.start <= to
  BY DEF then
<1>10. Grown(first, then, from, to)
  BY <1>1, <1>2, <1>4, <1>6, <1>7, <1>9 DEF Grown
<1>11. ASSUME NEW g \in after.gaps PROVE \E h \in before.gaps : Units(g) \subseteq Units(h)
  <2>1. g \in Gaps(MergeSpans(then), from, to)
    BY <1>8
  <2>2. QED
    BY <1>4, <1>10, <2>1, GapWasGap
<1>12. QED
  BY <1>11 DEF MissingBy, before, after, then

\* Importing more never makes more of a chat missing, once its beginning is known
\* and something is imported.
THEOREM ImportsFill == CoverageSpec => ImportsOnlyFill
<1> DEFINE Fills == /\ imports' # imports /\ created # Unknown /\ Report.earliest # Unknown
                    => MissingBy(AnalyzeCoverage(imports', created', clock')) \subseteq Missing
<1>1. CoverageInv /\ CoverageInv' /\ [CoverageNext]_coverageVars => [Fills]_coverageVars
  <2> SUFFICES ASSUME CoverageInv, CoverageInv', NEW s \in Span, RecordImport(s),
                      created # Unknown, Report.earliest # Unknown
               PROVE  MissingBy(AnalyzeCoverage(imports', created', clock')) \subseteq Missing
    BY DEF CoverageNext, Tick, coverageVars
  <2>1. /\ imports \in Seq(Span) /\ imports' = Append(imports, s)
        /\ created \in Int /\ clock \in Int /\ created' = created /\ clock' = clock
    BY CoverageConstants DEF CoverageInv, RecordImport
  <2>2. ASSUME NEW t \in UprightOf(Append(imports, s))
        PROVE  created <= t.end /\ t.start <= clock /\ created <= clock
    <3>1. PICK i \in 1..Len(imports') : t = imports'[i]
      BY <2>1 DEF UprightOf, Elements
    <3>2. {t.start, t.end} \subseteq created..clock
      BY <2>1, <3>1 DEF CoverageInv, Beginning
    <3>3. QED
      BY <2>1, <3>2
  <2>3. QED
    BY <2>1, <2>2, MissingFilled DEF Report, Missing
<1>2. QED
  BY <1>1, CoverageInvariant, PTL DEF CoverageSpec, ImportsOnlyFill

=============================================================================
