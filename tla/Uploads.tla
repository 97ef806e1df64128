------------------------------- MODULE Uploads -------------------------------
(***************************************************************************)
(* From an uploaded file to stored messages: parse_export, with the date   *)
(* order and the zone declared by the uploader, and then ingest.           *)
(***************************************************************************)
EXTENDS WhatsAppImport, ExportParser

CONSTANTS SampleLine, SampleLength   \* bounds: the files parsed for comparison

\* What ingest is called with: a stamp is the instant and the content, which
\* the fingerprint is made of.
Uploaded(chat, uploader, order, zone, file) ==
  LET parsed == ParseExport(file, order, zone).messages IN
  [chat |-> chat, uploader |-> uploader, order |-> order, zone |-> zone, file |-> file,
   lines |-> [i \in DOMAIN parsed |->
     [stamp |-> <<parsed[i].timestamp, parsed[i].content>>, sender |-> parsed[i].sender]]]

ASSUME UploadsAssumption ==
  \A e \in Export :
    /\ e.file \in Seq(Line)
    /\ e = Uploaded(e.chat, e.uploader, e.order, e.zone, e.file)

ASSUME SampleAssumption == SampleLine \subseteq Line /\ SampleLength \in Nat

-----------------------------------------------------------------------------
(* Properties *)

\* Is the line a message, at an instant there is?
Begins(line, order, zone) ==
  IsHeader(line, order) /\ InstantOf(line, order, zone) # Unreadable

Starts(file, order, zone) == {i \in DOMAIN file : Begins(file[i], order, zone)}

\* The lines that belong to the message above them at i: those that look like no
\* message, up to the next one.
Below(file, order, zone, i) ==
  {l \in (i + 1)..Len(file) :
     ~IsHeader(file[l], order) /\ \A j \in (i + 1)..l : ~Begins(file[j], order, zone)}

\* A content that is the message at line i, whole: its text, then the lines below
\* in their order.
ReadsAs(content, file, order, zone, i) ==
  LET below == Below(file, order, zone, i) IN
  /\ Len(content) = 1 + Cardinality(below)
  /\ content[1] = <<file[i].text>>
  /\ \A l \in below : content[1 + Cardinality({k \in below : k <= l})] = Whole(file[l])

\* The row tells of the message that starts at line i of e.
TellsOf(m, e, i) ==
  /\ m.chat = e.chat
  /\ m.stamp[1] = InstantOf(e.file[i], e.order, e.zone)
  /\ ReadsAs(m.stamp[2], e.file, e.order, e.zone, i)

\* What is stored is what the files show: every message of an export that went
\* through, whole and at its instant, and nothing that no export shows.
StoredAsWritten ==
  /\ \A e \in finished : \A i \in Starts(e.file, e.order, e.zone) :
       \E m \in messages : TellsOf(m, e, i)
  /\ \A m \in messages :
       \E e \in Export : \E i \in Starts(e.file, e.order, e.zone) : TellsOf(m, e, i)

SampleFiles == UNION {[1..n -> SampleLine] : n \in 1..SampleLength}

\* An export cut off at a message reads like the end of the whole one, and spans
\* no more of the chat.
TailReadsAlike(file, order, zone, k) ==
  LET whole == ParseExport(file, order, zone)
      tail == ParseExport(SubSeq(file, k, Len(file)), order, zone) IN
  /\ IsSuffix(tail.messages, whole.messages)
  /\ IsSuffix(tail.events, whole.events)
  /\ DateRange(whole)[1] <= DateRange(tail)[1]
  /\ DateRange(tail)[2] <= DateRange(whole)[2]

\* What overlapping exports of a chat have in common is parsed alike, whatever
\* comes before it.  Compared once, before anything is stored.
OverlapParsedAlike ==
  upload = [e \in Export |-> NoUpload] /\ tables = <<{}, {}>> =>
  \A file \in SampleFiles, zone \in {e.zone : e \in Export}, order \in {e.order : e \in Export} :
    \A k \in Starts(file, order, zone) : TailReadsAlike(file, order, zone, k)

=============================================================================
