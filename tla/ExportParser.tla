---------------------------- MODULE ExportParser ----------------------------
(***************************************************************************)
(* parse_export of domain/src/whatsapp/mod.rs, with the stamps of          *)
(* domain/src/whatsapp/datetime.rs: what an uploaded chat export is read   *)
(* as, given the date order and the time zone its uploader declares.       *)
(*                                                                         *)
(* A line of a file is a record: how it opens ("ios", "android", or        *)
(* "plain" when not like a header), the numbers of its stamp, its sender   *)
(* and its text.  Texts are opaque, a content is the sequence of its lines,*)
(* and instants are counted in ticks, TicksPerHour to the hour.            *)
(***************************************************************************)
EXTENDS Integers, Sequences, SequencesExt

CONSTANTS
  MonthStart(_),          \* the days of a year before a month; month 13 is after it
  Offset(_, _),           \* what a zone's clocks add to an instant
  MaxOffset,              \* the largest of them
  TicksPerHour,
  CreatedTexts, JoinedTexts, MediaTexts   \* what classify_event and is_media look for

\* No header, or one at no instant.
Unreadable == -1000

Line ==
  [open : {"ios", "android", "plain"}, numbers : Nat \X Nat, hour : Nat,
   half : {"", "am", "pm"}, second : Nat, sender : [kind : STRING, text : STRING],
   text : STRING]

ASSUME ParserConstants ==
  /\ \A month \in 1..12 : MonthStart(month) \in Nat /\ MonthStart(month) < MonthStart(month + 1)
  /\ TicksPerHour \in Nat
  /\ MaxOffset \in 0..999   \* so that no instant is Unreadable

DaysIn(month) == MonthStart(month + 1) - MonthStart(month)

DayAndMonth(numbers, order) ==
  IF order = "dmy" THEN numbers ELSE <<numbers[2], numbers[1]>>

Hour(hour, half) ==
  CASE half = "pm" /\ hour < 12 -> hour + 12
    [] half = "am" /\ hour = 12 -> 0
    [] OTHER                    -> hour

\* The wall clock, in ticks from the first of the first month; years are left out.
ParseStamp(line, order) ==
  LET date == DayAndMonth(line.numbers, order)
      hour == Hour(line.hour, line.half) IN
  IF date[2] \in 1..12 /\ date[1] \in 1..DaysIn(date[2]) /\ hour < 24
  THEN ((MonthStart(date[2]) + date[1] - 1) * 24 + hour) * TicksPerHour + line.second
  ELSE Unreadable

\* The earlier instant of an overlap, and none in a gap.
ToUtc(wall, zone) ==
  LET instants == {t \in (wall - MaxOffset)..(wall + MaxOffset) : t + Offset(zone, t) = wall} IN
  IF instants = {} THEN Unreadable ELSE Min(instants)

\* Does the line start a message?
IsHeader(line, order) ==
  line.open \in {"ios", "android"} /\ ParseStamp(line, order) # Unreadable

InstantOf(line, order, zone) == ToUtc(ParseStamp(line, order), zone)

ClassifyEvent(text) ==
  CASE text \in CreatedTexts                 -> <<"GroupCreated">>
    [] text \in JoinedTexts \ CreatedTexts   -> <<"MemberJoinedOrAdded">>
    [] OTHER                                 -> <<>>

IsMedia(content) == \E i \in DOMAIN content : content[i][Len(content[i])] \in MediaTexts

\* A line that does not start a message, as it reads: with what looked like a
\* stamp and was none.
Whole(line) == IF line.open = "plain" THEN <<line.text>> ELSE <<line.open, line.text>>

Empty == [format |-> "ios", messages |-> <<>>, events |-> <<>>]

Message(line, ts) ==
  [timestamp |-> ts, sender |-> line.sender, content |-> <<<<line.text>>>>,
   has_media |-> IsMedia(<<<<line.text>>>>)]

NewMessage(parsed, line, ts) ==
  LET kinds == IF line.sender.kind = "system" THEN ClassifyEvent(line.text) ELSE <<>> IN
  [format |-> line.open,
   messages |-> Append(parsed.messages, Message(line, ts)),
   events |-> parsed.events \o [i \in DOMAIN kinds |-> [kind |-> kinds[i], timestamp |-> ts]]]

Continued(message, line) ==
  LET content == Append(message.content, Whole(line)) IN
  [message EXCEPT !.content = content, !.has_media = @ \/ IsMedia(content)]

Continue(parsed, line) ==
  LET last == Len(parsed.messages) IN
  IF last = 0 THEN parsed
  ELSE [parsed EXCEPT !.messages[last] = Continued(@, line)]

\* Variants of ParseLine: a message older than the one before is left out; a
\* header the zone has no instant for is read as text.
ParseLineForward(parsed, line, order, zone) ==
  LET ts == InstantOf(line, order, zone)
      n == Len(parsed.messages) IN
  CASE ~IsHeader(line, order) -> Continue(parsed, line)
    [] IsHeader(line, order)
       /\ (ts = Unreadable \/ (n > 0 /\ ts < parsed.messages[n].timestamp)) -> parsed
    [] OTHER -> NewMessage(parsed, line, ts)

ParseLineKeepsGap(parsed, line, order, zone) ==
  LET ts == InstantOf(line, order, zone) IN
  IF ~IsHeader(line, order) \/ ts = Unreadable THEN Continue(parsed, line)
  ELSE NewMessage(parsed, line, ts)

\* A header without an instant is skipped, and the lines below it go to the
\* message above.
ParseLine(parsed, line, order, zone) ==
  LET ts == InstantOf(line, order, zone) IN
  CASE ~IsHeader(line, order)                      -> Continue(parsed, line)
    [] IsHeader(line, order) /\ ts = Unreadable    -> parsed
    [] IsHeader(line, order) /\ ts # Unreadable    -> NewMessage(parsed, line, ts)

ParseExport(file, order, zone) ==
  LET parsed[n \in 0..Len(file)] ==
        IF n = 0 THEN Empty ELSE ParseLine(parsed[n - 1], file[n], order, zone)
  IN  parsed[Len(file)]

\* compute_range, over messages and events.
DateRange(parsed) ==
  LET times == {parsed.messages[i].timestamp : i \in DOMAIN parsed.messages}
                 \union {parsed.events[i].timestamp : i \in DOMAIN parsed.events} IN
  IF times = {} THEN <<>> ELSE <<Min(times), Max(times)>>

=============================================================================
