-------------------------- MODULE MCWhatsAppImport --------------------------
\* Values for checking Uploads: a family chat exported by Bob, by Carol and by
\* Dan, who have each other's names or numbers, and a work chat that Carol's
\* contact is in too.  Months have two days, an hour has two ticks; at home clocks
\* go forward on 1 February at one o'clock and back on 1 March at half past two.
EXTENDS Uploads

You == [kind |-> "you", text |-> ""]
Nobody == [kind |-> "system", text |-> ""]
Named(name) == [kind |-> "name", text |-> name]
Number(number) == [kind |-> "phone", text |-> number]

MCMonthStart(month) == 2 * (month - 1)
MCOffset(zone, t) == IF zone = "abroad" THEN 4 ELSE IF t \in 98..194 THEN 2 ELSE 0

Stamped(open, numbers, hour, half, second, sender, text) ==
  [open |-> open, numbers |-> numbers, hour |-> hour, half |-> half, second |-> second,
   sender |-> sender, text |-> text]
Plain(text) == Stamped("plain", <<0, 0>>, 0, "", 0, Nobody, text)

BobsExport == Uploaded("family", "bob", "dmy", "home",
  <<Stamped("android", <<2, 1>>, 12, "", 0, Nobody, "created group"),
    Stamped("android", <<2, 1>>, 13, "", 0, Named("Alice"), "hello"), Plain("all"),
    Stamped("android", <<1, 2>>, 1, "", 0, Named("Alice"), "never shown"),
    Stamped("android", <<1, 2>>, 3, "", 0, You, "hi")>>)
CarolsExport == Uploaded("family", "carol", "mdy", "abroad",
  <<Plain("cut off"),
    Stamped("ios", <<1, 2>>, 3, "pm", 0, Named("Alice"), "hello"), Plain("all"),
    Stamped("ios", <<2, 1>>, 4, "am", 0, Number("+44"), "hi")>>)
DansExport == Uploaded("family", "dan", "dmy", "home",
  <<Stamped("ios", <<2, 1>>, 1, "pm", 0, Named("Alice"), "hello"), Plain("all"),
    Stamped("ios", <<1, 2>>, 3, "am", 0, Number("+44"), "hi")>>)
WorkExport == Uploaded("work", "erin", "dmy", "home",
  <<Stamped("ios", <<1, 3>>, 1, "pm", 1, Number("+44"), "minutes"),
    Stamped("ios", <<2, 3>>, 12, "am", 0, You, "thanks")>>)

AllExports == {BobsExport, CarolsExport, DansExport, WorkExport}
TwoChats == {CarolsExport, WorkExport}

\* A message, one shown an hour earlier, one in the gap, one in the overlap, a
\* group's beginning, a line of text, and a stamp with no such date.
MCSampleLine ==
  {Stamped("ios", <<1, 2>>, 12, "am", 1, Named("Alice"), "one"),
   Stamped("ios", <<1, 2>>, 11, "pm", 0, Named("Alice"), "two"),
   Stamped("android", <<1, 2>>, 1, "", 0, Named("Alice"), "gap"),
   Stamped("android", <<1, 3>>, 1, "", 1, Number("+44"), "omitted"),
   Stamped("android", <<2, 1>>, 12, "pm", 0, Nobody, "created group"),
   Plain("omitted"),
   Stamped("android", <<13, 13>>, 1, "", 0, Named("Bob"), "no date")}

=============================================================================
