------------------------------ MODULE MCRecords ------------------------------
(* Instance of Records for model checking. *)
EXTENDS Records

Made(text, points, cites) ==
  [text |-> text, key_points |-> points, technical_terms |-> <<>>, participants |-> <<<<"ann">>>>,
   action_items |-> <<"do">>, citations |-> cites]

Channel(platform) == [kind |-> "platform_channel", platform |-> platform, address |-> "general"]
Webhook(address) == [kind |-> "webhook", platform |-> "", address |-> address]
Dashboard == [kind |-> "dashboard", platform |-> "", address |-> ""]

\* No deliverer for webhooks.
Digest ==
  [id |-> 1, workspace |-> "w1", created |-> 2, finish |-> "stop", messages |-> <<"m0", "m1">>,
   raw |-> Made("digest", <<<<"one", "two">>, <<"", "three">>>>, <<1, 0>>),
   destinations |-> <<Dashboard, Channel("discord"), Webhook("url")>>]

\* The same id from another workspace, a webhook without an address, mail not enabled.
Clash ==
  [id |-> 1, workspace |-> "w2", created |-> 3, finish |-> "other", messages |-> <<"m2">>,
   raw |-> Made("", <<<<"four">>>>, <<0>>),
   destinations |-> <<Webhook(""), [kind |-> "email", platform |-> "", address |-> "a@b"]>>]

\* Cites a message that is not there.
Ungrounded == [Digest EXCEPT !.raw.citations = <<2>>]

\* A second record of a workspace, older than the first; a platform not connected;
\* only its terms, which plain text leaves out, do not outlast the store.
Earlier ==
  [Digest EXCEPT !.id = 2, !.created = 1, !.destinations = <<Channel("slack")>>,
                 !.raw.key_points = <<<<"one">>>>, !.raw.technical_terms = <<<<"two", "">>>>]

Publication_ == {Digest, Clash, Ungrounded, Earlier}

Capabilities_ ==
  {[connected |-> {"discord"}, enabled |-> {"platform_channel", "webhook"},
    configured |-> {"webhook"}]}

Grants_ == [c \in Client |-> IF c = "c1" THEN {"w1"} ELSE {"w1", "w2"}]
Ops_ == {"pin", "unpin", "archive", "tag", "create", "list"}
Pages_ == {[archived |-> FALSE, limit |-> 2]}
Tags_ == {<<<<"red">>, <<"blue", "", "green">>>>}
=============================================================================
