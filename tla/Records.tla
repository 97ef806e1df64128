------------------------------- MODULE Records -------------------------------
(***************************************************************************)
(* Stored summaries: saved and sent on by DeliveryService of               *)
(* host/src/delivery.rs, kept by repository/src/summary_store.rs, managed  *)
(* through the handlers of api/src/summaries.rs.                           *)
(*                                                                         *)
(* A publication is one call of deliver: its record is saved in one        *)
(* transaction, then each destination is tried in turn, once.  The process *)
(* may die anywhere; the caller may publish the same record again.  API    *)
(* requests check what their token grants, then wait for the lock on the   *)
(* repository and hold it to their end.                                    *)
(***************************************************************************)
EXTENDS Extraction, FiniteSets

CONSTANTS
  Publication,      \* what is published: id, workspace, the answer it is made of, destinations
  Capabilities,     \* what a workspace can deliver to: connected, enabled, configured
  Deliverers,       \* destination kinds with a registered deliverer
  Client, Grants,   \* Grants[c]: the workspaces c's access token authorizes
  Ops, Tags, Pages, \* what clients ask for, the tag lists they put, the pages they list
  DemoIds,          \* ids demo summaries get: instants of the clock
  NoClient, NoReport, Rejected,
  MaxRuns, MaxFaults, MaxChanges   \* bounds

Ids == {p.id : p \in Publication}
Workspaces == {p.workspace : p \in Publication}

\* An entry of a list is the sequence of its lines.
Answers ==
  [text : STRING, key_points : Seq(Seq(STRING)), technical_terms : Seq(Seq(STRING)),
   participants : Seq(Seq(STRING)), action_items : Seq(STRING), citations : Seq(Nat)]

Kinds == {"dashboard", "platform_channel", "platform_dm", "email", "webhook"}

ASSUME RecordsConstants ==
  /\ Grants \in [Client -> SUBSET Workspaces]
  /\ NoClient \notin Client
  /\ Ops \subseteq {"get", "pin", "unpin", "archive", "unarchive", "tag", "create", "list"}
  /\ Pages \subseteq [archived : BOOLEAN, limit : Nat]
  /\ \A p \in Publication :
       /\ p.created \in Nat /\ p.raw \in Answers /\ p.messages \in Seq(STRING)
       /\ p.destinations \in Seq([kind : Kinds, platform : STRING, address : STRING])
  /\ Tags \subseteq Seq(Seq(STRING))
  /\ Rejected \notin {"stored", "delivered", "failed"}
  /\ DemoIds \subseteq Nat
  /\ \A p \in Publication : Problem(p.raw, p.finish, p.messages) \in
       {"none", "truncated", "filtered", "empty", "citation_out_of_range"}
  /\ MaxRuns \in Nat /\ MaxFaults \in Nat /\ MaxChanges \in Nat

VARIABLES
  rows,          \* summary_records
  children,      \* summary_action_items and summary_citations, by summary and index
  publishing,    \* publishing[p]: where the call that publishes p is
  lock,          \* which request holds the repository
  request,       \* request[c]
  runs, faults, changes,
  handed,        \* history, handed[p][i]: times destination i was handed p
  report,        \* history: the last report on p, and what its workspace could deliver to
  answer         \* history: what a client asked for last, and the record it was shown

bounds == <<runs, faults, changes>>
vars == <<rows, children, publishing, lock, request, bounds, handed, report, answer>>

-----------------------------------------------------------------------------
(* Gating *)

NeedsPlatform(kind) == kind \in {"platform_channel", "platform_dm"}

Decide(dest, caps) ==
  CASE dest.kind = "dashboard" -> "allowed"
    [] dest.kind # "dashboard" /\ dest.kind \notin caps.enabled -> "not_enabled"
    [] OTHER ->
         IF NeedsPlatform(dest.kind) /\ dest.platform = "" THEN "platform_missing"
         ELSE IF NeedsPlatform(dest.kind) /\ dest.platform \notin caps.connected
         THEN "platform_not_connected"
         ELSE IF ~NeedsPlatform(dest.kind) /\ dest.kind \notin caps.configured
         THEN "not_configured"
         ELSE IF dest.address = "" THEN "missing_address"
         ELSE "allowed"

\* What the dashboard offers.
VisibleKinds(caps) ==
  {"dashboard"}
  \union {k \in {"platform_channel", "platform_dm"} : caps.connected # {} /\ k \in caps.enabled}
  \union ({"email", "webhook"} \intersect caps.enabled \intersect caps.configured)

-----------------------------------------------------------------------------
(* The store *)

\* A record as it is written: lists in one column each, the rest in children.
ListFields == {"key_points", "technical_terms", "participants"}

RowOf(id, workspace, created, summary) ==
  [id |-> id, workspace |-> workspace, created |-> created, text |-> summary.text,
   lists |-> [f \in ListFields |-> Join(summary[f])],
   pinned |-> FALSE, archived |-> FALSE, tags |-> Join(<<>>)]

ChildrenOf(id, summary) ==
  UNION {{[id |-> id, kind |-> k, idx |-> i, value |-> summary[k][i]] : i \in DOMAIN summary[k]} :
           k \in {"action_items", "citations"}}

InOrder(id, kind) ==
  LET mine == {k \in children : k.id = id /\ k.kind = kind} IN
  [i \in 1..Cardinality(mine) |-> (CHOOSE k \in mine : k.idx = i).value]

\* get_record, of a row found by id and workspace.
SummaryOf(row) ==
  [text |-> row.text,
   key_points |-> Split(row.lists.key_points),
   technical_terms |-> Split(row.lists.technical_terms),
   participants |-> Split(row.lists.participants),
   action_items |-> InOrder(row.id, "action_items"),
   citations |-> InOrder(row.id, "citations")]

\* What clients are shown of a record: all but its workspace.
SummaryDto(row) ==
  [id |-> row.id, created |-> row.created, pinned |-> row.pinned, archived |-> row.archived,
   tags |-> Split(row.tags), summary |-> SummaryOf(row)]

\* list_records: pinned first, then newest; which of two equals comes first is open.
Ordered(r, s) == IF r.pinned = s.pinned THEN r.created >= s.created ELSE r.pinned

Listings(w, page) ==
  LET mine == {r \in rows : r.workspace = w /\ (page.archived \/ ~r.archived)}
      sorted == {q \in SetToSeqs(mine) : \A i, j \in DOMAIN q : i < j => Ordered(q[i], q[j])} IN
  {SubSeq(q, 1, IF page.limit < Len(q) THEN page.limit ELSE Len(q)) : q \in sorted}

Taken(id) == \E r \in rows : r.id = id

InWorkspace(id, w) == {r \in rows : r.id = id /\ r.workspace = w}

-----------------------------------------------------------------------------

Resting == [pc |-> "idle", next |-> 1, results |-> <<>>, caps |-> {}]
Everything == [archived |-> TRUE, limit |-> 500]
Silent == [pc |-> "idle", op |-> "get", workspace |-> "", id |-> 0, tags |-> <<>>,
           page |-> Everything]

SummaryMade(p) == Resolve(p.raw, p.messages)

Init ==
  /\ rows = {} /\ children = {}
  /\ publishing = [p \in Publication |-> Resting]
  /\ lock = NoClient
  /\ request = [c \in Client |-> Silent]
  /\ runs = 0 /\ faults = 0 /\ changes = 0
  /\ handed = [p \in Publication |-> [i \in DOMAIN p.destinations |-> 0]]
  /\ report = [p \in Publication |-> NoReport]
  /\ answer = [c \in Client |-> NoReport]

store == <<rows, children>>
clients == <<lock, request, answer>>

\* The pipeline made a summary of the answer, and deliver is called with it.
Publish(p) ==
  /\ publishing[p].pc = "idle"
  /\ runs < MaxRuns
  /\ Problem(p.raw, p.finish, p.messages) = "none"
  /\ runs' = runs + 1
  /\ \E caps \in Capabilities :
       publishing' = [publishing EXCEPT ![p] = [Resting EXCEPT !.pc = "saving", !.caps = caps]]
  /\ UNCHANGED <<store, clients, faults, changes, handed, report>>

\* Variants of SaveRecord: statement by statement, any of which may be the last;
\* a record that is there already is no reason to stop.
SaveRecordTorn(p) ==
  /\ publishing[p].pc = "saving"
  /\ ~Taken(p.id)
  /\ rows' = rows \union {RowOf(p.id, p.workspace, p.created, SummaryMade(p))}
  /\ \E n \in 0..MaxFaults :
       children' = children \union {k \in ChildrenOf(p.id, SummaryMade(p)) : n = 0 \/ k.idx < n}
  /\ publishing' = [publishing EXCEPT ![p].pc = "sending", ![p].results = <<"stored">>]
  /\ UNCHANGED <<clients, bounds, handed, report>>

SaveRecordOrIgnore(p) ==
  /\ publishing[p].pc = "saving"
  /\ IF Taken(p.id) THEN UNCHANGED store
     ELSE /\ rows' = rows \union {RowOf(p.id, p.workspace, p.created, SummaryMade(p))}
          /\ children' = children \union ChildrenOf(p.id, SummaryMade(p))
  /\ publishing' = [publishing EXCEPT ![p].pc = "sending", ![p].results = <<"stored">>]
  /\ UNCHANGED <<clients, bounds, handed, report>>

\* save_record: one transaction, which the primary key refuses when the id is
\* taken; the error ends the call before anything is sent.
SaveRecord(p) ==
  /\ publishing[p].pc = "saving"
  /\ IF Taken(p.id)
     THEN /\ publishing' = [publishing EXCEPT ![p] = Resting]
          /\ UNCHANGED store
     ELSE /\ rows' = rows \union {RowOf(p.id, p.workspace, p.created, SummaryMade(p))}
          /\ children' = children \union ChildrenOf(p.id, SummaryMade(p))
          /\ publishing' = [publishing EXCEPT ![p].pc = "sending", ![p].results = <<"stored">>]
  /\ UNCHANGED <<clients, bounds, handed, report>>

\* A statement or the commit fails: the transaction is rolled back.
SaveFails(p) ==
  /\ publishing[p].pc = "saving"
  /\ faults < MaxFaults
  /\ faults' = faults + 1
  /\ publishing' = [publishing EXCEPT ![p] = Resting]
  /\ UNCHANGED <<store, clients, runs, changes, handed, report>>

\* On to the next destination with what became of this one.
Outcome(p, results) ==
  publishing' = [publishing EXCEPT ![p].next = @ + 1, ![p].results = @ \o results]

Dest(p) == p.destinations[publishing[p].next]

Sending(p) == publishing[p].pc = "sending" /\ publishing[p].next <= Len(p.destinations)

SkipDashboard(p) ==
  /\ Sending(p)
  /\ Dest(p).kind = "dashboard"
  /\ Outcome(p, <<>>)
  /\ UNCHANGED <<store, clients, bounds, handed, report>>

Refuse(p) ==
  /\ Sending(p)
  /\ Decide(Dest(p), publishing[p].caps) # "allowed"
  /\ Outcome(p, <<Rejected>>)
  /\ UNCHANGED <<store, clients, bounds, handed, report>>

\* Variant of Dispatch: a transport's error ends the call.
DispatchOrStop(p) ==
  /\ Sending(p)
  /\ Dest(p).kind # "dashboard"
  /\ Decide(Dest(p), publishing[p].caps) = "allowed"
  /\ \/ Outcome(p, <<"delivered">>)
     \/ publishing' = [publishing EXCEPT ![p].next = Len(p.destinations) + 1,
                                         ![p].results = @ \o <<"failed">>]
  /\ handed' = [handed EXCEPT ![p][publishing[p].next] = @ + 1]
  /\ UNCHANGED <<store, clients, bounds, report>>

\* The first deliverer of the kind is handed the text; an error is an outcome.
Dispatch(p) ==
  /\ Sending(p)
  /\ Dest(p).kind # "dashboard"
  /\ Decide(Dest(p), publishing[p].caps) = "allowed"
  /\ IF Dest(p).kind \in Deliverers
     THEN /\ handed' = [handed EXCEPT ![p][publishing[p].next] = @ + 1]
          /\ \E result \in {"delivered", "failed"} : Outcome(p, <<result>>)
     ELSE /\ Outcome(p, <<"failed">>)
          /\ UNCHANGED handed
  /\ UNCHANGED <<store, clients, bounds, report>>

Report(p) ==
  /\ publishing[p].pc = "sending"
  /\ publishing[p].next > Len(p.destinations)
  /\ report' = [report EXCEPT ![p] =
       [results |-> publishing[p].results, caps |-> publishing[p].caps]]
  /\ publishing' = [publishing EXCEPT ![p] = Resting]
  /\ UNCHANGED <<store, clients, bounds, handed>>

-----------------------------------------------------------------------------
(* Requests *)

RequireWorkspace(c, w) == w \in Grants[c]

\* The token is checked, and then the lock waited for.
Ask(c) ==
  /\ request[c].pc = "idle"
  /\ changes < MaxChanges
  /\ changes' = changes + 1
  /\ \E op \in Ops, w \in Workspaces :
       /\ RequireWorkspace(c, w)
       /\ \E id \in CASE op = "create" -> DemoIds [] op = "list" -> {0} [] OTHER -> Ids,
             tags \in IF op = "tag" THEN Tags ELSE {<<>>},
             page \in IF op = "list" THEN Pages ELSE {Everything} :
            request' = [request EXCEPT ![c] =
              [pc |-> "queued", op |-> op, workspace |-> w, id |-> id, tags |-> tags,
               page |-> page]]
  /\ UNCHANGED <<store, publishing, lock, runs, faults, handed, report, answer>>

\* Variant of Holding: every request has a connection of its own.
HoldingOwn(c) == request[c].pc # "idle"

Holding(c) == request[c].pc # "idle" /\ lock = c

Enter(c) ==
  /\ request[c].pc = "queued"
  /\ lock = NoClient
  /\ lock' = c
  /\ UNCHANGED <<store, publishing, request, bounds, handed, report, answer>>

\* What the statement of each operation writes.
Changed(row, op, tags) ==
  CASE op = "pin"       -> [row EXCEPT !.pinned = TRUE]
    [] op = "unpin"     -> [row EXCEPT !.pinned = FALSE]
    [] op = "archive"   -> [row EXCEPT !.archived = TRUE]
    [] op = "unarchive" -> [row EXCEPT !.archived = FALSE]
    [] op = "tag"       -> [row EXCEPT !.tags = Join(tags)]
    [] OTHER            -> row

\* The end of a request: the lock goes with it.
Leave(c) == lock' = NoClient /\ request' = [request EXCEPT ![c] = Silent]

\* Variant of Update: the row is found by its id.
UpdateAnywhere(c) ==
  LET r == request[c]
      mine == {row \in rows : row.id = r.id} IN
  /\ Holding(c) /\ r.pc = "queued" /\ r.op \notin {"create", "list"}
  /\ rows' = (rows \ mine) \union {Changed(row, r.op, r.tags) : row \in mine}
  /\ IF mine = {} THEN Leave(c)
     ELSE request' = [request EXCEPT ![c].pc = "reloading"] /\ UNCHANGED lock
  /\ UNCHANGED <<children, publishing, bounds, handed, report, answer>>

\* No row changed: not found.
Update(c) ==
  LET r == request[c]
      mine == InWorkspace(r.id, r.workspace) IN
  /\ Holding(c) /\ r.pc = "queued" /\ r.op \notin {"create", "list"}
  /\ rows' = (rows \ mine) \union {Changed(row, r.op, r.tags) : row \in mine}
  /\ IF mine = {} THEN Leave(c)
     ELSE request' = [request EXCEPT ![c].pc = "reloading"] /\ UNCHANGED lock
  /\ UNCHANGED <<children, publishing, bounds, handed, report, answer>>

Respond(c, records) ==
  answer' = [answer EXCEPT ![c] =
    [asked |-> request[c], shown |-> [i \in DOMAIN records |-> SummaryDto(records[i])]]]

\* reload, or not found if the record has vanished.
Reload(c) ==
  LET r == request[c] IN
  /\ Holding(c) /\ r.pc = "reloading"
  /\ IF InWorkspace(r.id, r.workspace) = {} THEN UNCHANGED answer
     ELSE \E row \in InWorkspace(r.id, r.workspace) : Respond(c, <<row>>)
  /\ Leave(c)
  /\ UNCHANGED <<store, publishing, bounds, handed, report>>

ListSummaries(c) ==
  LET r == request[c] IN
  /\ Holding(c) /\ r.pc = "queued" /\ r.op = "list"
  /\ \E records \in Listings(r.workspace, r.page) : Respond(c, records)
  /\ Leave(c)
  /\ UNCHANGED <<store, publishing, bounds, handed, report>>

\* What the demo summarizer makes is text and nothing else.
DemoText == "demo"
DemoSummary ==
  [text |-> DemoText, key_points |-> <<>>, technical_terms |-> <<>>, participants |-> <<>>,
   action_items |-> <<>>, citations |-> <<>>]

\* create_summary: the id is taken from the clock, and may have been taken by
\* another request in the same instant.
Create(c) ==
  LET r == request[c]
      made == RowOf(r.id, r.workspace, r.id, DemoSummary) IN
  /\ Holding(c) /\ r.pc = "queued" /\ r.op = "create"
  /\ IF Taken(r.id) THEN UNCHANGED <<rows, answer>>
     ELSE rows' = rows \union {made} /\ Respond(c, <<made>>)
  /\ Leave(c)
  /\ UNCHANGED <<children, publishing, bounds, handed, report>>

\* A statement of a request fails, and what it wrote before stays.
RequestFails(c) ==
  /\ Holding(c)
  /\ faults < MaxFaults
  /\ faults' = faults + 1
  /\ Leave(c)
  /\ UNCHANGED <<store, publishing, runs, changes, handed, report, answer>>

\* The process dies: what is stored stays, what was sent is not known.
Crash ==
  /\ faults < MaxFaults
  /\ faults' = faults + 1
  /\ publishing' = [p \in Publication |-> Resting]
  /\ request' = [c \in Client |-> Silent]
  /\ lock' = NoClient
  /\ UNCHANGED <<store, runs, changes, handed, report, answer>>

Next ==
  \/ \E p \in Publication :
       \/ Publish(p) \/ SaveRecord(p) \/ SaveFails(p)
       \/ SkipDashboard(p) \/ Refuse(p) \/ Dispatch(p) \/ Report(p)
  \/ \E c \in Client :
       \/ Ask(c) \/ Enter(c) \/ RequestFails(c)
       \/ Update(c) \/ Reload(c) \/ ListSummaries(c) \/ Create(c)
  \/ Crash

Spec == Init /\ [][Next]_vars

-----------------------------------------------------------------------------
(* Properties *)

\* The summary p made, as the store can keep it.
StoredFor(p, row) ==
  /\ row.id = p.id /\ row.workspace = p.workspace /\ row.created = p.created
  /\ row.text = SummaryMade(p).text
  /\ \A f \in ListFields : row.lists[f] = Join(SummaryMade(p)[f])
  /\ {k \in children : k.id = p.id} = ChildrenOf(p.id, SummaryMade(p))

\* Every record is a demo with nothing beside it, or has all the action items and
\* citations of the accepted summary it was made of, in order and naming the
\* messages cited; no id is used twice, and nothing is stored beside no record.
StoredWhole ==
  /\ \A r, s \in rows : r.id = s.id => r = s
  /\ \A k \in children : Taken(k.id)
  /\ \A r \in rows :
       \/ r.text = DemoText /\ ~\E k \in children : k.id = r.id
       \/ \E p \in Publication :
            Problem(p.raw, p.finish, p.messages) = "none" /\ StoredFor(p, r)

Formats == {"markdown", "plain"}

\* Where the store takes for granted that entries do not break lines: of every list
\* no line is lost but blank ones, and each line is read back as an entry, so that a
\* list is read as it was made exactly if its entries are lines, and not blank; and a
\* rendering of such lists reads as if it were rendered of what was made.
ReadsBack ==
  \A p \in Publication, r \in rows :
    Problem(p.raw, p.finish, p.messages) = "none" /\ StoredFor(p, r) =>
      LET made == SummaryMade(p)
          read == SummaryOf(r) IN
      /\ \A f \in ListFields :
           /\ Join(read[f]) = Nonblank(Join(made[f])) /\ Joinable(read[f])
           /\ read[f] = made[f] <=> Joinable(made[f])
      /\ \A format \in Formats :
           (\A f \in ListFields \intersect Sections(format) : Joinable(made[f])) =>
             Render(read, format) = Render(made, format)

\* Records are whole, and read back as what they were made of as far as a column
\* keeps it, whatever failed, died or was repeated.
WholeRecords == StoredWhole /\ ReadsBack

\* Nothing is sent that is not on the dashboard, and no destination is handed a
\* summary twice, however often it is published and wherever the process dies.
SentOnceAfterSaved ==
  \A p \in Publication : \A i \in DOMAIN p.destinations :
    /\ handed[p][i] <= 1
    /\ handed[p][i] = 1 => \E r \in rows : StoredFor(p, r)

\* The place of destination i in a report on p: after the dashboard's, which comes
\* first whether it is asked for or not.
Place(p, i) == 1 + Cardinality({j \in 1..i : p.destinations[j].kind # "dashboard"})

\* A report accounts for every destination: one that fails or is refused does
\* not cost another its turn, what is reported delivered was handed over, and
\* what the dashboard hides was not.
HonestReport ==
  \A p \in Publication : report[p] # NoReport =>
    LET told(i) == report[p].results[Place(p, i)] IN
    /\ Len(report[p].results) = Place(p, Len(p.destinations))
    /\ \A i \in DOMAIN p.destinations : p.destinations[i].kind # "dashboard" =>
         /\ told(i) = "delivered" =>
              handed[p][i] = 1 /\ p.destinations[i].kind \in VisibleKinds(report[p].caps)
         /\ told(i) = Rejected => handed[p][i] = 0
         /\ told(i) = "failed" =>
              (handed[p][i] = 1) = (p.destinations[i].kind \in Deliverers)

\* A stored record changes only under the lock of a request of a client whose
\* token covers the record's workspace, in what that request asks for; and no
\* record ever goes.
ChangesStayHome ==
  [][\A r \in rows : \E s \in rows' :
       /\ s.id = r.id
       /\ s = r \/ \E c \in Client :
                     /\ lock = c
                     /\ r.workspace \in Grants[c]
                     /\ request[c].id = r.id
                     /\ s = Changed(r, request[c].op, request[c].tags)]_vars

\* What a client sees of the change it asked for.
Shows(dto, asked) ==
  CASE asked.op = "pin"       -> dto.pinned
    [] asked.op = "unpin"     -> ~dto.pinned
    [] asked.op = "archive"   -> dto.archived
    [] asked.op = "unarchive" -> ~dto.archived
    [] asked.op = "tag"       ->
         Join(dto.tags) = Nonblank(Join(asked.tags))
    [] asked.op = "list"      -> dto.archived => asked.page.archived
    [] OTHER                  -> TRUE

\* A client that is answered is shown records of a workspace of its own, whole,
\* with the change it asked for, none twice, pinned before others and newer before
\* older, however requests overlap.
AnswersShowChange ==
  \A c \in Client : answer[c] # NoReport =>
    LET asked == answer[c].asked
        shown == answer[c].shown IN
    /\ Len(shown) <= asked.page.limit
    /\ \A i \in DOMAIN shown :
         /\ Shows(shown[i], asked)
         /\ \E r \in rows :
              /\ r.id = shown[i].id
              /\ r.workspace \in Grants[c]
              /\ shown[i].summary = SummaryOf(r)
    /\ \A i, j \in DOMAIN shown : i < j =>
         /\ shown[i].id # shown[j].id
         /\ shown[j].pinned => shown[i].pinned
         /\ shown[i].pinned = shown[j].pinned => shown[i].created >= shown[j].created

=============================================================================
