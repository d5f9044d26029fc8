------------------------------ MODULE Workspace -----------------------------
(***************************************************************************)
(* What a customer's page shows of one session: the snapshots and read     *)
(* cursors of app/graph/service.py, the connections and broadcasts of      *)
(* app/realtime.py and app/api/ws.py, and the page itself, web/customer.js *)
(*                                                                         *)
(* A snapshot is the number of messages it has, whether some are unread,   *)
(* and where the read cursor is.  Every send to a web socket is an await:  *)
(* the coroutines of the server go on in any order between two of them.    *)
(* The page runs one handler at a time; it may lose its connection, be     *)
(* hidden, and show another session meanwhile.                             *)
(***************************************************************************)
EXTENDS Naturals, SequencesExt, FiniteSetsExt

CONSTANTS
  Pages,     \* open pages of customers
  Handlers,  \* coroutines of the server that store messages and tell the pages
  MaxMessages, MaxCloses, MaxSelects  \* bounds: messages, lost connections, switches

ASSUME BoundAssumption == {MaxMessages, MaxCloses, MaxSelects} \subseteq Nat

VARIABLES
  messages,  \* who sent each of the messages: "customer", or "sales" for the others
  cursor,    \* the read cursor of the customer viewer, the last message read
  conn,      \* the sockets the connection manager holds, <<page, number>>
  handler,   \* where each coroutine is, the endpoints of the sockets among them
  wire,      \* events on their way to the page
  requests,  \* the mark_read requests of each socket, by operation_id
  fetched,   \* answers of GET /customer/sessions/{id} on their way
  page,      \* the variables of each page
  announced, \* the messages of the newest snapshot of which a broadcast began
  closes, selects  \* how often each happened, for the bounds

bounds == <<closes, selects>>
vars == <<messages, cursor, conn, handler, wire, requests, fetched, page, announced, bounds>>
database == <<messages, cursor>>

Snapshot == [upto : Nat, unread : BOOLEAN, cursor : Nat]
NoSnapshot == [upto |-> 0, unread |-> FALSE, cursor |-> 0]
Sockets == Pages \X (1 .. MaxCloses + 1)

\* What a page is sent: snapshots, and the result of its mark_read.
Result == [type : {"operation_result"}, op : Nat]
Event == [type : {"session_updated"}, snapshot : Snapshot] \cup Result

\* Where a coroutine is: with "send", what it sends, to which sockets it has yet
\* to, which raised, and whom it answers then.
Coroutine == [step : {"idle", "stored", "send"}, snapshot : Snapshot,
              todo : SUBSET Sockets, dead : SUBSET Sockets, answers : SUBSET Result]

\* The variables of a page, for FirstPage.
Page == [socket : {"connecting", "open", "closed"}, number : 1 .. MaxCloses + 1,
         timer : BOOLEAN, watching : BOOLEAN, upto : Nat, unread : BOOLEAN, readTo : Nat,
         loaded : BOOLEAN, load : {"no", "first", "again"}, marking : {"no", "waits", "sent"},
         op : Nat, stale : BOOLEAN, unsent : BOOLEAN, unseen : BOOLEAN]

-----------------------------------------------------------------------------
(* The server.                                                             *)

\* _unread_count: what the sales side sent after the cursor.
IsUnread(i, c) == messages[i] = "sales" /\ i > c

\* _build_session_snapshot for the customer.
SnapshotAt(c) == [upto |-> Len(messages), cursor |-> c,
                  unread |-> \E i \in DOMAIN messages : IsUnread(i, c)]

\* save_read_cursor for the last message the customer may see.
Newest == Len(messages)

\* The page's own socket, while it is not lost.
Live(s) == page[s[1]].number = s[2] /\ page[s[1]].socket # "closed"

Coroutines == Handlers \cup Sockets
Idle == [step |-> "idle", snapshot |-> NoSnapshot, todo |-> {}, dead |-> {}, answers |-> {}]

\* A broadcast of a snapshot to the connections of now, and whom it answers.
Broadcasting(snapshot, answers) ==
  [step |-> "send", snapshot |-> snapshot, todo |-> conn, dead |-> {}, answers |-> answers]

\* A page that is not connected when a broadcast begins misses it.
Missing(pages) ==
  [p \in Pages |-> [pages[p] EXCEPT !.stale = @ \/ ~\E s \in conn : s[1] = p /\ Live(s)]]

\* A message of anybody is stored; the sales pages are told first.
Store(h, sender) ==
  /\ handler[h].step = "idle"
  /\ Len(messages) < MaxMessages
  /\ messages' = Append(messages, sender)
  /\ handler' = [handler EXCEPT ![h].step = "stored"]
  /\ UNCHANGED <<cursor, conn, wire, requests, fetched, page, announced, bounds>>

\* The endpoints under /chat that store messages tell no page.
StoreByRest(sender) ==
  /\ Len(messages) < MaxMessages
  /\ messages' = Append(messages, sender)
  /\ UNCHANGED <<cursor, conn, handler, wire, requests, fetched, page, announced, bounds>>

\* _broadcast_session_snapshots gets to the customers' pages.
Build(h) ==
  /\ handler[h].step = "stored"
  /\ handler' = [handler EXCEPT ![h] = Broadcasting(SnapshotAt(cursor), {})]
  /\ page' = Missing(page)
  /\ announced' = Len(messages)
  /\ UNCHANGED <<database, conn, wire, requests, fetched, bounds>>

\* A worker is cancelled after its message is stored, or a lost socket raises
\* what _broadcast_local does not catch: the sockets that are left are told
\* nothing, and none is dropped.  An endpoint answers nevertheless.
Abandon(h) ==
  /\ \/ h \in Handlers /\ handler[h].step # "idle"
     \/ \E s \in handler[h].todo : ~Live(s)
  /\ handler' = [handler EXCEPT ![h] = IF h \in Handlers THEN Idle
                                      ELSE [@ EXCEPT !.todo = {}, !.dead = {}]]
  /\ page' = [p \in Pages |->
                [page[p] EXCEPT !.stale = @ \/ \E s \in handler[h].todo : s[1] = p]]
  /\ UNCHANGED <<database, conn, wire, requests, fetched, announced, bounds>>

\* Mutant of SendTo: a socket that raises ends the broadcast.
SendToOrEnd(h, s) ==
  /\ handler[h].step = "send" /\ s \in handler[h].todo
  /\ IF Live(s)
     THEN /\ wire' = [wire EXCEPT ![s[1]] =
                        Append(@, [type |-> "session_updated", snapshot |-> handler[h].snapshot])]
          /\ handler' = [handler EXCEPT ![h].todo = @ \ {s}]
     ELSE /\ handler' = [handler EXCEPT ![h].todo = {}, ![h].dead = {s}]
          /\ UNCHANGED wire
  /\ UNCHANGED <<database, conn, requests, fetched, page, announced, bounds>>

\* _broadcast_local: the next socket; one that is gone may raise.
SendTo(h, s) ==
  /\ handler[h].step = "send" /\ s \in handler[h].todo
  /\ IF Live(s)
     THEN /\ wire' = [wire EXCEPT ![s[1]] =
                        Append(@, [type |-> "session_updated", snapshot |-> handler[h].snapshot])]
          /\ handler' = [handler EXCEPT ![h].todo = @ \ {s}]
     ELSE /\ \E raises \in SUBSET {s} :
               handler' = [handler EXCEPT ![h].todo = @ \ {s}, ![h].dead = @ \cup raises]
          /\ UNCHANGED wire
  /\ UNCHANGED <<database, conn, requests, fetched, page, announced, bounds>>

\* The broadcast is over: the sockets that raised are dropped, and an endpoint
\* answers the request.
SendDone(h) ==
  /\ handler[h].step = "send" /\ handler[h].todo = {}
  /\ conn' = conn \ handler[h].dead
  /\ wire' = IF h \in Sockets /\ Live(h)
             THEN [wire EXCEPT ![h[1]] = @ \o SetToSeq(handler[h].answers)] ELSE wire
  /\ handler' = [handler EXCEPT ![h] = Idle]
  /\ UNCHANGED <<database, requests, fetched, page, announced, bounds>>

\* _handle_mark_read: the cursor moves to the newest message, whatever the page
\* shows, and all customers' pages are told.
MarkRead(s) ==
  /\ s \in conn \/ ~Live(s)
  /\ handler[s].step = "idle" /\ requests[s] # <<>>
  /\ requests' = [requests EXCEPT ![s] = Tail(@)]
  /\ cursor' = Newest
  /\ handler' = [handler EXCEPT ![s] =
                   Broadcasting(SnapshotAt(cursor'),
                                {[type |-> "operation_result", op |-> Head(requests[s])]})]
  /\ page' = [Missing(page) EXCEPT ![s[1]].unsent = FALSE]
  /\ announced' = Len(messages)
  /\ UNCHANGED <<messages, conn, wire, fetched, bounds>>

\* POST /customer/sessions/{id}/read: no page is told.
MarkReadByRest ==
  /\ cursor # Newest
  /\ cursor' = Newest
  /\ UNCHANGED <<messages, conn, handler, wire, requests, fetched, page, announced, bounds>>

\* connect: the endpoint of an accepted socket registers it.
Register(s) ==
  /\ Live(s) /\ s \notin conn
  /\ conn' = conn \cup {s}
  /\ UNCHANGED <<database, handler, wire, requests, fetched, page, announced, bounds>>

\* The endpoint of a lost socket has no more requests and gets a WebSocketDisconnect.
Disconnect(s) ==
  /\ s \in conn /\ ~Live(s)
  /\ handler[s].step = "idle" /\ requests[s] = <<>>
  /\ conn' = conn \ {s}
  /\ UNCHANGED <<database, handler, wire, requests, fetched, page, announced, bounds>>

-----------------------------------------------------------------------------
(* The page.                                                               *)

\* connectRealtime.
Connecting(g) ==
  IF g.socket = "closed" THEN [g EXCEPT !.socket = "connecting", !.number = @ + 1] ELSE g

\* sendRealtime: at once, or when the socket is open.
Sending(g) ==
  IF g.socket = "open" THEN [g EXCEPT !.op = @ + 1, !.marking = "sent"]
  ELSE [Connecting(g) EXCEPT !.op = @ + 1, !.marking = "waits"]

\* Mutant of MarkSeen: only unread messages are marked, in the page.
MarkSeenInPage(g, p) == [g EXCEPT !.unread = FALSE, !.readTo = g.upto]

\* markSessionSeen: the page takes the session for read, and says so to the
\* server unless it is saying so already.
MarkSeen(g, p) ==
  IF ~g.unread /\ g.readTo = g.upto THEN g
  ELSE LET seen == [g EXCEPT !.unread = FALSE, !.readTo = g.upto]
       IN IF g.marking = "no" THEN Sending(seen)
          ELSE [seen EXCEPT !.unsent =
                  @ \/ (g.marking = "sent" /\ requests[<<p, g.number>>] = <<>> /\ g.upto > cursor)]

\* upsertSessionSnapshot and loadSessionDetail: the last to arrive is shown.
Shown(g, s) ==
  [g EXCEPT !.upto = s.upto, !.unread = s.unread, !.readTo = s.cursor, !.loaded = TRUE,
            !.stale = IF s.upto >= announced THEN FALSE ELSE @ \/ s.upto < g.upto]

\* renderActiveSession, when the session is the active one.
Rendered(g, p) == IF g.watching THEN MarkSeen(g, p) ELSE g

\* A page becomes g; a request it has just sent is on its way.
Becomes(p, g) ==
  /\ page' = [page EXCEPT ![p] = g]
  /\ requests' = IF g.marking = "sent" /\ (page[p].marking # "sent" \/ page[p].op # g.op)
                 THEN [requests EXCEPT ![<<p, g.number>>] = Append(@, g.op)] ELSE requests

\* The operation ends with its result.
Resolved(g, op) == IF g.marking = "sent" /\ g.op = op THEN [g EXCEPT !.marking = "no"] ELSE g

\* handleRealtimeEvent.
Receive(p) ==
  /\ page[p].socket = "open" /\ wire[p] # <<>>
  /\ LET event == Head(wire[p]) IN
       Becomes(p, IF event.type = "operation_result" THEN Resolved(page[p], event.op)
                  ELSE Rendered(Shown(page[p], event.snapshot), p))
  /\ wire' = [wire EXCEPT ![p] = Tail(@)]
  /\ UNCHANGED <<database, conn, handler, fetched, announced, bounds>>

\* The promise of sendRealtime is rejected, and the failure ignored.
MarkFails(g) == [g EXCEPT !.marking = "no", !.unsent = TRUE]

\* The timers of sendRealtime and waitForRealtimeOpen.
MarkTimesOut(p) ==
  /\ page[p].marking # "no"
  /\ page' = [page EXCEPT ![p] = MarkFails(@)]
  /\ UNCHANGED <<database, conn, handler, wire, requests, fetched, announced, bounds>>

\* The open event of the socket: who waits for it goes on.
Opened(p) ==
  /\ page[p].socket = "connecting"
  /\ LET g == [page[p] EXCEPT !.socket = "open"]
     IN Becomes(p, IF g.marking = "waits" THEN [g EXCEPT !.marking = "sent"] ELSE g)
  /\ UNCHANGED <<database, conn, handler, wire, fetched, announced, bounds>>

\* Mutant of Scheduled: a connection that never opened is not tried again.
ScheduledIfOpened(g, hidden) ==
  IF hidden \/ g.socket # "open" THEN [g EXCEPT !.unseen = hidden]
  ELSE [g EXCEPT !.timer = TRUE, !.unseen = FALSE]

\* scheduleRealtimeReconnect: not while the page is hidden, and nothing listens
\* for its being shown again.
Scheduled(g, hidden) ==
  IF hidden THEN [g EXCEPT !.unseen = TRUE] ELSE [g EXCEPT !.timer = TRUE, !.unseen = FALSE]

\* The close event: who waits for the socket is told, and what was on its way
\* is lost, perhaps with the requests.
Closed(p, hidden) ==
  /\ page[p].socket # "closed"
  /\ closes < MaxCloses
  /\ closes' = closes + 1
  /\ LET g == [Scheduled(page[p], hidden) EXCEPT !.socket = "closed", !.stale = TRUE]
     IN page' = [page EXCEPT ![p] = IF g.marking = "waits" THEN MarkFails(g) ELSE g]
  /\ wire' = [wire EXCEPT ![p] = <<>>]
  /\ LET s == <<p, page[p].number>> IN
       \E n \in 0 .. (IF s \in conn THEN Len(requests[s]) ELSE 0) :
          requests' = [requests EXCEPT ![s] = SubSeq(@, 1, n)]
  /\ UNCHANGED <<database, conn, handler, fetched, announced, selects>>

\* The timer of scheduleRealtimeReconnect.
Reconnect(p) ==
  /\ page[p].timer
  /\ page' = [page EXCEPT ![p] = Connecting([@ EXCEPT !.timer = FALSE])]
  /\ UNCHANGED <<database, conn, handler, wire, requests, fetched, announced, bounds>>

\* selectSession, of this session or of another: details the page does not have
\* yet are loaded.
Select(p) ==
  /\ selects < MaxSelects
  /\ selects' = selects + 1
  /\ LET g == [page[p] EXCEPT !.watching = ~@]
     IN Becomes(p, Rendered(IF g.watching /\ g.upto > 0 /\ ~g.loaded /\ g.load = "no"
                            THEN [g EXCEPT !.load = "again"] ELSE g, p))
  /\ UNCHANGED <<database, conn, handler, wire, fetched, announced, closes>>

\* GET /customer/sessions/{id}: the server answers.
Answer(p) ==
  /\ page[p].load # "no" /\ fetched[p] = NoSnapshot
  /\ fetched' = [fetched EXCEPT ![p] = SnapshotAt(cursor)]
  /\ UNCHANGED <<database, conn, handler, wire, requests, page, announced, bounds>>

\* loadSessionDetail goes on, and the page is rendered.
Loaded(p) ==
  /\ fetched[p] # NoSnapshot
  /\ Becomes(p, Rendered([Shown(page[p], fetched[p]) EXCEPT !.load = "no"], p))
  /\ fetched' = [fetched EXCEPT ![p] = NoSnapshot]
  /\ UNCHANGED <<database, conn, handler, wire, announced, bounds>>

\* The request fails; initializeApp then forgets all sessions.
LoadFails(p) ==
  /\ page[p].load # "no"
  /\ page' = [page EXCEPT ![p] =
                IF @.load = "again" THEN [@ EXCEPT !.load = "no"]
                ELSE [@ EXCEPT !.load = "no", !.loaded = FALSE, !.stale = TRUE,
                               !.upto = 0, !.unread = FALSE, !.readTo = 0]]
  /\ fetched' = [fetched EXCEPT ![p] = NoSnapshot]
  /\ UNCHANGED <<database, conn, handler, wire, requests, announced, bounds>>

-----------------------------------------------------------------------------

\* initializeApp has connected and loaded the list of sessions; the session is
\* the active one of the page, or another.
FirstPage(watching) ==
  [socket |-> "connecting", number |-> 1, timer |-> FALSE, watching |-> watching,
   upto |-> Len(messages), unread |-> messages # <<>>, readTo |-> 0, loaded |-> FALSE,
   load |-> IF watching /\ messages # <<>> THEN "first" ELSE "no",
   marking |-> "no", op |-> 0,
   \* what the properties speak about: the page may be behind, a mark was not
   \* sent or failed, the socket closed while the page was hidden
   stale |-> TRUE, unsent |-> FALSE, unseen |-> FALSE]

Init ==
  /\ messages \in {<<>>, <<"sales">>} /\ cursor = 0 /\ conn = {}
  /\ handler = [h \in Coroutines |-> Idle]
  /\ wire = [p \in Pages |-> <<>>]
  /\ requests = [s \in Sockets |-> <<>>]
  /\ fetched = [p \in Pages |-> NoSnapshot]
  /\ \E watching \in [Pages -> BOOLEAN] : page = [p \in Pages |-> FirstPage(watching[p])]
  /\ announced = 0 /\ closes = 0 /\ selects = 0

Server ==
  \/ \E h \in Handlers, sender \in {"customer", "sales"} : Store(h, sender)
  \/ \E sender \in {"customer", "sales"} : StoreByRest(sender)
  \/ \E h \in Handlers : Build(h)
  \/ \E h \in Coroutines : SendDone(h) \/ Abandon(h) \/ \E s \in Sockets : SendTo(h, s)
  \/ \E s \in Sockets : MarkRead(s) \/ Register(s) \/ Disconnect(s)
  \/ MarkReadByRest

Browser(p) ==
  \/ Receive(p) \/ MarkTimesOut(p) \/ Opened(p) \/ Reconnect(p)
  \/ \E hidden \in BOOLEAN : Closed(p, hidden)
  \/ Select(p) \/ Answer(p) \/ Loaded(p) \/ LoadFails(p)

Next == Server \/ \E p \in Pages : Browser(p)

Spec == Init /\ [][Next]_vars

-----------------------------------------------------------------------------
(* Properties.                                                             *)

\* Every part of the state is one the code can hold; sockets the server knows
\* were opened by their page, and a page opened one more than it lost.
TypeOK ==
  /\ messages \in Seq({"customer", "sales"}) /\ cursor \in 0 .. Len(messages)
  /\ conn \subseteq Sockets
  /\ handler \in [Coroutines -> Coroutine]
  /\ \A h \in Coroutines : \A a, b \in handler[h].answers : a = b
  /\ wire \in [Pages -> Seq(Event)]
  /\ requests \in [Sockets -> Seq(Nat)]
  /\ \A s \in Sockets : s \in conn \/ requests[s] # <<>> => s[2] <= page[s[1]].number
  /\ fetched \in [Pages -> Snapshot]
  /\ page \in [Pages -> Page]
  /\ announced \in 0 .. Len(messages)
  /\ closes \in 0 .. MaxCloses /\ selects \in Nat
  /\ \A p \in Pages :
       /\ page[p].number <= IF page[p].socket = "closed" THEN closes ELSE closes + 1
       /\ page[p].marking = "waits" => page[p].socket = "connecting"
       /\ page[p].upto <= Len(messages)
       /\ wire[p] # <<>> => page[p].socket # "closed"

\* Nothing is on its way between the server and the page.
Quiet(p) ==
  /\ \A h \in Coroutines : handler[h].step = "idle"
  /\ wire[p] = <<>> /\ page[p].load = "no"
  /\ \A s \in Sockets : s[1] = p => requests[s] = <<>>

\* When everything has arrived a connected page shows what any broadcast had to
\* tell, unless it missed one, one broke off before its socket, or an older
\* snapshot came after a newer one: a dead socket that raises a RuntimeError keeps
\* no other page from its snapshot.  What is stored without a broadcast is shown
\* with the next one.
PagesCatchUp ==
  \A p \in Pages : Quiet(p) /\ page[p].socket = "open" /\ ~page[p].stale
                     => page[p].upto >= announced

\* A page that shows all messages and none as unread agrees with the server once
\* everything has arrived: no unread message is lost sight of, unless one came
\* between a mark_read and its result or a mark_read failed.
BadgeAgrees ==
  \A p \in Pages :
    /\ Quiet(p) /\ page[p].marking = "no"
    /\ page[p].upto = Len(messages) /\ ~page[p].unread /\ ~page[p].unsent
    => \A i \in DOMAIN messages : ~IsUnread(i, cursor)

\* A page whose connection is lost tries again, unless it was hidden when the
\* connection closed.
ClosedRetries ==
  \A p \in Pages : page[p].socket = "closed" => page[p].timer \/ page[p].unseen

=============================================================================
