-------------------------- MODULE WorkspaceProofs --------------------------
(***************************************************************************)
(* Theorems about Workspace for any number of pages and coroutines of the  *)
(* server, any number of messages, lost connections and switches: what a   *)
(* page shows once everything has arrived, that it hides no unread         *)
(* message, and that a lost connection is tried again.                     *)
(*                                                                         *)
(* What a page shows at rest follows from what may be on its way while it  *)
(* is not at rest.  A page behind what was announced has it coming         *)
(* (Coming), unless it is known to have missed one; and a page that hides  *)
(* an unread message has a mark_read under way that was not answered yet   *)
(* (Marking), because the operations of a page are answered in order       *)
(* (Ordered) and no snapshot conceals what was unread when it was made     *)
(* (Snapshots).                                                            *)
(***************************************************************************)
EXTENDS Workspace, FiniteSetTheorems, SequenceTheorems, TLAPS

-----------------------------------------------------------------------------
(* Pages: the types of their variables and what each handler changes.      *)

\* A page after n lost connections of a session with len messages.
Fits(g, n, len) ==
  /\ g \in Page
  /\ g.number <= IF g.socket = "closed" THEN n ELSE n + 1
  /\ g.marking = "waits" => g.socket = "connecting"
  /\ g.upto <= len

\* Nothing that matters to connections and marks of a page changes.
Alike(g, m) ==
  /\ m.socket = g.socket /\ m.number = g.number /\ m.timer = g.timer /\ m.unseen = g.unseen
  /\ m.marking = g.marking /\ m.op = g.op

LEMMA Flagged ==
  ASSUME NEW n \in Nat, NEW len \in Nat, NEW g, Fits(g, n, len),
         NEW a \in BOOLEAN, NEW b \in BOOLEAN
  PROVE  LET m == [g EXCEPT !.stale = a, !.unsent = b]
         IN /\ Fits(m, n, len) /\ Alike(g, m)
            /\ m.upto = g.upto /\ m.unread = g.unread /\ m.stale = a /\ m.unsent = b
BY DEF Fits, Alike, Page

\* connectRealtime opens a socket more, if the page has none.
LEMMA Connected ==
  ASSUME NEW n \in 0 .. MaxCloses, NEW len \in Nat, NEW g, Fits(g, n, len), MaxCloses \in Nat
  PROVE  LET m == Connecting(g)
         IN /\ Fits(m, n, len)
            /\ m.marking = g.marking /\ m.op = g.op /\ m.timer = g.timer /\ m.unseen = g.unseen
            /\ m.upto = g.upto /\ m.unread = g.unread /\ m.unsent = g.unsent /\ m.stale = g.stale
            /\ \/ g.socket # "closed" /\ m = g
               \/ g.socket = "closed" /\ m.socket = "connecting" /\ m.number = g.number + 1
<1>1. CASE g.socket # "closed"
  BY <1>1 DEF Connecting
<1>2. CASE g.socket = "closed"
  <2> DEFINE k == g.number + 1
             m == [g EXCEPT !.socket = "connecting", !.number = k]
  <2>1. Connecting(g) = m
    BY <1>2 DEF Connecting
  <2>2. k \in 1 .. MaxCloses + 1 /\ k <= n + 1
    <3>1. g.number \in 1 .. MaxCloses + 1 /\ g.number <= n
      BY <1>2 DEF Fits, Page
    <3> QED BY <3>1
  <2> HIDE DEF k
  <2>3. /\ m \in Page /\ m.socket = "connecting" /\ m.number = k
        /\ m.marking = g.marking /\ m.op = g.op /\ m.timer = g.timer /\ m.unseen = g.unseen
        /\ m.upto = g.upto /\ m.unread = g.unread /\ m.unsent = g.unsent /\ m.stale = g.stale
    BY <2>2 DEF Fits, Page
  <2> HIDE DEF m
  <2>4. Fits(m, n, len)
    BY <2>2, <2>3 DEF Fits
  <2> QED BY <1>2, <2>1, <2>3, <2>4 DEF k
<1> QED BY <1>1, <1>2

\* What sendRealtime makes of a page that asks for nothing yet.
LEMMA Sent ==
  ASSUME NEW n \in 0 .. MaxCloses, NEW len \in Nat, NEW g, Fits(g, n, len), MaxCloses \in Nat,
         g.marking = "no"
  PROVE  LET m == Sending(g)
         IN /\ Fits(m, n, len)
            /\ m.op = g.op + 1 /\ m.timer = g.timer /\ m.unseen = g.unseen
            /\ m.upto = g.upto /\ m.unread = g.unread /\ m.unsent = g.unsent /\ m.stale = g.stale
            /\ \/ g.socket = "open" /\ m.marking = "sent" /\ m.number = g.number /\ m.socket = "open"
               \/ /\ m.marking = "waits" /\ m.socket = "connecting"
                  /\ \/ g.socket = "connecting" /\ m.number = g.number
                     \/ g.socket = "closed" /\ m.number = g.number + 1
<1>0. g.op \in Nat /\ g.op + 1 \in Nat
  BY DEF Fits, Page
<1>1. CASE g.socket = "open"
  <2> DEFINE k == g.op + 1
             m == [g EXCEPT !.op = k, !.marking = "sent"]
  <2>1. Sending(g) = m /\ k \in Nat
    BY <1>0, <1>1 DEF Sending
  <2> HIDE DEF k
  <2>2. /\ m \in Page /\ m.op = k /\ m.marking = "sent"
        /\ m.socket = g.socket /\ m.number = g.number /\ m.timer = g.timer /\ m.unseen = g.unseen
        /\ m.upto = g.upto /\ m.unread = g.unread /\ m.unsent = g.unsent /\ m.stale = g.stale
    BY <2>1 DEF Fits, Page
  <2> HIDE DEF m
  <2>3. Fits(m, n, len)
    BY <2>2 DEF Fits
  <2> QED BY <1>1, <2>1, <2>2, <2>3 DEF k
<1>2. CASE g.socket # "open"
  <2> DEFINE c == Connecting(g)
             k == c.op + 1
             m == [c EXCEPT !.op = k, !.marking = "waits"]
  <2>1. Sending(g) = m
    BY <1>2 DEF Sending
  <2>2. /\ Fits(c, n, len) /\ c.op = g.op /\ c.timer = g.timer /\ c.unseen = g.unseen
        /\ c.upto = g.upto /\ c.unread = g.unread /\ c.unsent = g.unsent /\ c.stale = g.stale
        /\ \/ g.socket # "closed" /\ c = g
           \/ g.socket = "closed" /\ c.socket = "connecting" /\ c.number = g.number + 1
    BY Connected
  <2>3. c.socket = "connecting"
    BY <1>2, <2>2 DEF Fits, Page
  <2> HIDE DEF c
  <2>4. k \in Nat /\ k = g.op + 1
    BY <1>0, <2>2
  <2> HIDE DEF k
  <2>5. /\ m \in Page /\ m.op = k /\ m.marking = "waits"
        /\ m.socket = c.socket /\ m.number = c.number /\ m.timer = c.timer /\ m.unseen = c.unseen
        /\ m.upto = c.upto /\ m.unread = c.unread /\ m.unsent = c.unsent /\ m.stale = c.stale
    BY <2>2, <2>4 DEF Fits, Page
  <2> HIDE DEF m
  <2>6. Fits(m, n, len)
    BY <2>2, <2>3, <2>5 DEF Fits
  <2> QED BY <1>2, <2>1, <2>2, <2>3, <2>5, <2>6, <2>4 DEF Fits, Page
<1> QED BY <1>1, <1>2

\* A mark that came while another was under way is not sent.
Dropped(g, p) == g.marking = "sent" /\ requests[<<p, g.number>>] = <<>> /\ g.upto > cursor

\* The ways a page goes through markSessionSeen: it has nothing to say, says it,
\* or is saying it already.
LEMMA Seen ==
  ASSUME NEW n \in 0 .. MaxCloses, NEW len \in Nat, NEW g, Fits(g, n, len), MaxCloses \in Nat,
         NEW p
  PROVE  LET m == MarkSeen(g, p)
         IN /\ Fits(m, n, len)
            /\ m.timer = g.timer /\ m.unseen = g.unseen /\ m.upto = g.upto /\ m.stale = g.stale
            /\ \/ m.socket = g.socket /\ m.number = g.number
               \/ g.socket = "closed" /\ m.socket = "connecting" /\ m.number = g.number + 1
            /\ \/ m = g /\ ~g.unread
               \/ /\ g.marking = "no" /\ m.op = g.op + 1
                  /\ \/ m.marking = "waits"
                     \/ m.marking = "sent" /\ m.number = g.number
               \/ /\ g.marking # "no" /\ m.marking = g.marking /\ m.op = g.op
                  /\ m.socket = g.socket /\ m.number = g.number
                  /\ m.unsent = (g.unsent \/ Dropped(g, p))
<1> DEFINE seen == [g EXCEPT !.unread = FALSE, !.readTo = g.upto]
<1>1. CASE ~g.unread /\ g.readTo = g.upto
  BY <1>1 DEF MarkSeen
<1>2. CASE ~(~g.unread /\ g.readTo = g.upto)
  <2>1. /\ Fits(seen, n, len) /\ Alike(g, seen)
        /\ seen.upto = g.upto /\ seen.stale = g.stale /\ seen.unsent = g.unsent
    BY DEF Fits, Alike, Page
  <2>2. CASE g.marking = "no"
    <3>1. MarkSeen(g, p) = Sending(seen)
      BY <1>2, <2>2 DEF MarkSeen
    <3> HIDE DEF seen
    <3>2. seen.marking = "no"
      BY <2>1, <2>2 DEF Alike
    <3>3. /\ Fits(Sending(seen), n, len)
          /\ Sending(seen).op = seen.op + 1 /\ Sending(seen).timer = seen.timer
          /\ Sending(seen).unseen = seen.unseen
          /\ Sending(seen).upto = seen.upto /\ Sending(seen).stale = seen.stale
          /\ \/ /\ seen.socket = "open" /\ Sending(seen).marking = "sent"
                /\ Sending(seen).number = seen.number /\ Sending(seen).socket = "open"
             \/ /\ Sending(seen).marking = "waits" /\ Sending(seen).socket = "connecting"
                /\ \/ seen.socket = "connecting" /\ Sending(seen).number = seen.number
                   \/ seen.socket = "closed" /\ Sending(seen).number = seen.number + 1
      BY <2>1, <3>2, Sent
    <3> QED BY <2>1, <2>2, <3>1, <3>3 DEF Alike
  <2>3. CASE g.marking # "no"
    <3> DEFINE m == [seen EXCEPT !.unsent = @ \/ Dropped(g, p)]
    <3>1. MarkSeen(g, p) = m
      BY <1>2, <2>3 DEF MarkSeen, Dropped
    <3>2. Dropped(g, p) \in BOOLEAN
      BY DEF Dropped
    <3> HIDE DEF seen
    <3>3. /\ m.unsent = (seen.unsent \/ Dropped(g, p)) /\ Alike(seen, m)
          /\ m.upto = seen.upto /\ m.stale = seen.stale /\ Fits(m, n, len)
      <4>1. seen \in Page
        BY <2>1 DEF Fits
      <4> DEFINE b == seen.unsent \/ Dropped(g, p)
      <4>2. m = [seen EXCEPT !.unsent = b] /\ b \in BOOLEAN
        OBVIOUS
      <4> HIDE DEF b, m
      <4>3. m.unsent = b /\ Alike(seen, m) /\ m.upto = seen.upto /\ m.stale = seen.stale /\ m \in Page
        BY <4>1, <4>2 DEF Alike, Page
      <4>4. Fits(m, n, len)
        BY <2>1, <4>3 DEF Fits, Alike
      <4> QED BY <4>3, <4>4 DEF b
    <3> HIDE DEF m
    <3> QED BY <2>1, <2>3, <3>1, <3>3 DEF Alike
  <2> QED BY <2>2, <2>3
<1> QED BY <1>1, <1>2

-----------------------------------------------------------------------------
(* Snapshots: none conceals what was unread when it was made.              *)

Unread == \E i \in DOMAIN messages : IsUnread(i, cursor)

\* Snapshot s of a session with len messages, u if some of them are unread.
Honest(s, len, u) == s.upto <= len /\ (s.upto = len /\ u => s.unread)

Carries(w, len, u) ==
  \A i \in DOMAIN w : w[i].type = "session_updated" => Honest(w[i].snapshot, len, u)

Snapshots ==
  /\ \A h \in Coroutines :
       handler[h].step = "send" => Honest(handler[h].snapshot, Len(messages), Unread)
  /\ \A p \in Pages :
       Honest(fetched[p], Len(messages), Unread) /\ Carries(wire[p], Len(messages), Unread)

\* A message was added, or nothing became unread.
Later(len, u, l, v) == l = len + 1 \/ (l = len /\ (v => u))

LEMMA HonestLater ==
  ASSUME NEW s \in Snapshot, NEW len \in Nat, NEW l \in Nat, NEW u, NEW v,
         Honest(s, len, u), Later(len, u, l, v)
  PROVE  Honest(s, l, v)
BY DEF Honest, Later, Snapshot

LEMMA EventKinds ==
  ASSUME NEW e \in Event
  PROVE  /\ e.type = "session_updated" => e.snapshot \in Snapshot
         /\ e.type # "session_updated" => e \in Result
BY DEF Event, Result

LEMMA CarriesLater ==
  ASSUME NEW w \in Seq(Event), NEW len \in Nat, NEW l \in Nat, NEW u, NEW v,
         Carries(w, len, u), Later(len, u, l, v)
  PROVE  Carries(w, l, v)
<1>1. \A i \in DOMAIN w : w[i] \in Event
  OBVIOUS
<1> QED BY <1>1, EventKinds, HonestLater DEF Carries

LEMMA CarriesMore ==
  ASSUME NEW w \in Seq(Event), NEW len, NEW u, NEW s \in Snapshot,
         Carries(w, len, u), Honest(s, len, u)
  PROVE  LET x == Append(w, [type |-> "session_updated", snapshot |-> s])
         IN x \in Seq(Event) /\ Carries(x, len, u)
<1> DEFINE e == [type |-> "session_updated", snapshot |-> s]
           x == Append(w, e)
<1>1. e \in Event /\ e.snapshot = s
  BY DEF Event
<1>2. x \in Seq(Event) /\ Len(x) = Len(w) + 1
  BY <1>1
<1>3. \A i \in 1 .. Len(w) : x[i] = w[i]
  BY <1>1
<1>4. x[Len(w) + 1] = e
  BY <1>1
<1>5. DOMAIN x = 1 .. Len(w) + 1 /\ DOMAIN w = 1 .. Len(w)
  BY <1>2
<1>6. \A i \in DOMAIN x : i \in DOMAIN w \/ i = Len(w) + 1
  BY <1>5
<1> HIDE DEF x, e
<1> QED BY <1>1, <1>2, <1>3, <1>4, <1>5, <1>6 DEF Carries, x, e

LEMMA CarriesLess ==
  ASSUME NEW w \in Seq(Event), NEW len, NEW u, Carries(w, len, u), w # <<>>
  PROVE  Tail(w) \in Seq(Event) /\ Carries(Tail(w), len, u)
<1>1. /\ Tail(w) \in Seq(Event) /\ Len(Tail(w)) = Len(w) - 1
      /\ \A i \in 1 .. Len(Tail(w)) : Tail(w)[i] = w[i + 1]
  BY HeadTailProperties
<1>2. \A i \in DOMAIN Tail(w) : i + 1 \in DOMAIN w /\ Tail(w)[i] = w[i + 1]
  BY <1>1
<1> QED BY <1>1, <1>2 DEF Carries

\* The one result a coroutine has, as a sequence.
LEMMA OneResult ==
  ASSUME NEW A \in SUBSET Result, \A a, b \in A : a = b
  PROVE  SetToSeq(A) \in Seq(A) /\ Len(SetToSeq(A)) <= 1
<1>1. CASE A = {}
  <2>1. Cardinality(A) = 0
    BY <1>1, FS_EmptySet
  <2>2. <<>> \in [1 .. Cardinality(A) -> A] /\ IsInjective(<<>>)
    BY <2>1 DEF IsInjective
  <2>3. SetToSeq(A) \in [1 .. Cardinality(A) -> A]
    BY <2>2 DEF SetToSeq
  <2> QED BY <2>1, <2>3
<1>2. CASE A # {}
  <2>1. PICK a \in A : A = {a}
    BY <1>2
  <2>2. Cardinality(A) = 1
    BY <2>1, FS_Singleton
  <2> DEFINE f == [i \in 1 .. 1 |-> a]
  <2>3. f \in [1 .. Cardinality(A) -> A] /\ IsInjective(f)
    BY <2>2 DEF IsInjective
  <2>4. SetToSeq(A) \in [1 .. Cardinality(A) -> A]
    BY <2>3 DEF SetToSeq
  <2> HIDE DEF f
  <2>5. ASSUME NEW g \in [1 .. 1 -> A] PROVE g \in Seq(A) /\ Len(g) = 1
    <3>1. g \in Seq(A)
      BY SeqDef
    <3>2. DOMAIN g = 1 .. Len(g) /\ Len(g) \in Nat
      BY <3>1, LenProperties
    <3> QED BY <3>1, <3>2
  <2>6. SetToSeq(A) \in [1 .. 1 -> A]
    BY <2>2, <2>4
  <2>7. SetToSeq(A) \in Seq(A) /\ Len(SetToSeq(A)) = 1
    BY <2>5, <2>6
  <2> QED BY <2>7
<1> QED BY <1>1, <1>2

LEMMA CarriesResult ==
  ASSUME NEW w \in Seq(Event), NEW len, NEW u, Carries(w, len, u),
         NEW A \in SUBSET Result, \A a, b \in A : a = b
  PROVE  LET x == w \o SetToSeq(A)
         IN /\ x \in Seq(Event) /\ Carries(x, len, u)
            /\ \A i \in DOMAIN x : (i \in DOMAIN w /\ x[i] = w[i]) \/ x[i] \in A
            /\ \A i \in DOMAIN w : i \in DOMAIN x /\ x[i] = w[i]
<1> DEFINE t == SetToSeq(A)
           x == w \o t
<1>1. t \in Seq(A)
  BY OneResult
<1>2. t \in Seq(Event) /\ A \subseteq Result
  BY <1>1 DEF Event
<1> HIDE DEF t
<1>3. /\ x \in Seq(Event) /\ Len(x) = Len(w) + Len(t)
      /\ \A i \in 1 .. Len(w) + Len(t) : x[i] = IF i <= Len(w) THEN w[i] ELSE t[i - Len(w)]
  BY <1>2, ConcatProperties
<1>4. \A i \in DOMAIN w : i \in DOMAIN x /\ x[i] = w[i]
  BY <1>3
<1>5. ASSUME NEW i \in DOMAIN x PROVE (i \in DOMAIN w /\ x[i] = w[i]) \/ x[i] \in A
  <2>1. CASE i <= Len(w)
    BY <1>3, <2>1
  <2>2. CASE ~(i <= Len(w))
    <3>1. i - Len(w) \in 1 .. Len(t) /\ x[i] = t[i - Len(w)]
      BY <1>2, <1>3, <2>2
    <3> QED BY <1>1, <3>1
  <2> QED BY <2>1, <2>2
<1> HIDE DEF x
<1>6. Carries(x, len, u)
  BY <1>2, <1>5 DEF Carries, Result
<1> QED BY <1>3, <1>4, <1>5, <1>6 DEF x, t

LEMMA SnapshotNow ==
  ASSUME TypeOK, NEW c \in Nat
  PROVE  /\ SnapshotAt(c) \in Snapshot
         /\ SnapshotAt(c).upto = Len(messages)
         /\ SnapshotAt(c).unread = \E i \in DOMAIN messages : IsUnread(i, c)
<1>1. Len(messages) \in Nat
  BY DEF TypeOK
<1> DEFINE u == \E i \in DOMAIN messages : IsUnread(i, c)
<1>2. u \in BOOLEAN
  OBVIOUS
<1> HIDE DEF u
<1>3. SnapshotAt(c) = [upto |-> Len(messages), cursor |-> c, unread |-> u]
  BY DEF SnapshotAt, u
<1> QED BY <1>1, <1>2, <1>3 DEF Snapshot, u

\* After all messages are read none is unread.
LEMMA AllRead ==
  ASSUME TypeOK
  PROVE  ~\E i \in DOMAIN messages : IsUnread(i, Len(messages))
BY DEF TypeOK, IsUnread

-----------------------------------------------------------------------------
(* TypeOK, part by part.                                                   *)

DataOK == messages \in Seq({"customer", "sales"}) /\ cursor \in 0 .. Len(messages)

ServerOK ==
  /\ conn \subseteq Sockets /\ handler \in [Coroutines -> Coroutine]
  /\ \A h \in Coroutines : \A a, b \in handler[h].answers : a = b

LinksOK ==
  /\ wire \in [Pages -> Seq(Event)]
  /\ requests \in [Sockets -> Seq(Nat)]
  /\ \A s \in Sockets : s \in conn \/ requests[s] # <<>> => s[2] <= page[s[1]].number
  /\ fetched \in [Pages -> Snapshot]
  /\ \A p \in Pages : wire[p] # <<>> => page[p].socket # "closed"

PagesOK ==
  /\ page \in [Pages -> Page] /\ closes \in 0 .. MaxCloses /\ selects \in Nat
  /\ \A p \in Pages : Fits(page[p], closes, Len(messages))
  /\ announced \in 0 .. Len(messages)

LEMMA Parts == TypeOK <=> DataOK /\ ServerOK /\ LinksOK /\ PagesOK
<1>1. TypeOK => DataOK /\ ServerOK /\ LinksOK /\ PagesOK
  BY DEF TypeOK, DataOK, ServerOK, LinksOK, PagesOK, Fits
<1>2. DataOK /\ ServerOK /\ LinksOK /\ PagesOK => TypeOK
  BY DEF TypeOK, DataOK, ServerOK, LinksOK, PagesOK, Fits
<1> QED BY <1>1, <1>2

\* What the parts say of one page, one coroutine and one socket.
LEMMA OfOne ==
  ASSUME TypeOK
  PROVE  /\ Len(messages) \in Nat /\ cursor \in Nat /\ cursor <= Len(messages)
         /\ closes \in 0 .. MaxCloses /\ MaxCloses \in Nat
         /\ \A p \in Pages : /\ Fits(page[p], closes, Len(messages))
                             /\ wire[p] \in Seq(Event) /\ fetched[p] \in Snapshot
         /\ \A h \in Coroutines : handler[h] \in Coroutine
         /\ \A s \in Sockets : requests[s] \in Seq(Nat) /\ s[1] \in Pages /\ s[2] \in 1 .. MaxCloses + 1
         /\ Sockets \subseteq Coroutines /\ Handlers \subseteq Coroutines
<1>1. DataOK /\ ServerOK /\ LinksOK /\ PagesOK
  BY Parts
<1>2. /\ Len(messages) \in Nat /\ cursor \in Nat /\ cursor <= Len(messages)
      /\ closes \in 0 .. MaxCloses /\ MaxCloses \in Nat
  BY <1>1, BoundAssumption DEF DataOK, PagesOK
<1>3. \A p \in Pages : /\ Fits(page[p], closes, Len(messages))
                       /\ wire[p] \in Seq(Event) /\ fetched[p] \in Snapshot
  BY <1>1 DEF PagesOK, LinksOK
<1>4. \A h \in Coroutines : handler[h] \in Coroutine
  BY <1>1 DEF ServerOK
<1>5. \A s \in Sockets : requests[s] \in Seq(Nat) /\ s[1] \in Pages /\ s[2] \in 1 .. MaxCloses + 1
  BY <1>1 DEF LinksOK, Sockets
<1> QED BY <1>2, <1>3, <1>4, <1>5 DEF Coroutines

\* The page that shows a snapshot.
LEMMA Shows ==
  ASSUME NEW n \in Nat, NEW g, Fits(g, n, Len(messages)), NEW s \in Snapshot,
         s.upto <= Len(messages), Len(messages) \in Nat
  PROVE  LET m == Shown(g, s)
         IN /\ Fits(m, n, Len(messages)) /\ Alike(g, m) /\ m.watching = g.watching
            /\ m.upto = s.upto /\ m.unread = s.unread /\ m.unsent = g.unsent
            /\ ~(s.upto >= announced) => m.stale = (g.stale \/ s.upto < g.upto)
<1> DEFINE b == IF s.upto >= announced THEN FALSE ELSE g.stale \/ s.upto < g.upto
           m == [g EXCEPT !.upto = s.upto, !.unread = s.unread, !.readTo = s.cursor,
                          !.loaded = TRUE, !.stale = b]
<1>1. g \in Page
  BY DEF Fits
<1>2. b \in BOOLEAN
  BY <1>1 DEF Page
<1>3. Shown(g, s) = m
  BY <1>1 DEF Shown, Page
<1>4. s.upto \in Nat /\ s.unread \in BOOLEAN /\ s.cursor \in Nat
  BY DEF Snapshot
<1> HIDE DEF b
<1>5. /\ m \in Page /\ Alike(g, m) /\ m.watching = g.watching
      /\ m.upto = s.upto /\ m.unread = s.unread /\ m.unsent = g.unsent /\ m.stale = b
  BY <1>1, <1>2, <1>4 DEF Page, Alike
<1> HIDE DEF m
<1>6. Fits(m, n, Len(messages))
  BY <1>5 DEF Fits, Alike
<1> QED BY <1>3, <1>5, <1>6 DEF b

\* What rendering makes of a page: nothing, or what markSessionSeen does.
LEMMA Renders ==
  ASSUME TypeOK, NEW g, Fits(g, closes, Len(messages)), NEW p
  PROVE  LET m == Rendered(g, p)
         IN /\ Fits(m, closes, Len(messages))
            /\ m.timer = g.timer /\ m.unseen = g.unseen /\ m.upto = g.upto /\ m.stale = g.stale
            /\ \/ m.socket = g.socket /\ m.number = g.number
               \/ g.socket = "closed" /\ m.socket = "connecting" /\ m.number = g.number + 1
            /\ \/ m = g /\ (g.watching => ~g.unread)
               \/ /\ g.marking = "no" /\ m.op = g.op + 1
                  /\ \/ m.marking = "waits"
                     \/ m.marking = "sent" /\ m.number = g.number
               \/ /\ g.marking # "no" /\ m.marking = g.marking /\ m.op = g.op
                  /\ m.socket = g.socket /\ m.number = g.number
                  /\ m.unsent = (g.unsent \/ Dropped(g, p))
<1>1. CASE g.watching
  <2>1. Rendered(g, p) = MarkSeen(g, p)
    BY <1>1 DEF Rendered
  <2>2. Len(messages) \in Nat /\ closes \in 0 .. MaxCloses /\ MaxCloses \in Nat
    BY OfOne
  <2> QED BY <2>1, <2>2, Seen
<1>2. CASE ~g.watching
  BY <1>2 DEF Rendered
<1> QED BY <1>1, <1>2

-----------------------------------------------------------------------------
(* What a step does to the marks of a page and to the requests it sent.    *)

\* A page asks for nothing more, begins to wait for its socket, or asks.
Keeps(a, m) == m.op = a.op /\ m.number >= a.number /\ m.marking \in {a.marking, "no"}
Waits(a, m) ==
  a.marking = "no" /\ m.marking = "waits" /\ m.op = a.op + 1 /\ m.number >= a.number
Asks(a, m) ==
  /\ m.marking = "sent" /\ m.number = a.number
  /\ (a.marking = "no" /\ m.op = a.op + 1) \/ (a.marking = "waits" /\ m.op = a.op)

\* Requests r are the first ones of q.
Shorter(r, q) == Len(r) <= Len(q) /\ \A i \in 1 .. Len(r) : r[i] = q[i]

\* The step of a page leaves the server and the other pages alone.
Turns(p) ==
  /\ page' \in [Pages -> Page] /\ \A q \in Pages \ {p} : page'[q] = page[q]
  /\ requests' \in [Sockets -> Seq(Nat)]
  /\ \/ /\ Keeps(page[p], page'[p]) \/ Waits(page[p], page'[p])
        /\ \A s \in Sockets : Shorter(requests'[s], requests[s])
     \/ /\ Asks(page[p], page'[p])
        /\ \A s \in Sockets :
             requests'[s] = IF s = <<p, page[p].number>>
                            THEN Append(requests[s], page'[p].op) ELSE requests[s]

\* A step of the server tells the pages at most what they missed.
Same(a, m) == Alike(a, m) /\ m.upto = a.upto /\ m.unread = a.unread /\ (a.stale => m.stale)

LEMMA BecomesTurns ==
  ASSUME TypeOK, NEW p \in Pages, NEW g \in Page, Becomes(p, g),
         \/ Keeps(page[p], g) \/ Waits(page[p], g) \/ Asks(page[p], g)
  PROVE  Turns(p) /\ page'[p] = g
<1>1. page \in [Pages -> Page] /\ requests \in [Sockets -> Seq(Nat)]
  BY DEF TypeOK
<1>2. page' = [page EXCEPT ![p] = g]
  BY DEF Becomes
<1>3. page' \in [Pages -> Page] /\ page'[p] = g /\ \A q \in Pages \ {p} : page'[q] = page[q]
  BY <1>1, <1>2
<1>4. page[p] \in Page /\ g.op \in Nat /\ page[p].op \in Nat /\ page[p].op # page[p].op + 1
  BY <1>1 DEF Page
<1>5. ASSUME NEW s \in Sockets PROVE requests[s] \in Seq(Nat) /\ Shorter(requests[s], requests[s])
  BY <1>1 DEF Shorter
<1>6. CASE Keeps(page[p], g) \/ Waits(page[p], g)
  <2>1. requests' = requests
    BY <1>6 DEF Becomes, Keeps, Waits
  <2> QED BY <1>1, <1>3, <1>5, <1>6, <2>1 DEF Turns
<1>7. CASE Asks(page[p], g)
  <2> DEFINE s == <<p, page[p].number>>
  <2>1. requests' = [requests EXCEPT ![<<p, g.number>>] = Append(@, g.op)] /\ g.number = page[p].number
    BY <1>4, <1>7 DEF Becomes, Asks
  <2>2. s \in Sockets
    BY <1>4 DEF Sockets, Page
  <2>3. Append(requests[s], g.op) \in Seq(Nat)
    BY <1>4, <1>5, <2>2
  <2>4. requests' = [requests EXCEPT ![s] = Append(requests[s], g.op)]
    BY <2>1
  <2> HIDE DEF s
  <2>5. /\ requests' \in [Sockets -> Seq(Nat)]
        /\ \A r \in Sockets : requests'[r] = IF r = s THEN Append(requests[r], g.op) ELSE requests[r]
    BY <1>1, <2>2, <2>3, <2>4
  <2> QED BY <1>3, <1>7, <2>5 DEF Turns, s
<1> QED BY <1>6, <1>7

LEMMA RenderMoves ==
  ASSUME TypeOK, NEW p \in Pages, NEW g, Fits(g, closes, Len(messages)), Alike(page[p], g)
  PROVE  LET m == Rendered(g, p)
         IN Keeps(page[p], m) \/ Waits(page[p], m) \/ Asks(page[p], m)
<1> DEFINE m == Rendered(g, p)
<1> SUFFICES Keeps(page[p], m) \/ Waits(page[p], m) \/ Asks(page[p], m)
  OBVIOUS
<1>1. /\ \/ m.socket = g.socket /\ m.number = g.number
         \/ g.socket = "closed" /\ m.socket = "connecting" /\ m.number = g.number + 1
      /\ \/ m = g /\ (g.watching => ~g.unread)
         \/ /\ g.marking = "no" /\ m.op = g.op + 1
            /\ \/ m.marking = "waits"
               \/ m.marking = "sent" /\ m.number = g.number
         \/ /\ g.marking # "no" /\ m.marking = g.marking /\ m.op = g.op
            /\ m.socket = g.socket /\ m.number = g.number
            /\ m.unsent = (g.unsent \/ Dropped(g, p))
  BY Renders
<1> HIDE DEF m
<1>2. g.number \in Nat /\ g.op \in Nat
  BY DEF Fits, Page
<1>3. m.number >= g.number
  BY <1>1, <1>2
<1>4. /\ page[p].marking = g.marking /\ page[p].op = g.op /\ page[p].number = g.number
  BY DEF Alike
<1>5. CASE m = g
  BY <1>4, <1>5, <1>3 DEF Keeps
<1>6. CASE g.marking = "no" /\ m.op = g.op + 1 /\ m.marking = "waits"
  BY <1>3, <1>4, <1>6 DEF Waits
<1>7. CASE g.marking = "no" /\ m.op = g.op + 1 /\ m.marking = "sent" /\ m.number = g.number
  BY <1>4, <1>7 DEF Asks
<1>8. CASE m.marking = g.marking /\ m.op = g.op
  BY <1>3, <1>4, <1>8 DEF Keeps
<1> QED BY <1>1, <1>5, <1>6, <1>7, <1>8

\* Rendering a page that is alike is a step of the page, and keeps its connection.
LEMMA RenderTurns ==
  ASSUME TypeOK, NEW p \in Pages, NEW g, Fits(g, closes, Len(messages)), Alike(page[p], g),
         Becomes(p, Rendered(g, p))
  PROVE  /\ Turns(p) /\ page'[p] = Rendered(g, p) /\ Fits(page'[p], closes, Len(messages))
         /\ page'[p].upto = g.upto /\ page'[p].stale = g.stale
         /\ page[p].socket # "closed" => /\ page'[p].socket = page[p].socket
                                         /\ page'[p].number = page[p].number
         /\ page'[p].socket = "closed" => /\ page'[p].timer = page[p].timer
                                          /\ page'[p].unseen = page[p].unseen
<1> DEFINE m == Rendered(g, p)
<1>1. /\ Fits(m, closes, Len(messages))
      /\ m.timer = g.timer /\ m.unseen = g.unseen /\ m.upto = g.upto /\ m.stale = g.stale
      /\ \/ m.socket = g.socket /\ m.number = g.number
         \/ g.socket = "closed" /\ m.socket = "connecting" /\ m.number = g.number + 1
  BY Renders
<1>2. Keeps(page[p], m) \/ Waits(page[p], m) \/ Asks(page[p], m)
  BY RenderMoves
<1>3. m \in Page
  BY <1>1 DEF Fits
<1> HIDE DEF m
<1>4. Becomes(p, m)
  BY DEF m
<1>5. Turns(p) /\ page'[p] = m
  BY <1>2, <1>3, <1>4, BecomesTurns
<1> QED BY <1>1, <1>5 DEF Alike, m

LEMMA KeepsTurns ==
  ASSUME TypeOK, NEW p \in Pages, NEW g \in Page, page' = [page EXCEPT ![p] = g],
         Keeps(page[p], g), requests' \in [Sockets -> Seq(Nat)],
         \A s \in Sockets : Shorter(requests'[s], requests[s])
  PROVE  Turns(p) /\ page'[p] = g
<1>1. page \in [Pages -> Page]
  BY DEF TypeOK
<1>2. page' \in [Pages -> Page] /\ page'[p] = g /\ \A q \in Pages \ {p} : page'[q] = page[q]
  BY <1>1
<1> QED BY <1>2 DEF Turns

LEMMA NoRequest ==
  ASSUME TypeOK, requests' = requests
  PROVE  requests' \in [Sockets -> Seq(Nat)] /\ \A s \in Sockets : Shorter(requests'[s], requests[s])
BY DEF TypeOK, Shorter

\* A page that lost its connection and one that goes on with its own.
Stays(a, m) ==
  /\ a.socket # "closed" => m.socket # "closed" /\ m.number = a.number
  /\ m.socket = "closed" => m.timer = a.timer /\ m.unseen = a.unseen

\* The snapshot a page is shown is one of its session as it was.
LEMMA Arrives ==
  ASSUME TypeOK, Snapshots, NEW p \in Pages, wire[p] # <<>>
  PROVE  LET event == Head(wire[p])
         IN /\ event.type # "operation_result"
                 => /\ event.snapshot \in Snapshot
                    /\ Honest(event.snapshot, Len(messages), Unread)
            /\ event.type = "operation_result" => event \in Result
            /\ event = wire[p][1] /\ 1 \in DOMAIN wire[p]
            /\ event.type # "operation_result" => event.type = "session_updated"
<1>1. wire[p] \in Seq(Event) /\ Carries(wire[p], Len(messages), Unread)
  BY OfOne DEF Snapshots
<1>2. Head(wire[p]) = wire[p][1] /\ 1 \in DOMAIN wire[p]
  BY <1>1, HeadTailProperties
<1>3. Head(wire[p]) \in Event
  BY <1>1, <1>2
<1>4. Head(wire[p]).type # "operation_result" => Head(wire[p]).type = "session_updated"
  BY <1>3 DEF Event, Result
<1>5. Head(wire[p]).type = "operation_result" => Head(wire[p]) \in Result
  BY <1>3, EventKinds
<1>6. Head(wire[p]).type = "session_updated"
        => Head(wire[p]).snapshot \in Snapshot /\ Honest(Head(wire[p]).snapshot, Len(messages), Unread)
  BY <1>1, <1>2, <1>3, EventKinds DEF Carries
<1> QED BY <1>2, <1>4, <1>5, <1>6

LEMMA AlikeShown ==
  ASSUME TypeOK, NEW p \in Pages, NEW s \in Snapshot, s.upto <= Len(messages)
  PROVE  LET g == Shown(page[p], s)
         IN /\ Fits(g, closes, Len(messages)) /\ Alike(page[p], g)
            /\ g.watching = page[p].watching
            /\ g.upto = s.upto /\ g.unread = s.unread /\ g.unsent = page[p].unsent
            /\ ~(s.upto >= announced) => g.stale = (page[p].stale \/ s.upto < page[p].upto)
<1>1. Fits(page[p], closes, Len(messages)) /\ Len(messages) \in Nat /\ closes \in Nat
  BY OfOne
<1> QED BY <1>1, Shows

LEMMA ReceiveTurns ==
  ASSUME TypeOK, Snapshots, NEW p \in Pages, Receive(p)
  PROVE  Turns(p) /\ Fits(page'[p], closes, Len(messages)) /\ Stays(page[p], page'[p])
<1>0. Fits(page[p], closes, Len(messages)) /\ closes \in Nat
  BY OfOne
<1> DEFINE e == Head(wire[p])
<1>1. CASE e.type = "operation_result"
  <2> DEFINE g == Resolved(page[p], e.op)
             m == [page[p] EXCEPT !.marking = "no"]
  <2>1. m \in Page /\ m.marking = "no" /\ m.op = page[p].op /\ m.number = page[p].number
        /\ m.socket = page[p].socket /\ m.upto = page[p].upto
        /\ m.timer = page[p].timer /\ m.unseen = page[p].unseen
    BY <1>0 DEF Fits, Page
  <2>2. g \in {page[p], m}
    BY DEF Resolved
  <2>3. page[p].number >= page[p].number /\ page[p] \in Page
    BY <1>0 DEF Fits, Page
  <2>4. Becomes(p, g)
    BY <1>1 DEF Receive
  <2> HIDE DEF m
  <2>5. g \in Page /\ Keeps(page[p], g) /\ Fits(g, closes, Len(messages)) /\ Stays(page[p], g)
    BY <1>0, <2>1, <2>2, <2>3 DEF Keeps, Fits, Stays
  <2> HIDE DEF g
  <2> QED BY <2>4, <2>5, BecomesTurns
<1>2. CASE e.type # "operation_result"
  <2> DEFINE g == Shown(page[p], e.snapshot)
  <2>1. e.snapshot \in Snapshot /\ e.snapshot.upto <= Len(messages)
    BY <1>2, Arrives DEF Receive, Honest
  <2>2. Fits(g, closes, Len(messages)) /\ Alike(page[p], g)
    BY <2>1, AlikeShown
  <2>3. Becomes(p, Rendered(g, p))
    BY <1>2 DEF Receive
  <2> HIDE DEF g, e
  <2> QED BY <2>2, <2>3, RenderTurns DEF Stays
<1> QED BY <1>1, <1>2

LEMMA TimesOutTurns ==
  ASSUME TypeOK, NEW p \in Pages, MarkTimesOut(p)
  PROVE  Turns(p) /\ Fits(page'[p], closes, Len(messages)) /\ Stays(page[p], page'[p])
         /\ page'[p].unsent /\ page'[p].upto = page[p].upto /\ page'[p].stale = page[p].stale
<1> DEFINE m == MarkFails(page[p])
<1>1. Fits(page[p], closes, Len(messages))
  BY OfOne
<1>2. m \in Page /\ m.marking = "no" /\ m.op = page[p].op /\ m.number = page[p].number
      /\ m.unsent
      /\ m.socket = page[p].socket /\ m.upto = page[p].upto /\ m.stale = page[p].stale
      /\ m.timer = page[p].timer /\ m.unseen = page[p].unseen
  <2>1. page[p] \in Page
    BY <1>1 DEF Fits
  <2> QED BY <2>1 DEF Page, MarkFails
<1>3. page' = [page EXCEPT ![p] = m]
  BY DEF MarkTimesOut
<1> HIDE DEF m
<1>4. page[p].number >= page[p].number
  BY <1>1 DEF Fits, Page
<1>5. Fits(m, closes, Len(messages)) /\ Keeps(page[p], m) /\ Stays(page[p], m)
  BY <1>1, <1>2, <1>4 DEF Fits, Keeps, Stays
<1>6. requests' = requests
  BY DEF MarkTimesOut
<1> QED BY <1>2, <1>3, <1>5, <1>6, NoRequest, KeepsTurns

LEMMA OpenedTurns ==
  ASSUME TypeOK, NEW p \in Pages, Opened(p)
  PROVE  Turns(p) /\ Fits(page'[p], closes, Len(messages)) /\ Stays(page[p], page'[p])
         /\ page'[p].upto = page[p].upto /\ page'[p].stale = page[p].stale
         /\ page'[p].unread = page[p].unread /\ page'[p].unsent = page[p].unsent
         /\ page'[p].op = page[p].op
         /\ page'[p].marking = IF page[p].marking = "waits" THEN "sent" ELSE page[p].marking
<1> DEFINE g == [page[p] EXCEPT !.socket = "open"]
           m == IF g.marking = "waits" THEN [g EXCEPT !.marking = "sent"] ELSE g
<1>1. Fits(page[p], closes, Len(messages)) /\ page[p].socket = "connecting"
  BY OfOne DEF Opened
<1>2. m \in Page /\ m.op = page[p].op /\ m.number = page[p].number
      /\ m.unsent = page[p].unsent /\ m.unread = page[p].unread
      /\ m.socket = "open" /\ m.upto = page[p].upto /\ m.stale = page[p].stale
      /\ m.marking = IF page[p].marking = "waits" THEN "sent" ELSE page[p].marking
  <2>1. page[p] \in Page
    BY <1>1 DEF Fits
  <2>2. /\ g \in Page /\ g.op = page[p].op /\ g.number = page[p].number
        /\ g.unsent = page[p].unsent /\ g.unread = page[p].unread
        /\ g.socket = "open" /\ g.upto = page[p].upto /\ g.stale = page[p].stale
        /\ g.marking = page[p].marking
    BY <2>1 DEF Page
  <2> HIDE DEF g
  <2> QED BY <2>2 DEF Page
<1>3. Becomes(p, m)
  BY DEF Opened
<1> HIDE DEF m
<1>4. page[p].number >= page[p].number
  BY <1>1 DEF Fits, Page
<1>5. Fits(m, closes, Len(messages)) /\ (Keeps(page[p], m) \/ Asks(page[p], m)) /\ Stays(page[p], m)
  BY <1>1, <1>2, <1>4 DEF Fits, Keeps, Asks, Stays
<1> QED BY <1>2, <1>3, <1>5, BecomesTurns

LEMMA ClosedTurns ==
  ASSUME TypeOK, NEW p \in Pages, NEW hidden \in BOOLEAN, Closed(p, hidden)
  PROVE  /\ Turns(p) /\ Fits(page'[p], closes', Len(messages)) /\ closes' \in 0 .. MaxCloses
         /\ page'[p].socket = "closed" /\ (page'[p].timer \/ page'[p].unseen)
         /\ page'[p].stale /\ page'[p].upto = page[p].upto /\ page'[p].unread = page[p].unread
         /\ page'[p].op = page[p].op /\ page'[p].number = page[p].number
         /\ IF page[p].marking = "waits" THEN page'[p].unsent
            ELSE page'[p].marking = page[p].marking /\ page'[p].unsent = page[p].unsent
<1>1. Fits(page[p], closes, Len(messages)) /\ page[p].socket # "closed"
  BY OfOne DEF Closed
<1>2. page[p] \in Page
  BY <1>1 DEF Fits
<1>3. closes \in 0 .. MaxCloses /\ closes < MaxCloses /\ closes' = closes + 1 /\ MaxCloses \in Nat
  BY OfOne DEF Closed
<1> DEFINE d == Scheduled(page[p], hidden)
           g == [d EXCEPT !.socket = "closed", !.stale = TRUE]
           m == IF g.marking = "waits" THEN MarkFails(g) ELSE g
<1>4. /\ d \in Page /\ (d.timer \/ d.unseen)
      /\ d.upto = page[p].upto /\ d.unread = page[p].unread /\ d.op = page[p].op
      /\ d.number = page[p].number /\ d.marking = page[p].marking /\ d.unsent = page[p].unsent
  BY <1>2 DEF Page, Scheduled
<1> HIDE DEF d
<1>5. /\ g \in Page /\ g.socket = "closed" /\ g.stale /\ (g.timer \/ g.unseen)
      /\ g.upto = page[p].upto /\ g.unread = page[p].unread /\ g.op = page[p].op
      /\ g.number = page[p].number /\ g.marking = page[p].marking /\ g.unsent = page[p].unsent
  BY <1>4 DEF Page
<1>6. page' = [page EXCEPT ![p] = m]
  BY DEF Closed, d
<1> HIDE DEF g
<1>7. /\ m \in Page /\ m.socket = "closed" /\ m.stale /\ (m.timer \/ m.unseen)
      /\ m.upto = page[p].upto /\ m.unread = page[p].unread /\ m.op = page[p].op
      /\ m.number = page[p].number /\ m.marking \in {page[p].marking, "no"}
      /\ m.marking # "waits"
      /\ IF page[p].marking = "waits" THEN m.unsent
         ELSE m.marking = page[p].marking /\ m.unsent = page[p].unsent
  BY <1>5 DEF Page, MarkFails
<1> HIDE DEF m
<1>8. page[p].number >= page[p].number /\ page[p].number <= closes'
  BY <1>1, <1>2, <1>3 DEF Fits, Page
<1>9. Fits(m, closes', Len(messages)) /\ Keeps(page[p], m)
  BY <1>1, <1>7, <1>8 DEF Fits, Keeps
<1> DEFINE s == <<p, page[p].number>>
<1>10. PICK n \in 0 .. (IF s \in conn THEN Len(requests[s]) ELSE 0) :
          requests' = [requests EXCEPT ![s] = SubSeq(@, 1, n)]
  BY DEF Closed
<1>11. s \in Sockets
  BY <1>2 DEF Sockets, Page
<1>12. requests \in [Sockets -> Seq(Nat)]
  BY DEF TypeOK
<1> DEFINE r == SubSeq(requests[s], 1, n)
<1> HIDE DEF s
<1>13. requests[s] \in Seq(Nat) /\ n \in 0 .. Len(requests[s])
  BY <1>11, <1>12
<1>14. r \in Seq(Nat) /\ Shorter(r, requests[s])
  BY <1>13 DEF Shorter
<1>15. \A q \in Sockets : Shorter(requests[q], requests[q])
  BY <1>12 DEF Shorter
<1>16. requests' = [requests EXCEPT ![s] = r]
  BY <1>10
<1> HIDE DEF r
<1>17. requests' \in [Sockets -> Seq(Nat)] /\ \A q \in Sockets : Shorter(requests'[q], requests[q])
  BY <1>11, <1>12, <1>14, <1>15, <1>16
<1>18. Turns(p) /\ page'[p] = m
  BY <1>6, <1>7, <1>9, <1>17, KeepsTurns
<1> QED BY <1>3, <1>7, <1>9, <1>18

LEMMA ReconnectTurns ==
  ASSUME TypeOK, NEW p \in Pages, Reconnect(p)
  PROVE  /\ Turns(p) /\ Fits(page'[p], closes, Len(messages)) /\ page'[p].socket # "closed"
         /\ page[p].socket # "closed" => page'[p].number = page[p].number
         /\ page'[p].upto = page[p].upto /\ page'[p].stale = page[p].stale
         /\ page'[p].unread = page[p].unread /\ page'[p].unsent = page[p].unsent
         /\ page'[p].op = page[p].op /\ page'[p].marking = page[p].marking
<1> DEFINE g == [page[p] EXCEPT !.timer = FALSE]
           m == Connecting(g)
<1>1. /\ Fits(page[p], closes, Len(messages)) /\ Len(messages) \in Nat
      /\ closes \in 0 .. MaxCloses /\ MaxCloses \in Nat
  BY OfOne
<1>2. page[p] \in Page
  BY <1>1 DEF Fits
<1>3. /\ g \in Page /\ g.socket = page[p].socket /\ g.number = page[p].number
      /\ g.upto = page[p].upto /\ g.stale = page[p].stale
      /\ g.unread = page[p].unread /\ g.unsent = page[p].unsent
      /\ g.op = page[p].op /\ g.marking = page[p].marking
  BY <1>2 DEF Page
<1>4. page' = [page EXCEPT ![p] = m]
  BY DEF Reconnect
<1> HIDE DEF g
<1>5. Fits(g, closes, Len(messages))
  BY <1>1, <1>3 DEF Fits
<1>6. /\ Fits(m, closes, Len(messages))
      /\ m.marking = g.marking /\ m.op = g.op /\ m.timer = g.timer /\ m.unseen = g.unseen
      /\ m.upto = g.upto /\ m.unread = g.unread /\ m.unsent = g.unsent /\ m.stale = g.stale
      /\ \/ g.socket # "closed" /\ m = g
         \/ g.socket = "closed" /\ m.socket = "connecting" /\ m.number = g.number + 1
  BY <1>1, <1>5, Connected
<1> HIDE DEF m
<1>7. m \in Page /\ m.number >= page[p].number
  BY <1>2, <1>3, <1>6 DEF Fits, Page
<1>8. Keeps(page[p], m)
  BY <1>3, <1>6, <1>7 DEF Keeps
<1>9. requests' = requests
  BY DEF Reconnect
<1>10. Turns(p) /\ page'[p] = m
  BY <1>4, <1>7, <1>8, <1>9, NoRequest, KeepsTurns
<1> QED BY <1>3, <1>6, <1>10

LEMMA SelectTurns ==
  ASSUME TypeOK, NEW p \in Pages, Select(p)
  PROVE  \E g : /\ Fits(g, closes, Len(messages)) /\ Alike(page[p], g)
                /\ g.upto = page[p].upto /\ g.unread = page[p].unread
                /\ g.unsent = page[p].unsent /\ g.stale = page[p].stale
                /\ Becomes(p, Rendered(g, p))
<1>1. Fits(page[p], closes, Len(messages))
  BY OfOne
<1>2. page[p] \in Page
  BY <1>1 DEF Fits
<1> DEFINE b == ~page[p].watching
           w == [page[p] EXCEPT !.watching = b]
           g == IF w.watching /\ w.upto > 0 /\ ~w.loaded /\ w.load = "no"
                THEN [w EXCEPT !.load = "again"] ELSE w
<1>3. b \in BOOLEAN
  OBVIOUS
<1>4. w = [page[p] EXCEPT !.watching = ~@]
  OBVIOUS
<1> HIDE DEF b
<1>5. /\ w \in Page /\ Alike(page[p], w)
      /\ w.upto = page[p].upto /\ w.unread = page[p].unread
      /\ w.unsent = page[p].unsent /\ w.stale = page[p].stale
  BY <1>2, <1>3 DEF Page, Alike
<1>6. Becomes(p, Rendered(g, p))
  BY <1>4 DEF Select
<1> HIDE DEF w
<1>7. /\ g \in Page /\ Alike(w, g) /\ g.upto = w.upto /\ g.unread = w.unread
      /\ g.unsent = w.unsent /\ g.stale = w.stale
  BY <1>5 DEF Page, Alike
<1> HIDE DEF g
<1>8. Alike(page[p], g) /\ Fits(g, closes, Len(messages))
  BY <1>1, <1>5, <1>7 DEF Fits, Alike
<1> QED BY <1>5, <1>6, <1>7, <1>8

LEMMA LoadedTurns ==
  ASSUME TypeOK, Snapshots, NEW p \in Pages, Loaded(p)
  PROVE  \E g : /\ Fits(g, closes, Len(messages)) /\ Alike(page[p], g)
                /\ g.upto = fetched[p].upto /\ g.unread = fetched[p].unread
                /\ g.unsent = page[p].unsent
                /\ ~(fetched[p].upto >= announced)
                     => g.stale = (page[p].stale \/ fetched[p].upto < page[p].upto)
                /\ Becomes(p, Rendered(g, p))
<1>1. fetched[p] \in Snapshot /\ fetched[p].upto <= Len(messages)
  BY OfOne DEF Snapshots, Honest
<1> DEFINE s == Shown(page[p], fetched[p])
           g == [s EXCEPT !.load = "no"]
<1>2. /\ Fits(s, closes, Len(messages)) /\ Alike(page[p], s)
      /\ s.upto = fetched[p].upto /\ s.unread = fetched[p].unread /\ s.unsent = page[p].unsent
      /\ ~(fetched[p].upto >= announced)
           => s.stale = (page[p].stale \/ fetched[p].upto < page[p].upto)
  BY <1>1, AlikeShown
<1>3. Becomes(p, Rendered(g, p))
  BY DEF Loaded
<1> HIDE DEF s
<1>4. s \in Page
  BY <1>2 DEF Fits
<1>5. /\ g \in Page /\ Alike(s, g) /\ g.upto = s.upto /\ g.unread = s.unread
      /\ g.unsent = s.unsent /\ g.stale = s.stale
  BY <1>4 DEF Page, Alike
<1> HIDE DEF g
<1>6. Alike(page[p], g) /\ Fits(g, closes, Len(messages))
  BY <1>2, <1>5 DEF Fits, Alike
<1> QED BY <1>2, <1>3, <1>5, <1>6

LEMMA LoadFailsTurns ==
  ASSUME TypeOK, NEW p \in Pages, LoadFails(p)
  PROVE  /\ Turns(p) /\ Fits(page'[p], closes, Len(messages)) /\ Alike(page[p], page'[p])
         /\ page'[p].unsent = page[p].unsent
         /\ \/ /\ page'[p].upto = page[p].upto /\ page'[p].stale = page[p].stale
               /\ page'[p].unread = page[p].unread
            \/ page'[p].upto = 0 /\ page'[p].stale
<1>1. Fits(page[p], closes, Len(messages)) /\ Len(messages) \in Nat
  BY OfOne
<1>2. page[p] \in Page
  BY <1>1 DEF Fits
<1> DEFINE again == [page[p] EXCEPT !.load = "no"]
           first == [page[p] EXCEPT !.load = "no", !.loaded = FALSE, !.stale = TRUE,
                                    !.upto = 0, !.unread = FALSE, !.readTo = 0]
           m == IF page[p].load = "again" THEN again ELSE first
<1>3. page' = [page EXCEPT ![p] = m]
  BY DEF LoadFails
<1>4. /\ again \in Page /\ Alike(page[p], again) /\ again.unsent = page[p].unsent
      /\ again.upto = page[p].upto /\ again.stale = page[p].stale
      /\ again.unread = page[p].unread
  BY <1>2 DEF Page, Alike
<1>5. /\ first \in Page /\ Alike(page[p], first) /\ first.unsent = page[p].unsent
      /\ first.upto = 0 /\ first.stale
  BY <1>2 DEF Page, Alike
<1> HIDE DEF again, first
<1>6. /\ m \in Page /\ Alike(page[p], m) /\ m.unsent = page[p].unsent
      /\ \/ m.upto = page[p].upto /\ m.stale = page[p].stale /\ m.unread = page[p].unread
         \/ m.upto = 0 /\ m.stale
  BY <1>4, <1>5
<1> HIDE DEF m
<1>7. page[p].number >= page[p].number
  BY <1>2 DEF Page
<1>8. Fits(m, closes, Len(messages)) /\ Keeps(page[p], m)
  BY <1>1, <1>6, <1>7 DEF Fits, Alike, Keeps
<1>9. requests' = requests
  BY DEF LoadFails
<1>10. Turns(p) /\ page'[p] = m
  BY <1>3, <1>6, <1>8, <1>9, NoRequest, KeepsTurns
<1> QED BY <1>6, <1>8, <1>10

-----------------------------------------------------------------------------
(* Type correctness, for the steps of a page.                              *)

LEMMA Grows ==
  ASSUME TypeOK, NEW p \in Pages, Turns(p)
  PROVE  /\ page'[p].number >= page[p].number
         /\ \A s \in Sockets : requests[s] = <<>>
              => requests'[s] = <<>> \/ (s = <<p, page[p].number>> /\ Asks(page[p], page'[p]))
<1>1. page[p] \in Page /\ page'[p] \in Page
  BY DEF TypeOK, Turns
<1>2. page'[p].number >= page[p].number
  BY <1>1 DEF Turns, Keeps, Waits, Asks, Page
<1>3. ASSUME NEW s \in Sockets, requests[s] = <<>>, Shorter(requests'[s], requests[s])
      PROVE  requests'[s] = <<>>
  <2>1. requests'[s] \in Seq(Nat)
    BY DEF Turns
  <2>2. Len(requests'[s]) = 0
    BY <1>3, <2>1 DEF Shorter
  <2> QED BY <2>1, <2>2, EmptySeq
<1> QED BY <1>2, <1>3 DEF Turns

LEMMA PageTypes ==
  ASSUME TypeOK, Snapshots, NEW p \in Pages, Turns(p),
         Fits(page'[p], closes', Len(messages)), closes' \in 0 .. MaxCloses, selects' \in Nat,
         closes <= closes', UNCHANGED <<database, conn, handler, announced>>,
         wire' \in [Pages -> Seq(Event)], fetched' \in [Pages -> Snapshot],
         \A q \in Pages \ {p} : wire'[q] = wire[q],
         Carries(wire'[p], Len(messages), Unread),
         wire'[p] # <<>> => page'[p].socket # "closed",
         \A q \in Pages : Honest(fetched'[q], Len(messages), Unread)
  PROVE  TypeOK' /\ Snapshots'
<1>1. DataOK /\ ServerOK /\ LinksOK /\ PagesOK
  BY Parts
<1>2. messages' = messages /\ cursor' = cursor /\ conn' = conn /\ handler' = handler
      /\ announced' = announced
  BY DEF database
<1>3. DataOK' /\ ServerOK'
  BY <1>1, <1>2 DEF DataOK, ServerOK
<1>4. page' \in [Pages -> Page] /\ \A q \in Pages \ {p} : page'[q] = page[q]
  BY DEF Turns
<1>5. LinksOK'
  <2>1. requests' \in [Sockets -> Seq(Nat)]
    BY DEF Turns
  <2>2. ASSUME NEW s \in Sockets, s \in conn \/ requests'[s] # <<>>
        PROVE  s[2] <= page'[s[1]].number
    <3>1. s[1] \in Pages /\ s[2] \in Nat /\ s = <<s[1], s[2]>>
      BY DEF Sockets
    <3>2. page[s[1]].number \in Nat /\ page'[s[1]].number \in Nat
      <4>1. page[s[1]] \in Page /\ page'[s[1]] \in Page
        BY <1>1, <1>4, <3>1 DEF PagesOK
      <4> QED BY <4>1 DEF Page
    <3>3. page'[s[1]].number >= page[s[1]].number
      BY <1>4, <3>1, <3>2, Grows
    <3>4. CASE s \in conn \/ requests[s] # <<>>
      BY <1>1, <3>1, <3>2, <3>3, <3>4 DEF LinksOK
    <3>5. CASE ~(s \in conn \/ requests[s] # <<>>)
      <4>1. s = <<p, page[p].number>>
        BY <2>2, <3>5, Grows
      <4> QED BY <3>1, <3>2, <3>3, <4>1
    <3> QED BY <3>4, <3>5
  <2>3. \A q \in Pages : wire'[q] # <<>> => page'[q].socket # "closed"
    BY <1>1, <1>4 DEF LinksOK
  <2> QED BY <1>2, <2>1, <2>2, <2>3 DEF LinksOK
<1>6. PagesOK'
  <2>1. ASSUME NEW q \in Pages, q # p PROVE Fits(page'[q], closes', Len(messages))
    <3>1. Fits(page[q], closes, Len(messages)) /\ closes \in Nat /\ closes' \in Nat
      BY <1>1, BoundAssumption DEF PagesOK
    <3>2. page[q].number \in Nat
      BY <3>1 DEF Fits, Page
    <3> QED BY <1>4, <2>1, <3>1, <3>2 DEF Fits
  <2> QED BY <1>1, <1>2, <1>4, <2>1 DEF PagesOK
<1>7. TypeOK'
  <2>1. (DataOK /\ ServerOK /\ LinksOK /\ PagesOK)'
    BY <1>3, <1>5, <1>6
  <2> QED BY <2>1, Parts, PTL
<1>8. Unread' = Unread
  BY <1>2 DEF Unread, IsUnread
<1>9. Snapshots'
  BY <1>2, <1>8 DEF Snapshots
<1> QED BY <1>7, <1>9

\* A page that keeps its connection, its wire, and what it fetches.
LEMMA QuietTypes ==
  ASSUME TypeOK, Snapshots, NEW p \in Pages, Turns(p), Fits(page'[p], closes, Len(messages)),
         page[p].socket # "closed" => page'[p].socket # "closed", selects' \in Nat,
         UNCHANGED <<database, conn, handler, wire, announced, closes>>,
         fetched' \in [Pages -> Snapshot],
         \A q \in Pages : Honest(fetched'[q], Len(messages), Unread)
  PROVE  TypeOK' /\ Snapshots'
<1>1. closes \in 0 .. MaxCloses /\ closes <= closes
  BY OfOne
<1>2. wire \in [Pages -> Seq(Event)] /\ (wire[p] # <<>> => page[p].socket # "closed")
  BY DEF TypeOK
<1>3. Carries(wire[p], Len(messages), Unread)
  BY DEF Snapshots
<1> QED BY <1>1, <1>2, <1>3, PageTypes

LEMMA OldFetched ==
  ASSUME TypeOK, Snapshots, fetched' = fetched
  PROVE  /\ fetched' \in [Pages -> Snapshot]
         /\ \A q \in Pages : Honest(fetched'[q], Len(messages), Unread)
BY DEF TypeOK, Snapshots

LEMMA NotFetched ==
  ASSUME TypeOK, Snapshots, NEW p \in Pages, NEW s \in Snapshot,
         Honest(s, Len(messages), Unread), fetched' = [fetched EXCEPT ![p] = s]
  PROVE  /\ fetched' \in [Pages -> Snapshot]
         /\ \A q \in Pages : Honest(fetched'[q], Len(messages), Unread)
BY DEF TypeOK, Snapshots

\* An answer that is not there conceals nothing.
LEMMA NoneFetched ==
  ASSUME TypeOK, Snapshots, NEW p \in Pages, fetched' = [fetched EXCEPT ![p] = NoSnapshot]
  PROVE  /\ fetched' \in [Pages -> Snapshot]
         /\ \A q \in Pages : Honest(fetched'[q], Len(messages), Unread)
<1>1. Len(messages) \in Nat /\ DOMAIN messages = 1 .. Len(messages)
  BY DEF TypeOK
<1>2. NoSnapshot \in Snapshot /\ NoSnapshot.upto = 0
  BY DEF NoSnapshot, Snapshot
<1>3. Len(messages) = 0 => ~Unread
  BY <1>1 DEF Unread
<1>4. Honest(NoSnapshot, Len(messages), Unread)
  BY <1>1, <1>2, <1>3 DEF Honest
<1> QED BY <1>2, <1>4, NotFetched

LEMMA BrowserTypes ==
  ASSUME TypeOK, Snapshots, NEW p \in Pages, Browser(p)
  PROVE  TypeOK' /\ Snapshots'
<1>0. /\ Fits(page[p], closes, Len(messages)) /\ closes \in 0 .. MaxCloses /\ MaxCloses \in Nat
      /\ selects \in Nat /\ wire \in [Pages -> Seq(Event)]
  BY OfOne DEF TypeOK
<1>1. CASE Receive(p)
  <2>1. wire[p] \in Seq(Event) /\ Carries(wire[p], Len(messages), Unread) /\ wire[p] # <<>>
    BY <1>0, <1>1 DEF Snapshots, Receive
  <2>2. Tail(wire[p]) \in Seq(Event) /\ Carries(Tail(wire[p]), Len(messages), Unread)
    BY <2>1, CarriesLess
  <2>3. wire' = [wire EXCEPT ![p] = Tail(wire[p])] /\ page[p].socket # "closed"
    BY <1>1 DEF Receive
  <2>4. /\ wire' \in [Pages -> Seq(Event)] /\ \A q \in Pages \ {p} : wire'[q] = wire[q]
        /\ Carries(wire'[p], Len(messages), Unread)
    BY <1>0, <2>2, <2>3
  <2>5. Turns(p) /\ Fits(page'[p], closes, Len(messages)) /\ Stays(page[p], page'[p])
    BY <1>1, ReceiveTurns
  <2>6. /\ UNCHANGED <<database, conn, handler, announced>> /\ fetched' = fetched
        /\ closes' = closes /\ selects' = selects
    BY <1>1 DEF Receive, bounds
  <2>7. closes <= closes'
    BY <1>0, <2>6
  <2> QED BY <1>0, <2>3, <2>4, <2>5, <2>6, <2>7, PageTypes, OldFetched DEF Stays
<1>2. CASE MarkTimesOut(p)
  <2>1. Turns(p) /\ Fits(page'[p], closes, Len(messages)) /\ Stays(page[p], page'[p])
    BY <1>2, TimesOutTurns
  <2>2. /\ UNCHANGED <<database, conn, handler, wire, announced, closes>> /\ fetched' = fetched
        /\ selects' = selects
    BY <1>2 DEF MarkTimesOut, bounds
  <2> QED BY <1>0, <2>1, <2>2, OldFetched, QuietTypes DEF Stays
<1>3. CASE Opened(p)
  <2>1. Turns(p) /\ Fits(page'[p], closes, Len(messages)) /\ Stays(page[p], page'[p])
    BY <1>3, OpenedTurns
  <2>2. /\ UNCHANGED <<database, conn, handler, wire, announced, closes>> /\ fetched' = fetched
        /\ selects' = selects
    BY <1>3 DEF Opened, bounds
  <2> QED BY <1>0, <2>1, <2>2, OldFetched, QuietTypes DEF Stays
<1>4. CASE Reconnect(p)
  <2>1. Turns(p) /\ Fits(page'[p], closes, Len(messages)) /\ page'[p].socket # "closed"
    BY <1>4, ReconnectTurns
  <2>2. /\ UNCHANGED <<database, conn, handler, wire, announced, closes>> /\ fetched' = fetched
        /\ selects' = selects
    BY <1>4 DEF Reconnect, bounds
  <2> QED BY <1>0, <2>1, <2>2, OldFetched, QuietTypes
<1>5. ASSUME NEW hidden \in BOOLEAN, Closed(p, hidden) PROVE TypeOK' /\ Snapshots'
  <2>1. /\ Turns(p) /\ Fits(page'[p], closes', Len(messages)) /\ closes' \in 0 .. MaxCloses
    BY <1>5, ClosedTurns
  <2>2. /\ UNCHANGED <<database, conn, handler, announced>> /\ fetched' = fetched /\ selects' = selects
        /\ closes' = closes + 1 /\ wire' = [wire EXCEPT ![p] = <<>>]
    BY <1>5 DEF Closed
  <2>3. closes <= closes'
    BY <1>0, <2>2
  <2>4. /\ wire' \in [Pages -> Seq(Event)] /\ \A q \in Pages \ {p} : wire'[q] = wire[q]
        /\ wire'[p] = <<>> /\ Carries(<<>>, Len(messages), Unread)
    BY <1>0, <2>2 DEF Carries
  <2> QED BY <1>0, <2>1, <2>2, <2>3, <2>4, PageTypes, OldFetched
<1>6. CASE Select(p)
  <2>1. PICK g : /\ Fits(g, closes, Len(messages)) /\ Alike(page[p], g)
                 /\ Becomes(p, Rendered(g, p))
    BY <1>6, SelectTurns
  <2>2. /\ Turns(p) /\ Fits(page'[p], closes, Len(messages))
        /\ page[p].socket # "closed" => page'[p].socket = page[p].socket
    BY <2>1, RenderTurns
  <2>3. /\ UNCHANGED <<database, conn, handler, wire, announced, closes>> /\ fetched' = fetched
        /\ selects' \in Nat
    BY <1>0, <1>6 DEF Select
  <2> QED BY <2>2, <2>3, OldFetched, QuietTypes
<1>7. CASE Answer(p)
  <2> DEFINE s == SnapshotAt(cursor)
  <2>1. s \in Snapshot /\ s.upto = Len(messages) /\ s.unread = Unread
    BY OfOne, SnapshotNow DEF Unread
  <2>2. Honest(s, Len(messages), Unread)
    BY <2>1, OfOne DEF Honest
  <2>3. fetched' = [fetched EXCEPT ![p] = s]
    BY <1>7 DEF Answer
  <2> HIDE DEF s
  <2>4. /\ fetched' \in [Pages -> Snapshot]
        /\ \A q \in Pages : Honest(fetched'[q], Len(messages), Unread)
    BY <2>1, <2>2, <2>3, NotFetched
  <2>5. /\ UNCHANGED <<database, conn, handler, wire, announced, closes>> /\ page' = page
        /\ requests' = requests /\ selects' = selects
    BY <1>7 DEF Answer, bounds
  <2>6. page' = [page EXCEPT ![p] = page[p]] /\ page[p] \in Page /\ page[p].number >= page[p].number
    BY <1>0, <2>5 DEF TypeOK, Fits, Page
  <2>7. Turns(p)
    BY <2>5, <2>6, NoRequest, KeepsTurns DEF Keeps
  <2> QED BY <1>0, <2>4, <2>5, <2>7, QuietTypes
<1>8. CASE Loaded(p)
  <2>1. PICK g : /\ Fits(g, closes, Len(messages)) /\ Alike(page[p], g)
                 /\ Becomes(p, Rendered(g, p))
    BY <1>8, LoadedTurns
  <2>2. /\ Turns(p) /\ Fits(page'[p], closes, Len(messages))
        /\ page[p].socket # "closed" => page'[p].socket = page[p].socket
    BY <2>1, RenderTurns
  <2>3. /\ UNCHANGED <<database, conn, handler, wire, announced, closes>> /\ selects' = selects
        /\ fetched' = [fetched EXCEPT ![p] = NoSnapshot]
    BY <1>8 DEF Loaded, bounds
  <2> QED BY <1>0, <2>2, <2>3, NoneFetched, QuietTypes
<1>9. CASE LoadFails(p)
  <2>1. Turns(p) /\ Fits(page'[p], closes, Len(messages)) /\ Alike(page[p], page'[p])
    BY <1>9, LoadFailsTurns
  <2>2. /\ UNCHANGED <<database, conn, handler, wire, announced, closes>> /\ selects' = selects
        /\ fetched' = [fetched EXCEPT ![p] = NoSnapshot]
    BY <1>9 DEF LoadFails, bounds
  <2> QED BY <1>0, <2>1, <2>2, NoneFetched, QuietTypes DEF Alike
<1> QED BY <1>1, <1>2, <1>3, <1>4, <1>5, <1>6, <1>7, <1>8, <1>9 DEF Browser

-----------------------------------------------------------------------------
(* Type correctness, for the steps of the server.                          *)

\* A page that gets no snapshot of a broadcast is known to miss it.
LEMMA Misses ==
  ASSUME TypeOK
  PROVE  /\ Missing(page) \in [Pages -> Page]
         /\ \A p \in Pages :
              /\ Same(page[p], Missing(page)[p]) /\ Missing(page)[p].unsent = page[p].unsent
              /\ Fits(Missing(page)[p], closes, Len(messages))
              /\ Missing(page)[p].stale \/ \E s \in conn : s[1] = p /\ Live(s)
<1> DEFINE told(p) == \E s \in conn : s[1] = p /\ Live(s)
<1>1. ASSUME NEW p \in Pages
      PROVE  /\ Missing(page)[p] \in Page
             /\ Same(page[p], Missing(page)[p]) /\ Missing(page)[p].unsent = page[p].unsent
             /\ Fits(Missing(page)[p], closes, Len(messages))
             /\ Missing(page)[p].stale \/ told(p)
  <2> DEFINE b == page[p].stale \/ ~told(p)
             m == [page[p] EXCEPT !.stale = b]
  <2>1. Fits(page[p], closes, Len(messages))
    BY OfOne
  <2>2. page[p] \in Page
    BY <2>1 DEF Fits
  <2>3. b \in BOOLEAN
    BY <2>2 DEF Page
  <2>4. Missing(page)[p] = m
    BY DEF Missing
  <2>5. (page[p].stale => b) /\ (b \/ told(p))
    OBVIOUS
  <2> HIDE DEF b, told
  <2>6. /\ m \in Page /\ Alike(page[p], m) /\ m.upto = page[p].upto /\ m.unread = page[p].unread
        /\ m.unsent = page[p].unsent /\ m.stale = b
    BY <2>2, <2>3 DEF Page, Alike
  <2> HIDE DEF m
  <2>7. Fits(m, closes, Len(messages))
    BY <2>1, <2>6 DEF Fits, Alike
  <2> QED BY <2>4, <2>5, <2>6, <2>7 DEF Same
<1>2. Missing(page) \in [Pages -> Page]
  <2> DEFINE r(p) == [page[p] EXCEPT !.stale = @ \/ ~\E s \in conn : s[1] = p /\ Live(s)]
  <2>1. Missing(page) = [p \in Pages |-> r(p)]
    BY DEF Missing
  <2> HIDE DEF r
  <2>2. \A p \in Pages : r(p) \in Page
    BY <1>1, <2>1
  <2> QED BY <2>1, <2>2
<1> QED BY <1>1, <1>2

LEMMA Broadcasts ==
  ASSUME TypeOK, NEW c \in Nat, NEW A \in SUBSET Result, \A a, b \in A : a = b
  PROVE  LET k == Broadcasting(SnapshotAt(c), A)
         IN /\ k \in Coroutine /\ k.step = "send" /\ k.todo = conn
            /\ k.snapshot = SnapshotAt(c) /\ k.answers = A
            /\ \A a, b \in k.answers : a = b
<1>1. SnapshotAt(c) \in Snapshot /\ conn \subseteq Sockets
  BY SnapshotNow DEF TypeOK
<1> QED BY <1>1 DEF Broadcasting, Coroutine

LEMMA Goes ==
  ASSUME TypeOK, NEW h \in Coroutines, NEW k \in Coroutine, \A a, b \in k.answers : a = b,
         handler' = [handler EXCEPT ![h] = k]
  PROVE  /\ handler' \in [Coroutines -> Coroutine] /\ handler'[h] = k
         /\ \A g \in Coroutines \ {h} : handler'[g] = handler[g]
         /\ \A g \in Coroutines : \A a, b \in handler'[g].answers : a = b
BY DEF TypeOK

LEMMA ServerTypes ==
  ASSUME TypeOK, Snapshots, DataOK', ServerOK',
         page' \in [Pages -> Page],
         \A p \in Pages : Same(page[p], page'[p]) /\ Fits(page'[p], closes, Len(messages)),
         Later(Len(messages), Unread, Len(messages'), Unread'),
         \A s \in conn' : s \in conn \/ s[2] <= page[s[1]].number,
         requests' \in [Sockets -> Seq(Nat)],
         \A s \in Sockets : requests[s] = <<>> => requests'[s] = <<>>,
         wire' \in [Pages -> Seq(Event)],
         \A p \in Pages : /\ wire'[p] # <<>> => wire[p] # <<>> \/ page[p].socket # "closed"
                          /\ Carries(wire'[p], Len(messages), Unread),
         \A h \in Coroutines : handler'[h].step = "send" =>
            \/ handler[h].step = "send" /\ handler'[h].snapshot = handler[h].snapshot
            \/ Honest(handler'[h].snapshot, Len(messages'), Unread'),
         UNCHANGED <<fetched, bounds>>, announced' \in {announced, Len(messages)}
  PROVE  TypeOK' /\ Snapshots'
<1>1. DataOK /\ ServerOK /\ LinksOK /\ PagesOK
  BY Parts
<1>2. fetched' = fetched /\ closes' = closes /\ selects' = selects
  BY DEF bounds
<1>3. Len(messages) \in Nat /\ Len(messages') \in Nat /\ Len(messages) <= Len(messages')
  <2>1. messages \in Seq({"customer", "sales"}) /\ messages' \in Seq({"customer", "sales"})
    BY <1>1 DEF DataOK
  <2>2. Len(messages) \in Nat /\ Len(messages') \in Nat
    BY <2>1
  <2> QED BY <2>2 DEF Later
<1>4. LinksOK'
  <2>1. ASSUME NEW s \in Sockets, s \in conn' \/ requests'[s] # <<>>
        PROVE  s[2] <= page'[s[1]].number
    <3>1. s[1] \in Pages
      BY DEF Sockets
    <3>2. page'[s[1]].number = page[s[1]].number
      BY <3>1 DEF Same, Alike
    <3> QED BY <1>1, <2>1, <3>2 DEF LinksOK
  <2>2. \A p \in Pages : wire'[p] # <<>> => page'[p].socket # "closed"
    BY <1>1 DEF LinksOK, Same, Alike
  <2>3. fetched' \in [Pages -> Snapshot]
    BY <1>1, <1>2 DEF LinksOK
  <2> QED BY <2>1, <2>2, <2>3 DEF LinksOK
<1>5. PagesOK'
  <2>1. ASSUME NEW p \in Pages PROVE Fits(page'[p], closes', Len(messages'))
    <3>1. Fits(page'[p], closes, Len(messages))
      OBVIOUS
    <3>2. page'[p].upto \in Nat
      BY <3>1 DEF Fits, Page
    <3> QED BY <1>2, <1>3, <3>1, <3>2 DEF Fits
  <2>2. announced' \in 0 .. Len(messages')
    BY <1>1, <1>3 DEF PagesOK
  <2> QED BY <1>1, <1>2, <2>1, <2>2 DEF PagesOK
<1>6. TypeOK'
  <2>1. (DataOK /\ ServerOK /\ LinksOK /\ PagesOK)'
    BY <1>4, <1>5
  <2> QED BY <2>1, Parts, PTL
<1>7. ASSUME NEW h \in Coroutines, handler'[h].step = "send"
      PROVE  Honest(handler'[h].snapshot, Len(messages'), Unread')
  <2>1. CASE handler[h].step = "send" /\ handler'[h].snapshot = handler[h].snapshot
    <3>1. handler[h].snapshot \in Snapshot
      BY OfOne DEF Coroutine
    <3>2. Honest(handler[h].snapshot, Len(messages), Unread)
      BY <2>1 DEF Snapshots
    <3> QED BY <1>3, <2>1, <3>1, <3>2, HonestLater
  <2> QED BY <1>7, <2>1
<1>8. ASSUME NEW p \in Pages
      PROVE  /\ Honest(fetched'[p], Len(messages'), Unread')
             /\ Carries(wire'[p], Len(messages'), Unread')
  <2>1. fetched[p] \in Snapshot /\ Honest(fetched[p], Len(messages), Unread)
    BY OfOne DEF Snapshots
  <2>2. wire'[p] \in Seq(Event) /\ Carries(wire'[p], Len(messages), Unread)
    OBVIOUS
  <2> QED BY <1>2, <1>3, <2>1, <2>2, HonestLater, CarriesLater
<1> QED BY <1>6, <1>7, <1>8 DEF Snapshots

LEMMA OldPages ==
  ASSUME TypeOK, page' = page
  PROVE  /\ page' \in [Pages -> Page]
         /\ \A p \in Pages : Same(page[p], page'[p]) /\ Fits(page'[p], closes, Len(messages))
BY OfOne DEF TypeOK, Same, Alike

LEMMA OldWire ==
  ASSUME TypeOK, Snapshots, wire' = wire
  PROVE  /\ wire' \in [Pages -> Seq(Event)]
         /\ \A p \in Pages : /\ wire'[p] # <<>> => wire[p] # <<>> \/ page[p].socket # "closed"
                             /\ Carries(wire'[p], Len(messages), Unread)
BY DEF TypeOK, Snapshots

LEMMA OldData ==
  ASSUME TypeOK, UNCHANGED database
  PROVE  /\ DataOK' /\ Unread' = Unread /\ Later(Len(messages), Unread, Len(messages'), Unread')
         /\ messages' = messages /\ cursor' = cursor
<1>1. messages' = messages /\ cursor' = cursor /\ DataOK
  BY Parts DEF database
<1>2. Unread' = Unread
  BY <1>1 DEF Unread, IsUnread
<1> QED BY <1>1, <1>2 DEF DataOK, Later

LEMMA OldHandlers ==
  ASSUME TypeOK, handler' = handler, conn' \subseteq Sockets
  PROVE  ServerOK'
BY DEF TypeOK, ServerOK

LEMMA OldRequests ==
  ASSUME TypeOK, requests' = requests
  PROVE  /\ requests' \in [Sockets -> Seq(Nat)]
         /\ \A s \in Sockets : requests[s] = <<>> => requests'[s] = <<>>
BY DEF TypeOK

\* The newest message is read: none is unread.
LEMMA ReadsAll ==
  ASSUME TypeOK, cursor' = Newest, messages' = messages
  PROVE  /\ DataOK' /\ ~Unread' /\ Later(Len(messages), Unread, Len(messages'), Unread')
         /\ Len(messages) \in Nat
<1>1. DataOK /\ Len(messages) \in Nat
  BY Parts, OfOne
<1>2. ~Unread'
  BY AllRead DEF Unread, IsUnread, Newest
<1>3. DataOK'
  BY <1>1 DEF DataOK, Newest
<1> QED BY <1>1, <1>2, <1>3 DEF Later

LEMMA StoresOne ==
  ASSUME TypeOK, NEW sender \in {"customer", "sales"},
         messages' = Append(messages, sender), cursor' = cursor
  PROVE  DataOK' /\ Later(Len(messages), Unread, Len(messages'), Unread')
<1>1. DataOK /\ Len(messages) \in Nat
  BY Parts, OfOne
<1>2. messages' \in Seq({"customer", "sales"}) /\ Len(messages') = Len(messages) + 1
  BY <1>1 DEF DataOK
<1> QED BY <1>1, <1>2 DEF DataOK, Later

LEMMA StoreTypes ==
  ASSUME TypeOK, Snapshots, NEW h \in Handlers, NEW sender \in {"customer", "sales"},
         Store(h, sender)
  PROVE  TypeOK' /\ Snapshots'
<1>1. DataOK /\ Len(messages) \in Nat /\ h \in Coroutines /\ handler[h] \in Coroutine
  BY Parts, OfOne
<1>2. /\ messages' = Append(messages, sender) /\ cursor' = cursor /\ handler[h].step = "idle"
      /\ handler' = [handler EXCEPT ![h].step = "stored"]
      /\ UNCHANGED <<fetched, bounds>> /\ announced' \in {announced, Len(messages)}
      /\ conn' = conn /\ wire' = wire
      /\ requests' = requests /\ page' = page
  BY DEF Store
<1>4. DataOK' /\ Later(Len(messages), Unread, Len(messages'), Unread')
  BY <1>2, StoresOne
<1> DEFINE k == [handler[h] EXCEPT !.step = "stored"]
<1>5. k \in Coroutine /\ k.step = "stored" /\ \A a, b \in k.answers : a = b
  BY <1>1 DEF Coroutine, TypeOK
<1>6. handler' = [handler EXCEPT ![h] = k]
  BY <1>2
<1> HIDE DEF k
<1>7. /\ handler' \in [Coroutines -> Coroutine] /\ handler'[h] = k
      /\ \A g \in Coroutines \ {h} : handler'[g] = handler[g]
      /\ \A g \in Coroutines : \A a, b \in handler'[g].answers : a = b
  BY <1>1, <1>5, <1>6, Goes
<1>8. ServerOK'
  BY <1>2, <1>7 DEF ServerOK, TypeOK
<1>9. \A g \in Coroutines : handler'[g].step = "send"
        => handler[g].step = "send" /\ handler'[g].snapshot = handler[g].snapshot
  BY <1>5, <1>7
<1> QED BY <1>2, <1>4, <1>8, <1>9, OldPages, OldWire, OldRequests, ServerTypes

LEMMA BuildTypes ==
  ASSUME TypeOK, Snapshots, NEW h \in Handlers, Build(h)
  PROVE  TypeOK' /\ Snapshots'
<1>1. h \in Coroutines /\ cursor \in Nat /\ Len(messages) \in Nat
  BY OfOne
<1> DEFINE k == Broadcasting(SnapshotAt(cursor), {})
<1>2. /\ UNCHANGED database /\ handler' = [handler EXCEPT ![h] = k]
      /\ UNCHANGED <<fetched, bounds>> /\ announced' \in {announced, Len(messages)}
      /\ conn' = conn /\ wire' = wire
      /\ requests' = requests /\ page' = Missing(page)
  BY DEF Build
<1>3. {} \in SUBSET Result /\ \A a, b \in {} : a = b
  OBVIOUS
<1>4. k \in Coroutine /\ k.step = "send" /\ k.snapshot = SnapshotAt(cursor)
      /\ \A a, b \in k.answers : a = b
  BY <1>1, <1>3, Broadcasts
<1> HIDE DEF k
<1>5. Honest(SnapshotAt(cursor), Len(messages), Unread)
  <2>1. SnapshotAt(cursor).upto = Len(messages) /\ SnapshotAt(cursor).unread = Unread
    BY <1>1, SnapshotNow DEF Unread
  <2> QED BY <1>1, <2>1 DEF Honest
<1>6. /\ handler' \in [Coroutines -> Coroutine] /\ handler'[h] = k
      /\ \A g \in Coroutines \ {h} : handler'[g] = handler[g]
      /\ \A g \in Coroutines : \A a, b \in handler'[g].answers : a = b
  BY <1>1, <1>2, <1>4, Goes
<1>7. ServerOK'
  BY <1>2, <1>6 DEF ServerOK, TypeOK
<1>8. DataOK' /\ Unread' = Unread /\ Later(Len(messages), Unread, Len(messages'), Unread')
      /\ messages' = messages
  BY <1>2, OldData
<1>9. \A g \in Coroutines : handler'[g].step = "send" =>
        \/ handler[g].step = "send" /\ handler'[g].snapshot = handler[g].snapshot
        \/ Honest(handler'[g].snapshot, Len(messages'), Unread')
  BY <1>4, <1>5, <1>6, <1>8
<1>10. /\ page' \in [Pages -> Page]
       /\ \A p \in Pages : Same(page[p], page'[p]) /\ Fits(page'[p], closes, Len(messages))
  BY <1>2, Misses
<1> QED BY <1>2, <1>7, <1>8, <1>9, <1>10, OldWire, OldRequests, ServerTypes

LEMMA SendToTypes ==
  ASSUME TypeOK, Snapshots, NEW h \in Coroutines, NEW s \in Sockets, SendTo(h, s)
  PROVE  /\ TypeOK' /\ Snapshots'
         /\ \A g \in Coroutines : /\ handler'[g].step = handler[g].step
                                  /\ handler'[g].snapshot = handler[g].snapshot
                                  /\ handler'[g].answers = handler[g].answers
         /\ \A g \in Coroutines \ {h} : handler'[g].todo = handler[g].todo
         /\ handler'[h].todo = handler[h].todo \ {s}
         /\ \A p \in Pages : wire'[p] =
              IF p = s[1] /\ Live(s)
              THEN Append(wire[p], [type |-> "session_updated", snapshot |-> handler[h].snapshot])
              ELSE wire[p]
<1>1. /\ s[1] \in Pages /\ handler[h] \in Coroutine /\ handler[h].step = "send"
      /\ Honest(handler[h].snapshot, Len(messages), Unread)
  BY OfOne DEF SendTo, Snapshots
<1>2. handler[h].snapshot \in Snapshot
  BY <1>1 DEF Coroutine
<1>3. /\ UNCHANGED database /\ UNCHANGED <<fetched, bounds>> /\ conn' = conn
      /\ announced' \in {announced, Len(messages)}
      /\ requests' = requests /\ page' = page
  BY DEF SendTo
<1>4. PICK k \in Coroutine :
        /\ handler' = [handler EXCEPT ![h] = k]
        /\ k.step = handler[h].step /\ k.snapshot = handler[h].snapshot
        /\ k.answers = handler[h].answers /\ k.todo = handler[h].todo \ {s}
  <2> DEFINE t == handler[h].todo \ {s}
  <2>1. t \in SUBSET Sockets
    BY <1>1 DEF Coroutine
  <2>2. CASE Live(s)
    <3> DEFINE k == [handler[h] EXCEPT !.todo = t]
    <3>1. handler' = [handler EXCEPT ![h] = k]
      BY <2>2 DEF SendTo
    <3>2. k \in Coroutine /\ k.step = handler[h].step /\ k.snapshot = handler[h].snapshot
          /\ k.answers = handler[h].answers /\ k.todo = t
      BY <1>1, <2>1 DEF Coroutine
    <3> QED BY <3>1, <3>2
  <2>3. CASE ~Live(s)
    <3>1. PICK raises \in SUBSET {s} :
            handler' = [handler EXCEPT ![h].todo = @ \ {s}, ![h].dead = @ \cup raises]
      BY <2>3 DEF SendTo
    <3> DEFINE d == handler[h].dead \cup raises
               k == [handler[h] EXCEPT !.todo = t, !.dead = d]
    <3>2. handler' = [handler EXCEPT ![h] = k]
      BY <3>1 DEF TypeOK
    <3>3. d \in SUBSET Sockets
      BY <1>1 DEF Coroutine
    <3>4. k \in Coroutine /\ k.step = handler[h].step /\ k.snapshot = handler[h].snapshot
          /\ k.answers = handler[h].answers /\ k.todo = t
      BY <1>1, <2>1, <3>3 DEF Coroutine
    <3> QED BY <3>2, <3>4
  <2> QED BY <2>2, <2>3
<1>5. /\ handler' \in [Coroutines -> Coroutine] /\ handler'[h] = k
      /\ \A g \in Coroutines \ {h} : handler'[g] = handler[g]
      /\ \A g \in Coroutines : \A a, b \in handler'[g].answers : a = b
  BY <1>4, Goes DEF TypeOK
<1>6. ServerOK'
  BY <1>3, <1>5 DEF ServerOK, TypeOK
<1>7. DataOK' /\ Later(Len(messages), Unread, Len(messages'), Unread')
  BY <1>3, OldData
<1> DEFINE e == [type |-> "session_updated", snapshot |-> handler[h].snapshot]
<1>8. \A p \in Pages : wire[p] \in Seq(Event) /\ Carries(wire[p], Len(messages), Unread)
  BY OfOne DEF Snapshots
<1>9. ASSUME NEW p \in Pages
      PROVE  Append(wire[p], e) \in Seq(Event) /\ Carries(Append(wire[p], e), Len(messages), Unread)
  BY <1>1, <1>2, <1>8, CarriesMore
<1>10. \A p \in Pages : wire'[p] = IF p = s[1] /\ Live(s) THEN Append(wire[p], e) ELSE wire[p]
  BY <1>1 DEF SendTo, TypeOK
<1>11. DOMAIN wire' = Pages /\ wire' = [p \in Pages |-> wire'[p]]
  BY <1>1 DEF SendTo, TypeOK
<1> HIDE DEF e
<1>12. wire' \in [Pages -> Seq(Event)]
  BY <1>8, <1>9, <1>10, <1>11
<1>13. \A p \in Pages : /\ wire'[p] # <<>> => wire[p] # <<>> \/ page[p].socket # "closed"
                        /\ Carries(wire'[p], Len(messages), Unread)
  BY <1>8, <1>9, <1>10 DEF Live
<1>14. TypeOK' /\ Snapshots'
  BY <1>3, <1>4, <1>5, <1>6, <1>7, <1>12, <1>13, OldPages, OldRequests, ServerTypes
<1> QED BY <1>4, <1>5, <1>10, <1>14 DEF e

LEMMA SendDoneTypes ==
  ASSUME TypeOK, Snapshots, NEW h \in Coroutines, SendDone(h)
  PROVE  /\ TypeOK' /\ Snapshots'
         /\ handler'[h] = Idle
         /\ \A g \in Coroutines \ {h} : handler'[g] = handler[g]
         /\ \A p \in Pages :
              /\ \A i \in DOMAIN wire'[p] :
                   \/ i \in DOMAIN wire[p] /\ wire'[p][i] = wire[p][i]
                   \/ wire'[p][i] \in handler[h].answers /\ h \in Sockets /\ p = h[1]
              /\ \A i \in DOMAIN wire[p] : i \in DOMAIN wire'[p] /\ wire'[p][i] = wire[p][i]
<1>1. handler[h] \in Coroutine /\ \A a, b \in handler[h].answers : a = b
  BY OfOne DEF TypeOK
<1>2. /\ UNCHANGED database /\ UNCHANGED <<fetched, bounds>> /\ announced' \in {announced, Len(messages)}
      /\ conn' = conn \ handler[h].dead /\ requests' = requests /\ page' = page
      /\ handler' = [handler EXCEPT ![h] = Idle]
  BY DEF SendDone
<1>3. Idle \in Coroutine /\ Idle.step = "idle" /\ Idle.answers = {}
  BY DEF Idle, Coroutine, NoSnapshot, Snapshot
<1>4. /\ handler' \in [Coroutines -> Coroutine] /\ handler'[h] = Idle
      /\ \A g \in Coroutines \ {h} : handler'[g] = handler[g]
      /\ \A g \in Coroutines : \A a, b \in handler'[g].answers : a = b
  BY <1>2, <1>3, Goes
<1>5. ServerOK' /\ \A s \in conn' : s \in conn
  BY <1>2, <1>4 DEF ServerOK, TypeOK
<1>6. DataOK' /\ Later(Len(messages), Unread, Len(messages'), Unread')
  BY <1>2, OldData
<1> DEFINE A == handler[h].answers
           x(p) == wire[p] \o SetToSeq(A)
<1>7. \A p \in Pages : wire[p] \in Seq(Event) /\ Carries(wire[p], Len(messages), Unread)
  BY OfOne DEF Snapshots
<1>8. A \in SUBSET Result /\ \A a, b \in A : a = b
  BY <1>1 DEF Coroutine
<1> HIDE DEF A
<1>9. ASSUME NEW p \in Pages
      PROVE  /\ x(p) \in Seq(Event) /\ Carries(x(p), Len(messages), Unread)
             /\ \A i \in DOMAIN x(p) : (i \in DOMAIN wire[p] /\ x(p)[i] = wire[p][i]) \/ x(p)[i] \in A
             /\ \A i \in DOMAIN wire[p] : i \in DOMAIN x(p) /\ x(p)[i] = wire[p][i]
  BY <1>7, <1>8, CarriesResult
<1>10. CASE h \in Sockets /\ Live(h)
  <2>1. h[1] \in Pages /\ page[h[1]].socket # "closed"
    BY <1>10, OfOne DEF Live
  <2>2. wire' = [wire EXCEPT ![h[1]] = x(h[1])]
    BY <1>10 DEF SendDone, A
  <2> HIDE DEF x
  <2>3. wire \in [Pages -> Seq(Event)]
    BY DEF TypeOK
  <2>4. /\ wire' \in [Pages -> Seq(Event)]
        /\ \A p \in Pages : wire'[p] = IF p = h[1] THEN x(p) ELSE wire[p]
    BY <1>9, <2>1, <2>2, <2>3
  <2>5. \A p \in Pages : /\ wire'[p] # <<>> => wire[p] # <<>> \/ page[p].socket # "closed"
                         /\ Carries(wire'[p], Len(messages), Unread)
    BY <1>7, <1>9, <2>1, <2>4
  <2>6. TypeOK' /\ Snapshots'
    BY <1>2, <1>3, <1>4, <1>5, <1>6, <2>4, <2>5, OldPages, OldRequests, ServerTypes
  <2>7. ASSUME NEW p \in Pages
        PROVE  /\ \A i \in DOMAIN wire'[p] :
                    \/ i \in DOMAIN wire[p] /\ wire'[p][i] = wire[p][i]
                    \/ wire'[p][i] \in A /\ h \in Sockets /\ p = h[1]
               /\ \A i \in DOMAIN wire[p] : i \in DOMAIN wire'[p] /\ wire'[p][i] = wire[p][i]
    BY <1>9, <1>10, <2>4
  <2> QED BY <1>4, <2>6, <2>7 DEF A
<1>11. CASE ~(h \in Sockets /\ Live(h))
  <2>1. wire' = wire
    BY <1>11 DEF SendDone
  <2>2. TypeOK' /\ Snapshots'
    BY <1>2, <1>3, <1>4, <1>5, <1>6, <2>1, OldPages, OldWire, OldRequests, ServerTypes
  <2> QED BY <1>4, <2>1, <2>2
<1> QED BY <1>10, <1>11

LEMMA MarkReadTypes ==
  ASSUME TypeOK, Snapshots, NEW s \in Sockets, MarkRead(s)
  PROVE  /\ TypeOK' /\ Snapshots' /\ ~Unread'
         /\ handler'[s].step = "send" /\ handler'[s].snapshot.upto = Len(messages)
         /\ handler'[s].todo = conn
         /\ handler'[s].answers = {[type |-> "operation_result", op |-> Head(requests[s])]}
         /\ \A g \in Coroutines \ {s} : handler'[g] = handler[g]
         /\ \A p \in Pages : Same(page[p], page'[p]) /\ (page'[p].stale \/ \E r \in conn : r[1] = p /\ Live(r))
         /\ requests' = [requests EXCEPT ![s] = Tail(requests[s])]
<1>1. s \in Coroutines /\ requests[s] \in Seq(Nat) /\ requests[s] # <<>> /\ s[1] \in Pages
  BY OfOne DEF MarkRead
<1>2. /\ Head(requests[s]) \in Nat /\ Tail(requests[s]) \in Seq(Nat)
  BY <1>1, HeadTailProperties
<1> DEFINE A == {[type |-> "operation_result", op |-> Head(requests[s])]}
           k == Broadcasting(SnapshotAt(Newest), A)
           g == Missing(page)[s[1]]
           m == [g EXCEPT !.unsent = FALSE]
<1>3. /\ cursor' = Newest /\ messages' = messages /\ UNCHANGED <<fetched, bounds>>
      /\ announced' \in {announced, Len(messages)}
      /\ conn' = conn /\ wire' = wire
      /\ requests' = [requests EXCEPT ![s] = Tail(requests[s])]
      /\ handler' = [handler EXCEPT ![s] = k]
      /\ page' = [Missing(page) EXCEPT ![s[1]] = m]
  <2>1. page' = [Missing(page) EXCEPT ![s[1]] = m]
    BY DEF MarkRead
  <2> HIDE DEF m
  <2> QED BY <2>1 DEF MarkRead
<1>4. A \in SUBSET Result /\ \A a, b \in A : a = b
  BY <1>2 DEF Result
<1>5. DataOK' /\ ~Unread' /\ Later(Len(messages), Unread, Len(messages'), Unread') /\ Newest \in Nat
  BY <1>3, ReadsAll DEF Newest
<1> HIDE DEF A
<1>6. /\ k \in Coroutine /\ k.step = "send" /\ k.snapshot = SnapshotAt(Newest) /\ k.todo = conn
      /\ k.answers = A /\ \A a, b \in k.answers : a = b
  BY <1>4, <1>5, Broadcasts
<1>7. SnapshotAt(Newest).upto = Len(messages) /\ Len(messages) \in Nat
  BY <1>5, SnapshotNow, OfOne
<1> HIDE DEF k
<1>8. Honest(k.snapshot, Len(messages'), Unread')
  BY <1>3, <1>5, <1>6, <1>7 DEF Honest
<1>9. /\ handler' \in [Coroutines -> Coroutine] /\ handler'[s] = k
      /\ \A r \in Coroutines \ {s} : handler'[r] = handler[r]
      /\ \A r \in Coroutines : \A a, b \in handler'[r].answers : a = b
  BY <1>1, <1>3, <1>6, Goes
<1>10. ServerOK'
  BY <1>3, <1>9 DEF ServerOK, TypeOK
<1>11. /\ page' \in [Pages -> Page]
       /\ \A p \in Pages : /\ Same(page[p], page'[p]) /\ Fits(page'[p], closes, Len(messages))
                           /\ (page'[p].stale \/ \E r \in conn : r[1] = p /\ Live(r))
  <2>1. /\ Missing(page) \in [Pages -> Page]
        /\ \A p \in Pages :
              /\ Same(page[p], Missing(page)[p])
              /\ Fits(Missing(page)[p], closes, Len(messages))
              /\ Missing(page)[p].stale \/ \E r \in conn : r[1] = p /\ Live(r)
    BY Misses
  <2>2. g \in Page
    BY <1>1, <2>1
  <2>3. /\ m \in Page /\ Alike(g, m) /\ m.upto = g.upto /\ m.unread = g.unread /\ m.stale = g.stale
    BY <2>2 DEF Page, Alike
  <2>4. Fits(g, closes, Len(messages)) /\ Same(page[s[1]], g)
        /\ (g.stale \/ \E r \in conn : r[1] = s[1] /\ Live(r))
    BY <1>1, <2>1
  <2> HIDE DEF m, g
  <2>5. Fits(m, closes, Len(messages)) /\ Same(page[s[1]], m)
        /\ (m.stale \/ \E r \in conn : r[1] = s[1] /\ Live(r))
    BY <2>3, <2>4 DEF Fits, Alike, Same
  <2>6. page' \in [Pages -> Page] /\ page'[s[1]] = m
        /\ \A p \in Pages \ {s[1]} : page'[p] = Missing(page)[p]
    BY <1>1, <1>3, <2>1, <2>3
  <2>7. ASSUME NEW p \in Pages
        PROVE  /\ Same(page[p], page'[p]) /\ Fits(page'[p], closes, Len(messages))
               /\ (page'[p].stale \/ \E r \in conn : r[1] = p /\ Live(r))
    <3>1. CASE p = s[1]
      BY <2>5, <2>6, <3>1
    <3>2. CASE p # s[1]
      BY <2>1, <2>6, <3>2
    <3> QED BY <3>1, <3>2
  <2> QED BY <2>6, <2>7
<1>12. /\ requests' \in [Sockets -> Seq(Nat)]
       /\ \A r \in Sockets : requests[r] = <<>> => requests'[r] = <<>>
  BY <1>1, <1>2, <1>3 DEF TypeOK
<1>13. \A r \in Coroutines : handler'[r].step = "send" =>
        \/ handler[r].step = "send" /\ handler'[r].snapshot = handler[r].snapshot
        \/ Honest(handler'[r].snapshot, Len(messages'), Unread')
  BY <1>8, <1>9
<1>14. TypeOK' /\ Snapshots'
  BY <1>3, <1>5, <1>10, <1>11, <1>12, <1>13, OldWire, ServerTypes
<1> QED BY <1>3, <1>5, <1>6, <1>7, <1>9, <1>11, <1>14 DEF A

\* The sockets that a broadcast does not get to are known to miss it.
LEMMA AbandonTypes ==
  ASSUME TypeOK, Snapshots, NEW h \in Coroutines, Abandon(h)
  PROVE  /\ TypeOK' /\ Snapshots'
         /\ handler'[h].todo = {} /\ (h \in Handlers => handler'[h] = Idle)
         /\ h \notin Handlers
              => /\ handler'[h].step = handler[h].step
                 /\ handler'[h].snapshot = handler[h].snapshot
                 /\ handler'[h].answers = handler[h].answers
         /\ \A g \in Coroutines \ {h} : handler'[g] = handler[g]
         /\ \A p \in Pages :
              /\ Same(page[p], page'[p]) /\ page'[p].unsent = page[p].unsent
              /\ (\E s \in handler[h].todo : s[1] = p) => page'[p].stale
<1>1. handler[h] \in Coroutine /\ \A a, b \in handler[h].answers : a = b
  BY OfOne DEF TypeOK
<1> DEFINE d == [handler[h] EXCEPT !.todo = {}, !.dead = {}]
           k == IF h \in Handlers THEN Idle ELSE d
<1>2. /\ UNCHANGED database /\ UNCHANGED <<fetched, bounds>>
      /\ announced' = announced /\ conn' = conn /\ requests' = requests /\ wire' = wire
  BY DEF Abandon
<1>3. handler' = [handler EXCEPT ![h] = k]
  BY DEF Abandon
<1>4. /\ Idle \in Coroutine /\ Idle.step = "idle" /\ Idle.answers = {} /\ Idle.todo = {}
  BY DEF Idle, Coroutine, NoSnapshot, Snapshot
<1>5. /\ d \in Coroutine /\ d.step = handler[h].step /\ d.snapshot = handler[h].snapshot
      /\ d.answers = handler[h].answers /\ d.todo = {}
  BY <1>1 DEF Coroutine
<1> HIDE DEF d
<1>6. /\ k \in Coroutine /\ k.todo = {} /\ \A a, b \in k.answers : a = b
      /\ k.step = "send" => handler[h].step = "send" /\ k.snapshot = handler[h].snapshot
  BY <1>1, <1>4, <1>5
<1>7. (h \in Handlers => k = Idle) /\ (h \notin Handlers => k = d)
  OBVIOUS
<1> HIDE DEF k
<1>8. /\ handler' \in [Coroutines -> Coroutine] /\ handler'[h] = k
      /\ \A g \in Coroutines \ {h} : handler'[g] = handler[g]
      /\ \A g \in Coroutines : \A a, b \in handler'[g].answers : a = b
  BY <1>3, <1>6, Goes
<1>9. ServerOK'
  BY <1>2, <1>8 DEF ServerOK, TypeOK
<1> DEFINE left(p) == \E s \in handler[h].todo : s[1] = p
           m(p) == [page[p] EXCEPT !.stale = @ \/ left(p)]
<1>10. page' = [p \in Pages |-> m(p)]
  BY DEF Abandon
<1>11. ASSUME NEW p \in Pages
       PROVE  /\ m(p) \in Page /\ Same(page[p], m(p)) /\ m(p).unsent = page[p].unsent
              /\ Fits(m(p), closes, Len(messages)) /\ (left(p) => m(p).stale)
  <2> DEFINE b == page[p].stale \/ left(p)
             n == [page[p] EXCEPT !.stale = b]
  <2>1. Fits(page[p], closes, Len(messages))
    BY OfOne
  <2>2. page[p] \in Page
    BY <2>1 DEF Fits
  <2>3. b \in BOOLEAN
    BY <2>2 DEF Page
  <2>4. m(p) = n
    OBVIOUS
  <2>5. (page[p].stale => b) /\ (left(p) => b)
    OBVIOUS
  <2> HIDE DEF b, left, m
  <2>6. /\ n \in Page /\ Alike(page[p], n) /\ n.upto = page[p].upto /\ n.unread = page[p].unread
        /\ n.unsent = page[p].unsent /\ n.stale = b
    BY <2>2, <2>3 DEF Page, Alike
  <2> HIDE DEF n
  <2>7. Fits(n, closes, Len(messages))
    BY <2>1, <2>6 DEF Fits, Alike
  <2> QED BY <2>4, <2>5, <2>6, <2>7 DEF Same
<1> HIDE DEF m
<1>12. /\ page' \in [Pages -> Page]
       /\ \A p \in Pages : page'[p] = m(p)
  BY <1>10, <1>11
<1>13. \A p \in Pages : Same(page[p], page'[p]) /\ Fits(page'[p], closes, Len(messages))
  BY <1>11, <1>12
<1>14. DataOK' /\ Later(Len(messages), Unread, Len(messages'), Unread')
  BY <1>2, OldData
<1>15. \A g \in Coroutines : handler'[g].step = "send"
        => handler[g].step = "send" /\ handler'[g].snapshot = handler[g].snapshot
  BY <1>6, <1>8
<1>16. TypeOK' /\ Snapshots'
  BY <1>2, <1>9, <1>12, <1>13, <1>14, <1>15, OldWire, OldRequests, ServerTypes
<1> QED BY <1>4, <1>5, <1>6, <1>7, <1>8, <1>11, <1>12, <1>16

LEMMA ServerStepTypes ==
  ASSUME TypeOK, Snapshots, Server
  PROVE  TypeOK' /\ Snapshots'
<1>1. CASE \/ \E h \in Handlers, sender \in {"customer", "sales"} : Store(h, sender)
           \/ \E h \in Handlers : Build(h)
  BY <1>1, BuildTypes, StoreTypes
<1>2. CASE \E h \in Coroutines : SendDone(h) \/ Abandon(h) \/ \E s \in Sockets : SendTo(h, s)
  BY <1>2, SendDoneTypes, AbandonTypes, SendToTypes
<1>3. ASSUME NEW s \in Sockets, MarkRead(s) PROVE TypeOK' /\ Snapshots'
  BY <1>3, MarkReadTypes
<1>4. ASSUME handler' = handler, conn' \subseteq Sockets,
             \A s \in conn' : s \in conn \/ s[2] <= page[s[1]].number,
             DataOK', Later(Len(messages), Unread, Len(messages'), Unread'),
             UNCHANGED <<wire, requests, fetched, page, announced, bounds>>
      PROVE  TypeOK' /\ Snapshots'
  BY <1>4, OldPages, OldWire, OldRequests, OldHandlers, ServerTypes
<1>5. ASSUME NEW s \in Sockets, Register(s) PROVE TypeOK' /\ Snapshots'
  <2>1. conn' = conn \cup {s} /\ page[s[1]].number = s[2] /\ conn \subseteq Sockets
    BY <1>5 DEF Register, Live, TypeOK
  <2>2. s[2] <= page[s[1]].number
    BY <2>1, OfOne
  <2>3. /\ UNCHANGED database /\ handler' = handler
        /\ UNCHANGED <<wire, requests, fetched, page, announced, bounds>>
    BY <1>5 DEF Register
  <2>4. DataOK' /\ Later(Len(messages), Unread, Len(messages'), Unread')
    BY <2>3, OldData
  <2> QED BY <1>4, <2>1, <2>2, <2>3, <2>4
<1>6. ASSUME NEW s \in Sockets, Disconnect(s) PROVE TypeOK' /\ Snapshots'
  <2>1. conn' = conn \ {s} /\ conn \subseteq Sockets
    BY <1>6 DEF Disconnect, TypeOK
  <2>2. /\ UNCHANGED database /\ handler' = handler
        /\ UNCHANGED <<wire, requests, fetched, page, announced, bounds>>
    BY <1>6 DEF Disconnect
  <2>3. DataOK' /\ Later(Len(messages), Unread, Len(messages'), Unread')
    BY <2>2, OldData
  <2> QED BY <1>4, <2>1, <2>2, <2>3
<1>7. ASSUME MarkReadByRest PROVE TypeOK' /\ Snapshots'
  <2>1. conn' = conn /\ conn \subseteq Sockets
    BY <1>7 DEF MarkReadByRest, TypeOK
  <2>2. /\ messages' = messages /\ cursor' = Newest
        /\ handler' = handler /\ UNCHANGED <<wire, requests, fetched, page, announced, bounds>>
    BY <1>7 DEF MarkReadByRest
  <2>3. DataOK' /\ Later(Len(messages), Unread, Len(messages'), Unread')
    BY <2>2, ReadsAll
  <2> QED BY <1>4, <2>1, <2>2, <2>3
<1>8. ASSUME NEW sender \in {"customer", "sales"}, StoreByRest(sender) PROVE TypeOK' /\ Snapshots'
  <2>1. conn' = conn /\ conn \subseteq Sockets
    BY <1>8 DEF StoreByRest, TypeOK
  <2>2. /\ messages' = Append(messages, sender) /\ cursor' = cursor
        /\ handler' = handler /\ UNCHANGED <<wire, requests, fetched, page, announced, bounds>>
    BY <1>8 DEF StoreByRest
  <2>3. DataOK' /\ Later(Len(messages), Unread, Len(messages'), Unread')
    BY <2>2, StoresOne
  <2> QED BY <1>4, <2>1, <2>2, <2>3
<1> QED BY <1>1, <1>2, <1>3, <1>5, <1>6, <1>7, <1>8 DEF Server

LEMMA StutterTypes ==
  ASSUME TypeOK, Snapshots, UNCHANGED vars
  PROVE  TypeOK' /\ Snapshots'
<1>1. /\ UNCHANGED database /\ conn' = conn /\ handler' = handler
      /\ UNCHANGED <<wire, requests, fetched, page, announced, bounds>>
  BY DEF vars, database, bounds
<1>2. DataOK' /\ Later(Len(messages), Unread, Len(messages'), Unread')
  BY <1>1, OldData
<1>3. conn' \subseteq Sockets
  BY <1>1 DEF TypeOK
<1> QED BY <1>1, <1>2, <1>3, OldPages, OldWire, OldRequests, OldHandlers, ServerTypes

LEMMA StepTypes ==
  ASSUME TypeOK, Snapshots, [Next]_vars
  PROVE  TypeOK' /\ Snapshots'
BY BrowserTypes, ServerStepTypes, StutterTypes DEF Next

LEMMA FirstFits ==
  ASSUME NEW b \in BOOLEAN, Len(messages) \in Nat
  PROVE  LET g == FirstPage(b)
         IN /\ Fits(g, 0, Len(messages)) /\ g.socket = "connecting" /\ g.marking = "no"
            /\ g.stale /\ g.op = 0 /\ g.upto = Len(messages) /\ g.unread = (messages # <<>>)
<1> DEFINE g == FirstPage(b)
           u == messages # <<>>
           l == IF b /\ messages # <<>> THEN "first" ELSE "no"
<1>1. u \in BOOLEAN /\ l \in {"no", "first"}
  OBVIOUS
<1>2. 1 \in 1 .. MaxCloses + 1
  BY BoundAssumption
<1>3. FirstPage(b) = [socket |-> "connecting", number |-> 1, timer |-> FALSE, watching |-> b,
         upto |-> Len(messages), unread |-> u, readTo |-> 0, loaded |-> FALSE, load |-> l,
         marking |-> "no", op |-> 0, stale |-> TRUE, unsent |-> FALSE, unseen |-> FALSE]
  BY DEF FirstPage
<1> HIDE DEF u, l
<1>4. /\ g \in Page /\ g.socket = "connecting" /\ g.marking = "no" /\ g.number = 1
      /\ g.stale /\ g.op = 0 /\ g.upto = Len(messages) /\ g.unread = u
  BY <1>1, <1>2, <1>3 DEF Page
<1> HIDE DEF g
<1>5. Fits(g, 0, Len(messages))
  BY <1>4 DEF Fits
<1> QED BY <1>4, <1>5 DEF g, u

LEMMA InitTypes ==
  ASSUME Init
  PROVE  /\ TypeOK /\ Snapshots
         /\ \A p \in Pages : /\ wire[p] = <<>> /\ page[p].marking = "no" /\ page[p].stale
                             /\ page[p].socket # "closed" /\ page[p].unread = (messages # <<>>)
         /\ \A s \in Sockets : requests[s] = <<>>
         /\ \A h \in Coroutines : handler[h] = Idle
<1>1. messages \in Seq({"customer", "sales"}) /\ cursor = 0 /\ Len(messages) \in Nat
  <2>1. messages \in {<<>>, <<"sales">>} /\ cursor = 0
    BY DEF Init
  <2>2. <<>> \in Seq({"customer", "sales"}) /\ <<"sales">> \in Seq({"customer", "sales"})
    OBVIOUS
  <2>3. messages \in Seq({"customer", "sales"})
    BY <2>1, <2>2
  <2> QED BY <2>1, <2>3
<1>2. DataOK
  BY <1>1 DEF DataOK
<1>3. Idle \in Coroutine /\ Idle.answers = {} /\ Idle.step = "idle"
  BY DEF Idle, Coroutine, NoSnapshot, Snapshot
<1>4. ServerOK /\ \A h \in Coroutines : handler[h] = Idle
  BY <1>3 DEF Init, ServerOK
<1>5. PICK watching \in [Pages -> BOOLEAN] : page = [p \in Pages |-> FirstPage(watching[p])]
  BY DEF Init
<1>6. ASSUME NEW p \in Pages
      PROVE  /\ Fits(page[p], 0, Len(messages)) /\ page[p].socket = "connecting"
             /\ page[p].marking = "no" /\ page[p].stale /\ page[p].unread = (messages # <<>>)
  <2>1. watching[p] \in BOOLEAN /\ page[p] = FirstPage(watching[p])
    BY <1>5
  <2> QED BY <1>1, <2>1, FirstFits
<1>7. closes = 0 /\ selects = 0 /\ closes \in 0 .. MaxCloses
  BY BoundAssumption DEF Init
<1>8. page \in [Pages -> Page]
  <2>1. \A p \in Pages : FirstPage(watching[p]) \in Page
    BY <1>5, <1>6 DEF Fits
  <2> QED BY <1>5, <2>1
<1>9. PagesOK
  BY <1>1, <1>6, <1>7, <1>8 DEF PagesOK, Init
<1>10. NoSnapshot \in Snapshot /\ NoSnapshot.upto = 0
  BY DEF NoSnapshot, Snapshot
<1>11. LinksOK
  BY <1>10 DEF Init, LinksOK
<1>12. TypeOK
  BY <1>2, <1>4, <1>9, <1>11, Parts
<1>13. Honest(NoSnapshot, Len(messages), Unread)
  <2>1. DOMAIN messages = 1 .. Len(messages)
    BY <1>1
  <2>2. Len(messages) = 0 => ~Unread
    BY <1>1, <2>1 DEF Unread
  <2> QED BY <1>1, <1>10, <2>2 DEF Honest
<1>14. Snapshots
  <2>1. \A p \in Pages : fetched[p] = NoSnapshot /\ wire[p] = <<>>
    BY DEF Init
  <2>2. Carries(<<>>, Len(messages), Unread)
    BY DEF Carries
  <2> QED BY <1>3, <1>4, <1>13, <2>1, <2>2 DEF Snapshots
<1>15. (\A p \in Pages : wire[p] = <<>>) /\ (\A s \in Sockets : requests[s] = <<>>)
  BY DEF Init
<1> QED BY <1>4, <1>6, <1>12, <1>14, <1>15

\* Every part of the state is one the code can hold: a page that waits for its
\* socket is connecting, one that lost its connection has nothing on its way to
\* it, and the server knows only sockets that their page opened.
THEOREM TypeCorrect == Spec => []TypeOK
<1>1. Init => TypeOK /\ Snapshots
  BY InitTypes
<1>2. TypeOK /\ Snapshots /\ [Next]_vars => (TypeOK /\ Snapshots)'
  BY StepTypes
<1> QED BY <1>1, <1>2, PTL DEF Spec

\* No snapshot on its way to a page, from a broadcast or a request, shows all
\* messages and conceals that some of them are unread.
THEOREM SnapshotsAreHonest == Spec => [](TypeOK /\ Snapshots)
<1>1. Init => TypeOK /\ Snapshots
  BY InitTypes
<1>2. TypeOK /\ Snapshots /\ [Next]_vars => (TypeOK /\ Snapshots)'
  BY StepTypes
<1> QED BY <1>1, <1>2, PTL DEF Spec

-----------------------------------------------------------------------------
(* Connections: what a step does to the socket of a page.                  *)

LEMMA BrowserTurns ==
  ASSUME TypeOK, Snapshots, NEW p \in Pages, Browser(p)
  PROVE  /\ Turns(p) /\ messages' = messages /\ cursor' = cursor /\ handler' = handler
         /\ Stays(page[p], page'[p]) \/ \E hidden \in BOOLEAN : Closed(p, hidden)
<1>0. page[p] \in Page
  BY DEF TypeOK
<1>1. messages' = messages /\ cursor' = cursor /\ handler' = handler
  BY DEF Browser, Receive, MarkTimesOut, Opened, Reconnect, Closed, Select, Answer, Loaded,
         LoadFails, database
<1>2. CASE Receive(p) \/ MarkTimesOut(p) \/ Opened(p)
  BY <1>1, <1>2, ReceiveTurns, TimesOutTurns, OpenedTurns
<1>3. CASE Reconnect(p)
  BY <1>1, <1>3, ReconnectTurns DEF Stays
<1>4. ASSUME NEW hidden \in BOOLEAN, Closed(p, hidden) PROVE Turns(p)
  BY <1>4, ClosedTurns
<1>5. CASE Select(p)
  <2>1. PICK g : /\ Fits(g, closes, Len(messages)) /\ Alike(page[p], g)
                 /\ Becomes(p, Rendered(g, p))
    BY <1>5, SelectTurns
  <2>2. /\ Turns(p)
        /\ page[p].socket # "closed" => /\ page'[p].socket = page[p].socket
                                        /\ page'[p].number = page[p].number
        /\ page'[p].socket = "closed" => /\ page'[p].timer = page[p].timer
                                         /\ page'[p].unseen = page[p].unseen
    BY <2>1, RenderTurns
  <2> QED BY <1>1, <2>2 DEF Stays
<1>6. CASE Answer(p)
  <2>1. page' = [page EXCEPT ![p] = page[p]] /\ page[p].number >= page[p].number
        /\ requests' = requests
    BY <1>0, <1>6 DEF Answer, TypeOK, Page
  <2>2. Turns(p) /\ page'[p] = page[p]
    BY <1>0, <2>1, NoRequest, KeepsTurns DEF Keeps
  <2> QED BY <1>1, <2>2 DEF Stays
<1>7. CASE Loaded(p)
  <2>1. PICK g : /\ Fits(g, closes, Len(messages)) /\ Alike(page[p], g)
                 /\ Becomes(p, Rendered(g, p))
    BY <1>7, LoadedTurns
  <2>2. /\ Turns(p)
        /\ page[p].socket # "closed" => /\ page'[p].socket = page[p].socket
                                        /\ page'[p].number = page[p].number
        /\ page'[p].socket = "closed" => /\ page'[p].timer = page[p].timer
                                         /\ page'[p].unseen = page[p].unseen
    BY <2>1, RenderTurns
  <2> QED BY <1>1, <2>2 DEF Stays
<1>8. CASE LoadFails(p)
  BY <1>1, <1>8, LoadFailsTurns DEF Stays, Alike
<1> QED BY <1>1, <1>2, <1>3, <1>4, <1>5, <1>6, <1>7, <1>8 DEF Browser

LEMMA ServerTells ==
  ASSUME TypeOK, Snapshots, Server \/ UNCHANGED vars
  PROVE  \A p \in Pages : Same(page[p], page'[p])
<1>1. CASE page' = page
  BY <1>1, OldPages
<1>2. ASSUME NEW h \in Handlers, Build(h) PROVE \A p \in Pages : Same(page[p], page'[p])
  BY <1>2, Misses DEF Build
<1>3. ASSUME NEW s \in Sockets, MarkRead(s) PROVE \A p \in Pages : Same(page[p], page'[p])
  BY <1>3, MarkReadTypes
<1>4. ASSUME NEW h \in Coroutines, Abandon(h) PROVE \A p \in Pages : Same(page[p], page'[p])
  BY <1>4, AbandonTypes
<1>5. \/ \E h \in Handlers : Build(h)
      \/ \E s \in Sockets : MarkRead(s)
      \/ \E h \in Coroutines : Abandon(h)
      \/ page' = page
  BY DEF Server, vars, Store, StoreByRest, SendDone, SendTo, Register, Disconnect, MarkReadByRest
<1> QED BY <1>1, <1>2, <1>3, <1>4, <1>5

LEMMA RetriesStep ==
  ASSUME TypeOK, Snapshots, ClosedRetries, [Next]_vars
  PROVE  ClosedRetries'
<1>1. ASSUME NEW p \in Pages, Browser(p) PROVE ClosedRetries'
  <2>1. /\ Turns(p)
        /\ Stays(page[p], page'[p]) \/ \E hidden \in BOOLEAN : Closed(p, hidden)
    BY <1>1, BrowserTurns
  <2>2. page'[p].socket = "closed" => page'[p].timer \/ page'[p].unseen
    <3>1. CASE Stays(page[p], page'[p])
      BY <3>1 DEF Stays, ClosedRetries
    <3>2. ASSUME NEW hidden \in BOOLEAN, Closed(p, hidden)
          PROVE  page'[p].timer \/ page'[p].unseen
      BY <3>2, ClosedTurns
    <3> QED BY <2>1, <3>1, <3>2
  <2> QED BY <2>1, <2>2 DEF Turns, ClosedRetries
<1>2. CASE Server \/ UNCHANGED vars
  BY <1>2, ServerTells DEF Same, Alike, ClosedRetries
<1> QED BY <1>1, <1>2 DEF Next

\* A page whose connection is lost tries again by its timer, unless it was
\* hidden when the connection closed: scheduleRealtimeReconnect returns early
\* then and nothing listens for the page being shown again.
THEOREM ClosedPagesRetry == Spec => []ClosedRetries
<1> DEFINE I == TypeOK /\ Snapshots /\ ClosedRetries
<1>1. Init => I
  BY InitTypes DEF ClosedRetries
<1>2. I /\ [Next]_vars => I'
  BY StepTypes, RetriesStep
<1>3. I => ClosedRetries
  OBVIOUS
<1> QED BY <1>1, <1>2, <1>3, PTL DEF Spec

-----------------------------------------------------------------------------
(* Snapshots arrive: a page that is behind has the newest one coming.      *)

\* A coroutine has yet to tell page p of what was announced last.
Tells(h, p) ==
  /\ handler[h].step = "send" /\ handler[h].snapshot.upto >= announced
  /\ \E s \in handler[h].todo : s[1] = p /\ Live(s)

OnWire(p) ==
  \E i \in DOMAIN wire[p] : /\ wire[p][i].type = "session_updated"
                            /\ wire[p][i].snapshot.upto >= announced

Coming(p) == (\E h \in Coroutines : Tells(h, p)) \/ OnWire(p)

CatchUp == \A p \in Pages : page[p].stale \/ page[p].upto >= announced \/ Coming(p)

\* What was coming still is, for a page that keeps its connection.
LEMMA StillComing ==
  ASSUME NEW p \in Pages, Coming(p), announced' = announced, handler' = handler,
         page[p].socket # "closed" => page'[p].socket # "closed" /\ page'[p].number = page[p].number,
         OnWire(p) => OnWire(p)'
  PROVE  Coming(p)'
<1>1. ASSUME NEW h \in Coroutines, Tells(h, p) PROVE Tells(h, p)'
  BY <1>1 DEF Tells, Live
<1>2. CASE \E h \in Coroutines : Tells(h, p)
  BY <1>1, <1>2 DEF Coming
<1>3. CASE OnWire(p)
  BY <1>3 DEF Coming
<1> QED BY <1>2, <1>3 DEF Coming

LEMMA TailKeeps ==
  ASSUME NEW S, NEW w \in Seq(S), NEW i \in DOMAIN w, i # 1
  PROVE  i - 1 \in DOMAIN Tail(w) /\ Tail(w)[i - 1] = w[i]
<1>1. i \in 1 .. Len(w) /\ Len(w) \in Nat /\ w # <<>>
  OBVIOUS
<1>2. /\ Tail(w) \in Seq(S) /\ Len(Tail(w)) = Len(w) - 1
      /\ \A j \in 1 .. Len(Tail(w)) : Tail(w)[j] = w[j + 1]
  BY <1>1, HeadTailProperties
<1>3. i - 1 \in 1 .. Len(Tail(w)) /\ (i - 1) + 1 = i
  BY <1>1, <1>2
<1> QED BY <1>2, <1>3

Caught(p) == page[p].stale \/ page[p].upto >= announced \/ Coming(p)

LEMMA ReceiveCatchUp ==
  ASSUME TypeOK, Snapshots, NEW p \in Pages, Receive(p), Caught(p)
  PROVE  Caught(p)'
<1> DEFINE e == Head(wire[p])
<1>1. /\ announced' = announced /\ handler' = handler /\ wire' = [wire EXCEPT ![p] = Tail(wire[p])]
      /\ wire[p] # <<>> /\ page[p].socket # "closed"
  BY DEF Receive, database
<1>2. wire'[p] = Tail(wire[p]) /\ wire[p] \in Seq(Event)
  BY <1>1 DEF TypeOK
<1>3. Turns(p) /\ Stays(page[p], page'[p])
  BY ReceiveTurns
<1>4. ASSUME NEW i \in DOMAIN wire[p], i # 1
      PROVE  \E j \in DOMAIN wire'[p] : wire'[p][j] = wire[p][i]
  BY <1>2, <1>4, TailKeeps
<1>5. e = wire[p][1]
  BY <1>1, Arrives
<1>6. ASSUME Coming(p), ~(e.type = "session_updated" /\ e.snapshot.upto >= announced)
      PROVE  Coming(p)'
  <2>1. ASSUME OnWire(p) PROVE OnWire(p)'
    <3>1. PICK i \in DOMAIN wire[p] : /\ wire[p][i].type = "session_updated"
                                      /\ wire[p][i].snapshot.upto >= announced
      BY <2>1 DEF OnWire
    <3>2. i # 1
      BY <1>5, <1>6, <3>1
    <3> QED BY <1>1, <1>4, <3>1, <3>2 DEF OnWire
  <2> QED BY <1>1, <1>3, <1>6, <2>1, StillComing DEF Stays
<1>7. CASE e.type = "operation_result"
  <2> DEFINE g == Resolved(page[p], e.op)
  <2>1. page[p] \in Page /\ Becomes(p, g)
    BY <1>7 DEF Receive, TypeOK
  <2>2. g.upto = page[p].upto /\ g.stale = page[p].stale
    BY <2>1 DEF Resolved, Page
  <2>3. page'[p] = g
    BY <2>1 DEF Becomes, TypeOK
  <2> HIDE DEF g
  <2> QED BY <1>1, <1>6, <1>7, <2>2, <2>3 DEF Caught
<1>8. CASE e.type # "operation_result"
  <2> DEFINE s == e.snapshot
             g == Shown(page[p], s)
  <2>1. /\ s \in Snapshot /\ s.upto <= Len(messages) /\ Len(messages) \in Nat
        /\ e.type = "session_updated"
    BY <1>1, <1>8, Arrives, OfOne DEF Honest
  <2>2. /\ Fits(g, closes, Len(messages)) /\ Alike(page[p], g) /\ g.upto = s.upto
        /\ ~(s.upto >= announced) => g.stale = (page[p].stale \/ s.upto < page[p].upto)
    BY <2>1, AlikeShown
  <2>3. Becomes(p, Rendered(g, p))
    BY <1>8 DEF Receive
  <2> HIDE DEF g
  <2>4. page'[p].upto = s.upto /\ page'[p].stale = g.stale
    BY <2>2, <2>3, RenderTurns
  <2>5. CASE s.upto >= announced
    BY <1>1, <2>4, <2>5 DEF Caught
  <2>6. CASE ~(s.upto >= announced)
    <3>1. CASE page'[p].stale
      BY <3>1 DEF Caught
    <3>2. CASE ~page'[p].stale
      <4>1. ~page[p].stale /\ ~(s.upto < page[p].upto)
        BY <2>2, <2>4, <2>6, <3>2
      <4>2. page[p].upto \in Nat /\ announced \in Nat /\ s.upto \in Nat
        BY <2>1, OfOne DEF Fits, Page, Snapshot, TypeOK
      <4>3. ~(page[p].upto >= announced)
        BY <2>1, <2>6, <4>1, <4>2
      <4>4. Coming(p)
        BY <4>1, <4>3 DEF Caught
      <4>5. Coming(p)'
        BY <1>6, <2>6, <4>4
      <4> QED BY <4>5 DEF Caught
    <3> QED BY <3>1, <3>2
  <2> QED BY <2>5, <2>6
<1> QED BY <1>7, <1>8

LEMMA LoadedCatchUp ==
  ASSUME TypeOK, Snapshots, NEW p \in Pages, Loaded(p), Caught(p)
  PROVE  Caught(p)'
<1>1. announced' = announced /\ handler' = handler /\ wire' = wire
  BY DEF Loaded, database
<1>2. OnWire(p) => OnWire(p)'
  BY <1>1 DEF OnWire
<1>3. PICK g : /\ Fits(g, closes, Len(messages)) /\ Alike(page[p], g)
               /\ g.upto = fetched[p].upto
               /\ ~(fetched[p].upto >= announced)
                     => g.stale = (page[p].stale \/ fetched[p].upto < page[p].upto)
               /\ Becomes(p, Rendered(g, p))
  BY LoadedTurns
<1>4. /\ page'[p].upto = g.upto /\ page'[p].stale = g.stale
      /\ page[p].socket # "closed" => /\ page'[p].socket = page[p].socket
                                      /\ page'[p].number = page[p].number
  BY <1>3, RenderTurns
<1>5. Coming(p) => Coming(p)'
  BY <1>1, <1>2, <1>4, StillComing
<1>6. CASE fetched[p].upto >= announced
  BY <1>1, <1>3, <1>4, <1>6 DEF Caught
<1>7. CASE ~(fetched[p].upto >= announced) /\ page'[p].stale
  BY <1>7 DEF Caught
<1>8. CASE ~(fetched[p].upto >= announced) /\ ~page'[p].stale
  <2>1. ~page[p].stale /\ ~(fetched[p].upto < page[p].upto)
    BY <1>3, <1>4, <1>8
  <2>2. page[p].upto \in Nat /\ announced \in Nat /\ fetched[p].upto \in Nat
    BY OfOne DEF Fits, Page, Snapshot, TypeOK
  <2>3. ~(page[p].upto >= announced)
    BY <1>8, <2>1, <2>2
  <2>4. Coming(p)
    BY <2>1, <2>3 DEF Caught
  <2> QED BY <1>5, <2>4 DEF Caught
<1> QED BY <1>6, <1>7, <1>8

LEMMA BrowserCatchUp ==
  ASSUME TypeOK, Snapshots, NEW p \in Pages, Browser(p), Caught(p)
  PROVE  Caught(p)'
<1>1. CASE Receive(p)
  BY <1>1, ReceiveCatchUp
<1>2. CASE Loaded(p)
  BY <1>2, LoadedCatchUp
<1>3. ASSUME NEW hidden \in BOOLEAN, Closed(p, hidden) PROVE Caught(p)'
  BY <1>3, ClosedTurns DEF Caught
<1>4. ASSUME announced' = announced, handler' = handler, wire' = wire,
             page[p].socket # "closed" => page'[p].socket # "closed" /\ page'[p].number = page[p].number,
             page'[p].stale \/ (page'[p].upto = page[p].upto /\ page'[p].stale = page[p].stale)
      PROVE  Caught(p)'
  <2>1. OnWire(p) => OnWire(p)'
    BY <1>4 DEF OnWire
  <2>2. Coming(p) => Coming(p)'
    BY <1>4, <2>1, StillComing
  <2> QED BY <1>4, <2>2 DEF Caught
<1>5. CASE MarkTimesOut(p)
  <2>1. announced' = announced /\ handler' = handler /\ wire' = wire
    BY <1>5 DEF MarkTimesOut, database
  <2> QED BY <1>4, <1>5, <2>1, TimesOutTurns DEF Stays
<1>6. CASE Opened(p)
  <2>1. announced' = announced /\ handler' = handler /\ wire' = wire
    BY <1>6 DEF Opened, database
  <2> QED BY <1>4, <1>6, <2>1, OpenedTurns DEF Stays
<1>7. CASE Reconnect(p)
  <2>1. announced' = announced /\ handler' = handler /\ wire' = wire
    BY <1>7 DEF Reconnect, database
  <2> QED BY <1>4, <1>7, <2>1, ReconnectTurns
<1>8. CASE Select(p)
  <2>1. announced' = announced /\ handler' = handler /\ wire' = wire
    BY <1>8 DEF Select, database
  <2>2. PICK g : /\ Fits(g, closes, Len(messages)) /\ Alike(page[p], g)
                 /\ g.upto = page[p].upto /\ g.stale = page[p].stale
                 /\ Becomes(p, Rendered(g, p))
    BY <1>8, SelectTurns
  <2>3. /\ page'[p].upto = g.upto /\ page'[p].stale = g.stale
        /\ page[p].socket # "closed" => /\ page'[p].socket = page[p].socket
                                        /\ page'[p].number = page[p].number
    BY <2>2, RenderTurns
  <2> QED BY <1>4, <2>1, <2>2, <2>3
<1>9. CASE Answer(p)
  <2>1. announced' = announced /\ handler' = handler /\ wire' = wire /\ page' = page
    BY <1>9 DEF Answer, database
  <2> QED BY <1>4, <2>1
<1>10. CASE LoadFails(p)
  <2>1. announced' = announced /\ handler' = handler /\ wire' = wire
    BY <1>10 DEF LoadFails, database
  <2> QED BY <1>4, <1>10, <2>1, LoadFailsTurns DEF Alike
<1> QED BY <1>1, <1>2, <1>3, <1>5, <1>6, <1>7, <1>8, <1>9, <1>10 DEF Browser

LEMMA BroadcastCatchUp ==
  ASSUME TypeOK, NEW p \in Pages, NEW h \in Coroutines, announced' = Len(messages),
         handler'[h].step = "send", handler'[h].snapshot.upto = Len(messages),
         handler'[h].todo = conn, Same(page[p], page'[p]),
         page'[p].stale \/ \E s \in conn : s[1] = p /\ Live(s)
  PROVE  Caught(p)'
<1>1. CASE page'[p].stale
  BY <1>1 DEF Caught
<1>2. CASE \E s \in conn : s[1] = p /\ Live(s)
  <2>1. PICK s \in conn : s[1] = p /\ Live(s)
    BY <1>2
  <2>2. Live(s)'
    BY <2>1 DEF Live, Same, Alike
  <2>3. Tells(h, p)'
    BY <2>1, <2>2, OfOne DEF Tells
  <2> QED BY <2>3 DEF Caught, Coming
<1> QED BY <1>1, <1>2

LEMMA SendToCatchUp ==
  ASSUME TypeOK, Snapshots, NEW h \in Coroutines, NEW s \in Sockets, SendTo(h, s),
         NEW p \in Pages, Caught(p)
  PROVE  Caught(p)'
<1> DEFINE e == [type |-> "session_updated", snapshot |-> handler[h].snapshot]
<1>1. /\ \A g \in Coroutines : /\ handler'[g].step = handler[g].step
                               /\ handler'[g].snapshot = handler[g].snapshot
      /\ \A g \in Coroutines \ {h} : handler'[g].todo = handler[g].todo
      /\ handler'[h].todo = handler[h].todo \ {s}
      /\ wire'[p] = IF p = s[1] /\ Live(s) THEN Append(wire[p], e) ELSE wire[p]
  BY SendToTypes
<1>2. announced' = announced /\ page' = page
  BY DEF SendTo
<1>3. wire[p] \in Seq(Event) /\ handler[h].snapshot \in Snapshot
  BY OfOne DEF Coroutine
<1>4. e \in Event /\ e.type = "session_updated" /\ e.snapshot = handler[h].snapshot
  BY <1>3 DEF Event
<1> HIDE DEF e
<1>5. /\ \A i \in DOMAIN wire[p] : i \in DOMAIN Append(wire[p], e) /\ Append(wire[p], e)[i] = wire[p][i]
      /\ \E i \in DOMAIN Append(wire[p], e) : Append(wire[p], e)[i] = e
  <2>1. /\ Len(Append(wire[p], e)) = Len(wire[p]) + 1 /\ Len(wire[p]) \in Nat
        /\ Append(wire[p], e) \in Seq(Event)
    BY <1>3, <1>4
  <2>2. \A i \in 1 .. Len(wire[p]) : Append(wire[p], e)[i] = wire[p][i]
    BY <1>3, <1>4
  <2>3. Append(wire[p], e)[Len(wire[p]) + 1] = e
    BY <1>3, <1>4
  <2> QED BY <1>3, <2>1, <2>2, <2>3
<1>6. ASSUME OnWire(p) PROVE OnWire(p)'
  BY <1>1, <1>2, <1>5, <1>6 DEF OnWire
<1>8. ASSUME NEW g \in Coroutines, Tells(g, p) PROVE Coming(p)'
  <2>1. PICK r \in handler[g].todo : r[1] = p /\ Live(r)
    BY <1>8 DEF Tells
  <2>2. CASE g = h /\ r = s
    <3>1. wire'[p] = Append(wire[p], e) /\ handler[h].snapshot.upto >= announced
      BY <1>1, <1>8, <2>1, <2>2 DEF Tells
    <3>2. OnWire(p)'
      BY <1>2, <1>4, <1>5, <3>1 DEF OnWire
    <3> QED BY <3>2 DEF Coming
  <2>3. CASE ~(g = h /\ r = s)
    <3>1. r \in handler'[g].todo /\ Live(r)'
      BY <1>1, <1>2, <2>1, <2>3 DEF Live
    <3>2. Tells(g, p)'
      BY <1>1, <1>2, <1>8, <2>1, <3>1 DEF Tells
    <3> QED BY <3>2 DEF Coming
  <2> QED BY <2>2, <2>3
<1>9. Coming(p) => Coming(p)'
  <2>1. OnWire(p)' => Coming(p)'
    BY DEF Coming
  <2> QED BY <1>6, <1>8, <2>1 DEF Coming
<1> QED BY <1>2, <1>9 DEF Caught

LEMMA SendDoneCatchUp ==
  ASSUME TypeOK, Snapshots, NEW h \in Coroutines, SendDone(h), NEW p \in Pages, Caught(p)
  PROVE  Caught(p)'
<1>1. /\ announced' = announced /\ page' = page
      /\ handler[h].step = "send" /\ handler[h].todo = {}
  BY DEF SendDone
<1>2. /\ \A g \in Coroutines \ {h} : handler'[g] = handler[g]
      /\ \A i \in DOMAIN wire[p] : i \in DOMAIN wire'[p] /\ wire'[p][i] = wire[p][i]
  BY SendDoneTypes
<1>3. ASSUME OnWire(p) PROVE Coming(p)'
  BY <1>1, <1>2, <1>3 DEF OnWire, Coming
<1>4. ASSUME NEW g \in Coroutines, Tells(g, p) PROVE Coming(p)'
  <2>1. g # h
    BY <1>1, <1>4 DEF Tells
  <2>2. handler'[g] = handler[g]
    BY <1>2, <2>1
  <2>3. Tells(g, p)'
    BY <1>1, <1>4, <2>2 DEF Tells, Live
  <2> QED BY <2>3 DEF Coming
<1>5. Coming(p) => Coming(p)'
  BY <1>3, <1>4 DEF Coming
<1> QED BY <1>1, <1>5 DEF Caught

LEMMA AbandonCatchUp ==
  ASSUME TypeOK, Snapshots, NEW h \in Coroutines, Abandon(h), NEW p \in Pages, Caught(p)
  PROVE  Caught(p)'
<1>1. announced' = announced /\ wire' = wire
  BY DEF Abandon
<1>2. /\ \A g \in Coroutines \ {h} : handler'[g] = handler[g]
      /\ Same(page[p], page'[p])
      /\ (\E s \in handler[h].todo : s[1] = p) => page'[p].stale
  BY AbandonTypes
<1>3. CASE page'[p].stale
  BY <1>3 DEF Caught
<1>4. CASE ~page'[p].stale
  <2>1. ASSUME NEW g \in Coroutines, Tells(g, p) PROVE Tells(g, p)'
    <3>1. PICK s \in handler[g].todo : s[1] = p /\ Live(s)
      BY <2>1 DEF Tells
    <3>2. g # h
      BY <1>2, <1>4, <3>1
    <3>3. handler'[g] = handler[g] /\ Live(s)'
      BY <1>2, <3>1, <3>2 DEF Live, Same, Alike
    <3> QED BY <1>1, <2>1, <3>1, <3>3 DEF Tells
  <2>2. Coming(p) => Coming(p)'
    BY <1>1, <2>1 DEF Coming, OnWire
  <2>3. ~page[p].stale /\ page'[p].upto = page[p].upto
    BY <1>2, <1>4 DEF Same
  <2> QED BY <1>1, <2>2, <2>3 DEF Caught
<1> QED BY <1>3, <1>4

LEMMA ServerCatchUp ==
  ASSUME TypeOK, Snapshots, Server \/ UNCHANGED vars, NEW p \in Pages, Caught(p)
  PROVE  Caught(p)'
<1>1. ASSUME NEW h \in Handlers, NEW sender \in {"customer", "sales"}, Store(h, sender)
      PROVE  Caught(p)'
  <2>1. /\ announced' = announced /\ wire' = wire /\ page' = page
        /\ handler[h].step = "idle" /\ handler' = [handler EXCEPT ![h].step = "stored"]
    BY <1>1 DEF Store
  <2>2. ASSUME NEW g \in Coroutines, Tells(g, p) PROVE Tells(g, p)'
    <3>1. handler'[g] = handler[g]
      BY <2>1, <2>2 DEF Tells, TypeOK
    <3> QED BY <2>1, <2>2, <3>1 DEF Tells, Live
  <2>3. Coming(p) => Coming(p)'
    BY <2>1, <2>2 DEF Coming, OnWire
  <2> QED BY <2>1, <2>3 DEF Caught
<1>2. ASSUME NEW h \in Handlers, Build(h) PROVE Caught(p)'
  <2>1. h \in Coroutines /\ cursor \in Nat
    BY OfOne
  <2>2. /\ handler'[h] = Broadcasting(SnapshotAt(cursor), {}) /\ announced' = Len(messages)
        /\ page' = Missing(page)
    BY <1>2, <2>1 DEF Build, database, TypeOK
  <2>3. {} \in SUBSET Result /\ \A a, b \in {} : a = b
    OBVIOUS
  <2>4. /\ handler'[h].step = "send" /\ handler'[h].todo = conn
        /\ handler'[h].snapshot = SnapshotAt(cursor)
    BY <2>1, <2>2, <2>3, Broadcasts
  <2>5. handler'[h].snapshot.upto = Len(messages)
    BY <2>1, <2>4, SnapshotNow
  <2>6. Same(page[p], page'[p]) /\ (page'[p].stale \/ \E s \in conn : s[1] = p /\ Live(s))
    BY <2>2, Misses
  <2> QED BY <2>1, <2>2, <2>4, <2>5, <2>6, BroadcastCatchUp
<1>3. ASSUME NEW s \in Sockets, MarkRead(s) PROVE Caught(p)'
  <2>1. s \in Coroutines /\ announced' = Len(messages)
    BY <1>3, OfOne DEF MarkRead
  <2>2. /\ handler'[s].step = "send" /\ handler'[s].snapshot.upto = Len(messages)
        /\ handler'[s].todo = conn
        /\ Same(page[p], page'[p]) /\ (page'[p].stale \/ \E r \in conn : r[1] = p /\ Live(r))
    BY <1>3, MarkReadTypes
  <2> QED BY <2>1, <2>2, BroadcastCatchUp
<1>4. ASSUME NEW h \in Coroutines, SendDone(h) PROVE Caught(p)'
  BY <1>4, SendDoneCatchUp
<1>5. ASSUME NEW h \in Coroutines, NEW s \in Sockets, SendTo(h, s) PROVE Caught(p)'
  BY <1>5, SendToCatchUp
<1>6. ASSUME announced' = announced, handler' = handler, wire' = wire, page' = page
      PROVE  Caught(p)'
  BY <1>6 DEF Caught, Coming, OnWire, Tells, Live
<1>7. CASE \/ MarkReadByRest \/ UNCHANGED vars
           \/ \E sender \in {"customer", "sales"} : StoreByRest(sender)
           \/ \E s \in Sockets : Register(s) \/ Disconnect(s)
  <2>1. announced' = announced /\ handler' = handler /\ wire' = wire /\ page' = page
    BY <1>7 DEF MarkReadByRest, StoreByRest, vars, Register, Disconnect, database
  <2> QED BY <1>6, <2>1
<1>8. ASSUME NEW h \in Coroutines, Abandon(h) PROVE Caught(p)'
  BY <1>8, AbandonCatchUp
<1> QED BY <1>1, <1>2, <1>3, <1>4, <1>5, <1>7, <1>8 DEF Server

LEMMA CatchUpStep ==
  ASSUME TypeOK, Snapshots, CatchUp, [Next]_vars
  PROVE  CatchUp'
<1>1. \A p \in Pages : Caught(p)
  BY DEF CatchUp, Caught
<1>2. ASSUME NEW p \in Pages, Browser(p), NEW q \in Pages PROVE Caught(q)'
  <2>1. CASE q = p
    BY <1>1, <1>2, <2>1, BrowserCatchUp
  <2>2. CASE q # p
    <3>1. page'[q] = page[q] /\ handler' = handler
      BY <1>2, <2>2, BrowserTurns DEF Turns
    <3>2. wire'[q] = wire[q] /\ announced' = announced
      BY <1>2, <2>2 DEF Browser, Receive, MarkTimesOut, Opened, Reconnect, Closed, Select,
                        Answer, Loaded, LoadFails, TypeOK
    <3>3. OnWire(q) => OnWire(q)'
      BY <3>1, <3>2 DEF OnWire
    <3>4. Coming(q) => Coming(q)'
      BY <3>1, <3>2, <3>3, StillComing
    <3> QED BY <1>1, <3>1, <3>2, <3>4 DEF Caught
  <2> QED BY <2>1, <2>2
<1>3. ASSUME Server \/ UNCHANGED vars, NEW q \in Pages PROVE Caught(q)'
  BY <1>1, <1>3, ServerCatchUp
<1>4. \A q \in Pages : Caught(q)'
  BY <1>2, <1>3 DEF Next
<1> QED BY <1>4 DEF CatchUp, Caught

\* A connected page shows what any broadcast had to tell once everything has
\* arrived, unless it is known to have missed a broadcast, one broke off before
\* its socket, or an older snapshot was shown after a newer one: a socket that
\* raises a RuntimeError in _broadcast_local keeps no other page from its
\* snapshot.  What an endpoint under /chat stores without a broadcast is told
\* with the next one.
THEOREM PagesDoCatchUp == Spec => []PagesCatchUp
<1> DEFINE I == TypeOK /\ Snapshots /\ CatchUp
<1>1. Init => I
  BY InitTypes DEF CatchUp
<1>2. I /\ [Next]_vars => I'
  BY StepTypes, CatchUpStep
<1>3. I => PagesCatchUp
  <2> SUFFICES ASSUME I, NEW p \in Pages, Quiet(p), ~page[p].stale
               PROVE  page[p].upto >= announced
    BY DEF PagesCatchUp
  <2>1. ~Coming(p)
    BY DEF Quiet, Coming, Tells, OnWire
  <2> QED BY <2>1 DEF CatchUp
<1> QED BY <1>1, <1>2, <1>3, PTL DEF Spec

-----------------------------------------------------------------------------
(* Operations: those of a page are asked and answered in their order.      *)

\* The result of operation op of page p is on its way, or will be.
Answered(p, op) ==
  \/ \E i \in DOMAIN wire[p] : wire[p][i].type = "operation_result" /\ wire[p][i].op = op
  \/ \E s \in Sockets : s[1] = p /\ \E r \in handler[s].answers : r.op = op

Asked(p, op) == \E s \in Sockets : s[1] = p /\ \E i \in DOMAIN requests[s] : requests[s][i] = op

\* No operation is known to the server that the page has not begun.
Begun(p) ==
  \A op \in Nat : Answered(p, op) \/ Asked(p, op)
                    => op <= page[p].op /\ (page[p].marking = "waits" => op # page[p].op)

\* Requests of a socket, and of one socket and a later one, are in order.
Before(s, i, t, j) == s[2] < t[2] \/ (s = t /\ i < j)

Increasing(p) ==
  \A s, t \in Sockets : \A i \in DOMAIN requests[s], j \in DOMAIN requests[t] :
    s[1] = p /\ t[1] = p /\ Before(s, i, t, j) => requests[s][i] < requests[t][j]

\* The last operation is answered after all others.
AnsweredLast(p) ==
  page[p].marking = "sent" /\ Answered(p, page[p].op) => requests[<<p, page[p].number>>] = <<>>

InOrder(p) == Begun(p) /\ Increasing(p) /\ AnsweredLast(p)
Ordered == \A p \in Pages : InOrder(p)

\* Requests r are some of requests q, in the same order.
Part(r, q) == \E k \in Nat : \A i \in DOMAIN r : i + k \in DOMAIN q /\ r[i] = q[i + k]

LEMMA ShorterPart ==
  ASSUME NEW q \in Seq(Nat), NEW r \in Seq(Nat), Shorter(r, q)
  PROVE  Part(r, q) /\ (q = <<>> => r = <<>>)
<1>1. /\ DOMAIN r = 1 .. Len(r) /\ DOMAIN q = 1 .. Len(q) /\ Len(r) \in Nat /\ Len(q) \in Nat
  OBVIOUS
<1>2. \A i \in DOMAIN r : i + 0 \in DOMAIN q /\ r[i] = q[i + 0]
  BY <1>1 DEF Shorter
<1>3. q = <<>> => r = <<>>
  BY <1>1, EmptySeq DEF Shorter
<1> QED BY <1>2, <1>3 DEF Part

LEMMA TailPart ==
  ASSUME NEW q \in Seq(Nat), q # <<>>
  PROVE  Part(Tail(q), q) /\ Tail(q) \in Seq(Nat)
<1>1. /\ Tail(q) \in Seq(Nat) /\ Len(Tail(q)) = Len(q) - 1
      /\ \A i \in 1 .. Len(Tail(q)) : Tail(q)[i] = q[i + 1]
  BY HeadTailProperties
<1>2. \A i \in DOMAIN Tail(q) : i + 1 \in DOMAIN q /\ Tail(q)[i] = q[i + 1]
  BY <1>1
<1> QED BY <1>1, <1>2 DEF Part

\* Requests of the page only become less.
LEMMA PartsInOrder ==
  ASSUME TypeOK, TypeOK', NEW p \in Pages, Increasing(p),
         \A s \in Sockets : s[1] = p => Part(requests'[s], requests[s])
  PROVE  Increasing(p)' /\ \A op \in Nat : Asked(p, op)' => Asked(p, op)
<1>1. ASSUME NEW s \in Sockets
      PROVE  requests[s] \in Seq(Nat) /\ requests'[s] \in Seq(Nat)
  BY DEF TypeOK
<1>2. ASSUME NEW s \in Sockets, NEW t \in Sockets, NEW i \in DOMAIN requests'[s],
             NEW j \in DOMAIN requests'[t], s[1] = p, t[1] = p, Before(s, i, t, j)
      PROVE  requests'[s][i] < requests'[t][j]
  <2>1. i \in Nat /\ j \in Nat
    BY <1>1
  <2>2. PICK k \in Nat : \A n \in DOMAIN requests'[s] :
          n + k \in DOMAIN requests[s] /\ requests'[s][n] = requests[s][n + k]
    BY <1>2 DEF Part
  <2>3. PICK l \in Nat : \A n \in DOMAIN requests'[t] :
          n + l \in DOMAIN requests[t] /\ requests'[t][n] = requests[t][n + l]
    BY <1>2 DEF Part
  <2>4. CASE s[2] < t[2]
    <3>1. Before(s, i + k, t, j + l)
      BY <2>4 DEF Before
    <3>2. requests[s][i + k] < requests[t][j + l]
      BY <1>2, <2>2, <2>3, <3>1 DEF Increasing
    <3> QED BY <2>2, <2>3, <3>2
  <2>5. CASE s = t /\ i < j
    <3>1. j + k \in DOMAIN requests[s] /\ requests'[s][j] = requests[s][j + k]
      BY <2>2, <2>5
    <3>2. i + k < j + k
      BY <2>1, <2>5
    <3>3. Before(s, i + k, t, j + k)
      BY <2>5, <3>2 DEF Before
    <3>4. requests[s][i + k] < requests[t][j + k]
      BY <1>2, <2>2, <2>5, <3>1, <3>3 DEF Increasing
    <3> QED BY <2>2, <2>5, <3>1, <3>4
  <2> QED BY <1>2, <2>4, <2>5 DEF Before
<1>3. Increasing(p)'
  BY <1>2 DEF Increasing, Before
<1>4. ASSUME NEW op \in Nat, Asked(p, op)' PROVE Asked(p, op)
  <2>1. PICK s \in Sockets : s[1] = p /\ \E i \in DOMAIN requests'[s] : requests'[s][i] = op
    BY <1>4 DEF Asked
  <2>2. \E i \in DOMAIN requests[s] : requests[s][i] = op
    BY <2>1 DEF Part
  <2> QED BY <2>1, <2>2 DEF Asked
<1> QED BY <1>3, <1>4

\* A page that does not ask keeps the order.
LEMMA KeepsOrder ==
  ASSUME TypeOK, TypeOK', NEW p \in Pages, InOrder(p),
         Keeps(page[p], page'[p]) \/ Waits(page[p], page'[p]),
         \A s \in Sockets : s[1] = p => Shorter(requests'[s], requests[s]),
         \A op \in Nat : Answered(p, op)' => Answered(p, op)
  PROVE  InOrder(p)'
<1>1. /\ page[p].op \in Nat /\ page'[p].op \in Nat /\ page[p].number \in Nat /\ page'[p].number \in Nat
      /\ page'[p].number \in 1 .. MaxCloses + 1
  <2>1. page[p] \in Page /\ page'[p] \in Page
    BY DEF TypeOK
  <2> QED BY <2>1 DEF Page
<1>2. ASSUME NEW s \in Sockets, s[1] = p
      PROVE  Part(requests'[s], requests[s]) /\ (requests[s] = <<>> => requests'[s] = <<>>)
  <2>1. requests[s] \in Seq(Nat) /\ requests'[s] \in Seq(Nat)
    BY DEF TypeOK
  <2> QED BY <1>2, <2>1, ShorterPart
<1>3. Increasing(p)' /\ \A op \in Nat : Asked(p, op)' => Asked(p, op)
  BY <1>2, PartsInOrder DEF InOrder
<1>4. ASSUME NEW op \in Nat, (Answered(p, op) \/ Asked(p, op))'
      PROVE  op <= page'[p].op /\ (page'[p].marking = "waits" => op # page'[p].op)
  <2>1. Answered(p, op) \/ Asked(p, op)
    BY <1>3, <1>4
  <2>2. op <= page[p].op /\ (page[p].marking = "waits" => op # page[p].op)
    BY <2>1 DEF InOrder, Begun
  <2>3. CASE Keeps(page[p], page'[p])
    BY <2>2, <2>3 DEF Keeps
  <2>4. CASE Waits(page[p], page'[p])
    <3>1. page'[p].op = page[p].op + 1
      BY <2>4 DEF Waits
    <3> QED BY <1>1, <2>2, <3>1
  <2> QED BY <2>3, <2>4
<1>5. Begun(p)'
  BY <1>4 DEF Begun
<1>6. AnsweredLast(p)'
  <2> SUFFICES ASSUME page'[p].marking = "sent", Answered(p, page[p].op)', page'[p].op = page[p].op
               PROVE  requests'[<<p, page'[p].number>>] = <<>>
    BY DEF AnsweredLast, Keeps, Waits
  <2>1. page[p].marking = "sent" /\ page'[p].number >= page[p].number
    BY DEF Keeps, Waits
  <2>2. requests[<<p, page[p].number>>] = <<>>
    BY <1>1, <2>1 DEF InOrder, AnsweredLast
  <2> DEFINE s == <<p, page'[p].number>>
  <2>3. s \in Sockets /\ s[1] = p /\ s[2] = page'[p].number
    BY <1>1 DEF Sockets
  <2>4. requests[s] = <<>>
    <3>1. CASE page'[p].number = page[p].number
      BY <2>2, <3>1
    <3>2. CASE page'[p].number # page[p].number
      <4>1. ~(page'[p].number <= page[p].number)
        BY <1>1, <2>1, <3>2
      <4> QED BY <2>3, <4>1 DEF TypeOK
    <3> QED BY <3>1, <3>2
  <2> QED BY <1>2, <2>3, <2>4
<1> QED BY <1>3, <1>5, <1>6 DEF InOrder

\* A page asks for an operation later than all that were.
LEMMA AsksOrder ==
  ASSUME TypeOK, TypeOK', NEW p \in Pages, InOrder(p), Asks(page[p], page'[p]),
         \A s \in Sockets :
           requests'[s] = IF s = <<p, page[p].number>>
                          THEN Append(requests[s], page'[p].op) ELSE requests[s],
         \A op \in Nat : Answered(p, op)' => Answered(p, op)
  PROVE  InOrder(p)'
<1>0. PICK now \in Nat : now = page'[p].op
  BY DEF TypeOK, Page
<1> DEFINE cur == <<p, page[p].number>>
<1>1. /\ page[p].op \in Nat /\ now \in Nat /\ page[p].number \in 1 .. MaxCloses + 1
      /\ page'[p].number = page[p].number /\ page'[p].marking = "sent"
      /\ now = page[p].op + 1 \/ (page[p].marking = "waits" /\ now = page[p].op)
  <2>1. page[p] \in Page /\ page'[p] \in Page
    BY DEF TypeOK
  <2> QED BY <1>0, <2>1 DEF Page, Asks
<1>2. cur \in Sockets /\ cur[1] = p /\ cur[2] = page[p].number
  BY <1>1 DEF Sockets
<1>3. ASSUME NEW op \in Nat, Answered(p, op) \/ Asked(p, op) PROVE op < now
  <2>1. op <= page[p].op /\ (page[p].marking = "waits" => op # page[p].op)
    BY <1>3 DEF InOrder, Begun
  <2> QED BY <1>1, <2>1
<1>4. ASSUME NEW s \in Sockets
      PROVE  requests[s] \in Seq(Nat) /\ requests'[s] \in Seq(Nat)
  BY DEF TypeOK
<1>5. ASSUME NEW s \in Sockets, s[1] = p, NEW i \in DOMAIN requests'[s]
      PROVE  \/ i \in DOMAIN requests[s] /\ requests'[s][i] = requests[s][i]
             \/ s = cur /\ i = Len(requests[s]) + 1 /\ requests'[s][i] = now
  <2>1. CASE s = cur
    <3>1. requests'[s] = Append(requests[s], now)
      BY <1>0, <2>1
    <3> HIDE DEF cur
    <3>2. /\ requests[s] \in Seq(Nat) /\ Len(requests'[s]) = Len(requests[s]) + 1
          /\ \A k \in 1 .. Len(requests[s]) : requests'[s][k] = requests[s][k]
          /\ requests'[s][Len(requests[s]) + 1] = now
      BY <1>1, <1>4, <3>1
    <3>3. i \in 1 .. Len(requests[s]) + 1
      BY <1>4, <3>2
    <3> QED BY <1>4, <2>1, <3>2, <3>3
  <2>2. CASE s # cur
    BY <2>2
  <2> QED BY <2>1, <2>2
<1> HIDE DEF cur
<1>6. ASSUME NEW op \in Nat, (Answered(p, op) \/ Asked(p, op))'
      PROVE  op <= now
  <2>1. CASE Answered(p, op)'
    <3>1. op < now
      BY <1>3, <2>1
    <3> QED BY <1>1, <3>1
  <2>2. CASE Asked(p, op)'
    <3>1. PICK s \in Sockets : s[1] = p /\ \E i \in DOMAIN requests'[s] : requests'[s][i] = op
      BY <2>2 DEF Asked
    <3>2. op = now \/ Asked(p, op)
      BY <1>5, <3>1 DEF Asked
    <3> QED BY <1>1, <1>3, <3>2
  <2> QED BY <1>6, <2>1, <2>2
<1>7. Begun(p)'
  BY <1>0, <1>1, <1>6 DEF Begun
<1>8. ASSUME NEW s \in Sockets, NEW t \in Sockets, NEW i \in DOMAIN requests'[s],
             NEW j \in DOMAIN requests'[t], s[1] = p, t[1] = p, Before(s, i, t, j)
      PROVE  requests'[s][i] < requests'[t][j]
  <2>1. CASE i \in DOMAIN requests[s] /\ requests'[s][i] = requests[s][i]
    <3>1. CASE j \in DOMAIN requests[t] /\ requests'[t][j] = requests[t][j]
      BY <1>8, <2>1, <3>1 DEF InOrder, Increasing
    <3>2. CASE requests'[t][j] = now
      <4>1. requests[s][i] \in Nat
        BY <1>4, <2>1
      <4>2. Asked(p, requests[s][i])
        BY <1>8, <2>1 DEF Asked
      <4> QED BY <1>3, <2>1, <3>2, <4>1, <4>2
    <3> QED BY <1>5, <1>8, <3>1, <3>2
  <2>2. CASE s = cur /\ i = Len(requests[s]) + 1
    <3>1. requests'[t] # <<>> /\ t[2] \in Nat
      BY <1>4, OfOne
    <3>2. t[2] <= page'[p].number
      BY <1>8, <3>1 DEF TypeOK
    <3>3. ~(s[2] < t[2])
      BY <1>1, <1>2, <2>2, <3>1, <3>2
    <3>4. s = t /\ i < j
      BY <1>8, <3>3 DEF Before
    <3>5. j <= Len(requests[s]) + 1 /\ j \in Nat /\ Len(requests[s]) \in Nat
      <4>1. j \in DOMAIN requests'[s] /\ requests'[s] \in Seq(Nat) /\ requests[s] \in Seq(Nat)
        BY <1>4, <1>8, <3>4
      <4>2. j \in DOMAIN requests[s] \/ j = Len(requests[s]) + 1
        BY <1>5, <1>8, <4>1
      <4> QED BY <4>1, <4>2
    <3> QED BY <2>2, <3>4, <3>5
  <2> QED BY <1>5, <1>8, <2>1, <2>2
<1>9. Increasing(p)'
  BY <1>8 DEF Increasing, Before
<1>10. AnsweredLast(p)'
  <2>1. ~Answered(p, now)'
    <3>1. ~(now < now)
      BY <1>0
    <3> QED BY <1>0, <1>3, <3>1
  <2> QED BY <1>0, <2>1 DEF AnsweredLast
<1> QED BY <1>7, <1>9, <1>10 DEF InOrder

\* Nothing is answered that was not before.
LEMMA NothingAnswered ==
  ASSUME NEW q \in Pages,
         \A s \in Sockets : handler'[s].answers \subseteq handler[s].answers,
         \A i \in DOMAIN wire'[q] : wire'[q][i].type = "operation_result" =>
            \/ \E j \in DOMAIN wire[q] : wire[q][j] = wire'[q][i]
            \/ \E s \in Sockets : s[1] = q /\ wire'[q][i] \in handler[s].answers
  PROVE  \A op \in Nat : Answered(q, op)' => Answered(q, op)
<1> SUFFICES ASSUME NEW op \in Nat, Answered(q, op)' PROVE Answered(q, op)
  OBVIOUS
<1>1. CASE \E i \in DOMAIN wire'[q] : wire'[q][i].type = "operation_result" /\ wire'[q][i].op = op
  BY <1>1 DEF Answered
<1>2. CASE \E s \in Sockets : s[1] = q /\ \E r \in handler'[s].answers : r.op = op
  BY <1>2 DEF Answered
<1> QED BY <1>1, <1>2 DEF Answered

LEMMA BrowserAnswers ==
  ASSUME TypeOK, NEW p \in Pages, Browser(p), handler' = handler, NEW q \in Pages
  PROVE  \A op \in Nat : Answered(q, op)' => Answered(q, op)
<1>1. wire \in [Pages -> Seq(Event)]
  BY DEF TypeOK
<1>2. ASSUME NEW i \in DOMAIN wire'[q]
      PROVE  \E j \in DOMAIN wire[q] : wire[q][j] = wire'[q][i]
  <2>1. CASE wire'[q] = wire[q]
    BY <1>2, <2>1
  <2>2. CASE wire[q] # <<>> /\ wire'[q] = Tail(wire[q])
    <3>1. wire[q] \in Seq(Event)
      BY <1>1
    <3>2. /\ Tail(wire[q]) \in Seq(Event) /\ Len(Tail(wire[q])) = Len(wire[q]) - 1
          /\ \A k \in 1 .. Len(Tail(wire[q])) : Tail(wire[q])[k] = wire[q][k + 1]
      BY <2>2, <3>1, HeadTailProperties
    <3>3. i \in 1 .. Len(wire[q]) - 1 /\ i + 1 \in DOMAIN wire[q]
      BY <1>2, <2>2, <3>1, <3>2
    <3> QED BY <2>2, <3>2, <3>3
  <2>3. CASE wire'[q] = <<>>
    BY <1>2, <2>3
  <2>4. wire'[q] = wire[q] \/ (wire[q] # <<>> /\ wire'[q] = Tail(wire[q])) \/ wire'[q] = <<>>
    <3>1. CASE Receive(p)
      BY <1>1, <3>1 DEF Receive
    <3>2. CASE \E hidden \in BOOLEAN : Closed(p, hidden)
      BY <1>1, <3>2 DEF Closed
    <3>3. CASE wire' = wire
      BY <3>3
    <3> QED BY <3>1, <3>2, <3>3 DEF Browser, MarkTimesOut, Opened, Reconnect, Select, Answer,
                                    Loaded, LoadFails
  <2> QED BY <2>1, <2>2, <2>3, <2>4
<1> QED BY <1>2, NothingAnswered

\* What a step of the server answers: the first request of a mark_read.
LEMMA ServerAnswers ==
  ASSUME TypeOK, Snapshots, Server \/ UNCHANGED vars, NEW q \in Pages
  PROVE  \/ /\ requests' = requests
            /\ \A op \in Nat : Answered(q, op)' => Answered(q, op)
         \/ \E s \in Sockets : MarkRead(s)
<1>0. Sockets \subseteq Coroutines
  BY OfOne
<1>1. ASSUME NEW h \in Handlers, NEW sender \in {"customer", "sales"}, Store(h, sender)
      PROVE  \A op \in Nat : Answered(q, op)' => Answered(q, op)
  <2>1. wire' = wire /\ \A s \in Sockets : handler'[s].answers \subseteq handler[s].answers
    <3>1. handler' = [handler EXCEPT ![h] = [handler[h] EXCEPT !.step = "stored"]] /\ wire' = wire
      BY <1>1 DEF Store
    <3>2. [handler[h] EXCEPT !.step = "stored"].answers = handler[h].answers
      BY OfOne DEF Coroutine
    <3> QED BY <1>0, <3>1, <3>2 DEF TypeOK
  <2> QED BY <2>1, NothingAnswered
<1>2. ASSUME NEW h \in Handlers, Build(h)
      PROVE  \A op \in Nat : Answered(q, op)' => Answered(q, op)
  <2>1. wire' = wire /\ \A s \in Sockets : handler'[s].answers \subseteq handler[s].answers
    <3>1. handler' = [handler EXCEPT ![h] = Broadcasting(SnapshotAt(cursor), {})] /\ wire' = wire
      BY <1>2 DEF Build
    <3>2. Broadcasting(SnapshotAt(cursor), {}).answers = {}
      BY DEF Broadcasting
    <3> QED BY <1>0, <3>1, <3>2 DEF TypeOK
  <2> QED BY <2>1, NothingAnswered
<1>3. ASSUME NEW h \in Coroutines, SendDone(h)
      PROVE  \A op \in Nat : Answered(q, op)' => Answered(q, op)
  <2>1. /\ handler'[h] = Idle /\ \A g \in Coroutines \ {h} : handler'[g] = handler[g]
        /\ \A i \in DOMAIN wire'[q] :
                   \/ i \in DOMAIN wire[q] /\ wire'[q][i] = wire[q][i]
                   \/ wire'[q][i] \in handler[h].answers /\ h \in Sockets /\ q = h[1]
    BY <1>3, SendDoneTypes
  <2>2. Idle.answers = {}
    BY DEF Idle
  <2>3. \A s \in Sockets : handler'[s].answers \subseteq handler[s].answers
    BY <1>0, <2>1, <2>2
  <2>4. \A i \in DOMAIN wire'[q] :
            \/ \E j \in DOMAIN wire[q] : wire[q][j] = wire'[q][i]
            \/ \E s \in Sockets : s[1] = q /\ wire'[q][i] \in handler[s].answers
    BY <2>1
  <2> QED BY <2>3, <2>4, NothingAnswered
<1>4. ASSUME NEW h \in Coroutines, NEW s \in Sockets, SendTo(h, s)
      PROVE  \A op \in Nat : Answered(q, op)' => Answered(q, op)
  <2> DEFINE e == [type |-> "session_updated", snapshot |-> handler[h].snapshot]
  <2>1. /\ \A g \in Coroutines : handler'[g].answers = handler[g].answers
        /\ wire'[q] = IF q = s[1] /\ Live(s) THEN Append(wire[q], e) ELSE wire[q]
    BY <1>4, SendToTypes
  <2>2. wire[q] \in Seq(Event) /\ handler[h].snapshot \in Snapshot
    BY OfOne DEF Coroutine
  <2>3. e.type = "session_updated" /\ e \in Event
    BY <2>2 DEF Event
  <2> HIDE DEF e
  <2>4. ASSUME NEW i \in DOMAIN Append(wire[q], e), Append(wire[q], e)[i].type = "operation_result"
        PROVE  \E j \in DOMAIN wire[q] : wire[q][j] = Append(wire[q], e)[i]
    <3>1. /\ Len(Append(wire[q], e)) = Len(wire[q]) + 1 /\ Len(wire[q]) \in Nat
          /\ Append(wire[q], e) \in Seq(Event)
      BY <2>2, <2>3
    <3>2. Append(wire[q], e)[Len(wire[q]) + 1] = e
      BY <2>2, <2>3
    <3>3. i \in 1 .. Len(wire[q]) + 1 /\ i # Len(wire[q]) + 1
      BY <2>3, <2>4, <3>1, <3>2
    <3>4. i \in DOMAIN wire[q] /\ wire[q][i] = Append(wire[q], e)[i]
      BY <2>2, <2>3, <3>1, <3>3
    <3> QED BY <3>4
  <2>5. \A i \in DOMAIN wire'[q] : wire'[q][i].type = "operation_result"
          => \E j \in DOMAIN wire[q] : wire[q][j] = wire'[q][i]
    BY <2>1, <2>4
  <2> QED BY <1>0, <2>1, <2>5, NothingAnswered
<1>5. CASE \/ MarkReadByRest \/ UNCHANGED vars
           \/ \E sender \in {"customer", "sales"} : StoreByRest(sender)
           \/ \E s \in Sockets : Register(s) \/ Disconnect(s)
  <2>1. handler' = handler /\ wire' = wire /\ requests' = requests
    BY <1>5 DEF MarkReadByRest, StoreByRest, vars, Register, Disconnect
  <2> QED BY <2>1, NothingAnswered
<1>6. ASSUME NEW h \in Coroutines, Abandon(h)
      PROVE  \A op \in Nat : Answered(q, op)' => Answered(q, op)
  <2>1. /\ \A g \in Coroutines \ {h} : handler'[g] = handler[g]
        /\ handler'[h].answers = handler[h].answers \/ handler'[h] = Idle
    BY <1>6, AbandonTypes
  <2>2. Idle.answers = {}
    BY DEF Idle
  <2>3. \A s \in Sockets : handler'[s].answers \subseteq handler[s].answers
    BY <1>0, <2>1, <2>2
  <2>4. wire' = wire
    BY <1>6 DEF Abandon
  <2> QED BY <2>3, <2>4, NothingAnswered
<1>7. requests' = requests \/ \E s \in Sockets : MarkRead(s)
  BY DEF Server, Store, StoreByRest, Build, SendDone, Abandon, SendTo, Register, Disconnect,
         MarkReadByRest, vars
<1> QED BY <1>1, <1>2, <1>3, <1>4, <1>5, <1>6, <1>7 DEF Server

\* The server answers the first request of a socket: no earlier one is left.
LEMMA MarkReadOrder ==
  ASSUME TypeOK, TypeOK', Snapshots, NEW s \in Sockets, MarkRead(s), NEW q \in Pages, InOrder(q)
  PROVE  InOrder(q)'
<1>1. /\ handler'[s].answers = {[type |-> "operation_result", op |-> Head(requests[s])]}
      /\ \A g \in Coroutines \ {s} : handler'[g] = handler[g]
      /\ \A p \in Pages : Same(page[p], page'[p])
      /\ requests' = [requests EXCEPT ![s] = Tail(requests[s])]
      /\ wire' = wire
  BY MarkReadTypes DEF MarkRead
<1>2. /\ requests[s] \in Seq(Nat) /\ requests[s] # <<>> /\ s[1] \in Pages
      /\ Sockets \subseteq Coroutines
  BY OfOne DEF MarkRead
<1> DEFINE first == requests[s][1]
<1>3. 1 \in DOMAIN requests[s] /\ first \in Nat /\ Head(requests[s]) = first
  BY <1>2, HeadTailProperties
<1>4. ASSUME NEW r \in Sockets
      PROVE  /\ requests[r] \in Seq(Nat) /\ requests'[r] \in Seq(Nat) /\ Part(requests'[r], requests[r])
             /\ requests'[r] = IF r = s THEN Tail(requests[s]) ELSE requests[r]
  <2>1. requests[r] \in Seq(Nat) /\ requests'[r] \in Seq(Nat)
    BY DEF TypeOK
  <2>2. requests'[r] = IF r = s THEN Tail(requests[s]) ELSE requests[r]
    BY <1>1 DEF TypeOK
  <2>3. Shorter(requests[r], requests[r])
    BY <2>1 DEF Shorter
  <2>4. Part(requests[r], requests[r])
    BY <2>1, <2>3, ShorterPart
  <2>5. Part(Tail(requests[s]), requests[s])
    BY <1>2, TailPart
  <2> QED BY <2>1, <2>2, <2>4, <2>5
<1>5. Increasing(q)' /\ \A op \in Nat : Asked(q, op)' => Asked(q, op)
  BY <1>4, PartsInOrder DEF InOrder
<1> HIDE DEF first
<1>6. ASSUME NEW op \in Nat, Answered(q, op)'
      PROVE  Answered(q, op) \/ (q = s[1] /\ op = first)
  <2>1. CASE \E i \in DOMAIN wire'[q] : wire'[q][i].type = "operation_result" /\ wire'[q][i].op = op
    BY <1>1, <2>1 DEF Answered
  <2>2. CASE \E r \in Sockets : r[1] = q /\ \E a \in handler'[r].answers : a.op = op
    <3>1. PICK r \in Sockets : r[1] = q /\ \E a \in handler'[r].answers : a.op = op
      BY <2>2
    <3>2. CASE r = s
      BY <1>1, <1>3, <3>1, <3>2
    <3>3. CASE r # s
      BY <1>1, <1>2, <3>1, <3>3 DEF Answered
    <3> QED BY <3>2, <3>3
  <2> QED BY <1>6, <2>1, <2>2 DEF Answered
<1>7. q = s[1] => Asked(q, first)
  BY <1>3 DEF Asked, first
<1>8. page'[q].op = page[q].op /\ page'[q].marking = page[q].marking /\ page'[q].number = page[q].number
  BY <1>1 DEF Same, Alike
<1>9. Begun(q)'
  <2>1. ASSUME NEW op \in Nat, (Answered(q, op) \/ Asked(q, op))'
        PROVE  op <= page'[q].op /\ (page'[q].marking = "waits" => op # page'[q].op)
    <3>1. Answered(q, op) \/ Asked(q, op)
      BY <1>5, <1>6, <1>7, <2>1
    <3> QED BY <1>8, <3>1 DEF InOrder, Begun
  <2> QED BY <2>1 DEF Begun
<1>10. AnsweredLast(q)'
  <2> DEFINE cur == <<q, page[q].number>>
  <2>1. cur \in Sockets /\ cur[1] = q /\ cur[2] = page[q].number /\ page[q].op \in Nat
    <3>1. page[q] \in Page
      BY DEF TypeOK
    <3> QED BY <3>1 DEF Page, Sockets
  <2>2. PICK op \in Nat : op = page[q].op /\ op = page'[q].op
    BY <1>8, <2>1
  <2> SUFFICES ASSUME page[q].marking = "sent", Answered(q, op)'
               PROVE  requests'[cur] = <<>>
    BY <1>8, <2>2 DEF AnsweredLast
  <2> HIDE DEF cur
  <2>3. CASE Answered(q, op)
    <3>1. requests[cur] = <<>>
      BY <2>2, <2>3 DEF InOrder, AnsweredLast, cur
    <3>2. cur # s
      BY <1>2, <3>1
    <3> QED BY <1>4, <2>1, <3>1, <3>2
  <2>4. CASE q = s[1] /\ op = first
    <3> SUFFICES ASSUME requests'[cur] # <<>> PROVE FALSE
      OBVIOUS
    <3>1. PICK j \in DOMAIN requests[cur] : Before(s, 1, cur, j)
      <4>1. requests'[cur] \in Seq(Nat) /\ requests[cur] \in Seq(Nat)
        BY <1>4, <2>1
      <4>2. CASE cur = s
        <5>1. Tail(requests[s]) # <<>> /\ Len(Tail(requests[s])) = Len(requests[s]) - 1
              /\ Tail(requests[s]) \in Seq(Nat)
          BY <1>2, <1>4, <2>1, <4>2, HeadTailProperties
        <5>2. 2 \in DOMAIN requests[s] /\ 1 < 2
          BY <1>2, <5>1
        <5> QED BY <4>2, <5>2 DEF Before
      <4>3. CASE cur # s
        <5>1. requests[cur] # <<>>
          BY <1>4, <2>1, <4>3
        <5>2. 1 \in DOMAIN requests[cur]
          BY <4>1, <5>1
        <5>3. s[2] <= page[q].number /\ s[2] \in Nat /\ page[q].number \in Nat
          <6>1. page[q] \in Page
            BY DEF TypeOK
          <6>2. s[2] <= page[q].number
            BY <1>2, <2>4 DEF TypeOK
          <6> QED BY <6>1, <6>2, OfOne DEF Page
        <5>4. s[2] # cur[2]
          BY <2>1, <2>4, <4>3 DEF Sockets
        <5>5. s[2] < cur[2]
          BY <2>1, <5>3, <5>4
        <5> QED BY <5>2, <5>5 DEF Before
      <4> QED BY <4>2, <4>3
    <3>2. first < requests[cur][j]
      BY <1>3, <2>1, <2>4, <3>1 DEF InOrder, Increasing, first
    <3>3. requests[cur][j] \in Nat
      BY <1>4, <2>1, <3>1
    <3>4. Asked(q, requests[cur][j])
      BY <2>1, <3>1 DEF Asked
    <3>5. requests[cur][j] <= page[q].op
      BY <3>3, <3>4 DEF InOrder, Begun
    <3> QED BY <1>3, <2>1, <2>2, <2>4, <3>2, <3>3, <3>5
  <2> QED BY <1>6, <2>2, <2>3, <2>4
<1> QED BY <1>5, <1>9, <1>10 DEF InOrder

LEMMA OrderedStep ==
  ASSUME TypeOK, TypeOK', Snapshots, Ordered, [Next]_vars
  PROVE  Ordered'
<1>1. \A q \in Pages : InOrder(q)
  BY DEF Ordered
<1>2. ASSUME NEW s \in Sockets PROVE Shorter(requests[s], requests[s])
  BY OfOne DEF Shorter
<1>3. ASSUME NEW q \in Pages, Same(page[q], page'[q]) PROVE Keeps(page[q], page'[q])
  <2>1. page[q].number >= page[q].number
    BY DEF TypeOK, Page
  <2> QED BY <1>3, <2>1 DEF Same, Alike, Keeps
<1>4. ASSUME NEW p \in Pages, Browser(p), NEW q \in Pages PROVE InOrder(q)'
  <2>1. Turns(p) /\ handler' = handler
    BY <1>4, BrowserTurns
  <2>2. \A op \in Nat : Answered(q, op)' => Answered(q, op)
    BY <1>4, <2>1, BrowserAnswers
  <2>3. CASE q # p
    <3>1. Keeps(page[q], page'[q])
      BY <1>3, <2>1, <2>3 DEF Turns, Same, Alike
    <3>2. \A s \in Sockets : s[1] = q => Shorter(requests'[s], requests[s])
      BY <1>2, <2>1, <2>3 DEF Turns
    <3> QED BY <1>1, <2>2, <3>1, <3>2, KeepsOrder
  <2>4. CASE q = p
    BY <1>1, <2>1, <2>2, <2>4, KeepsOrder, AsksOrder DEF Turns
  <2> QED BY <2>3, <2>4
<1>5. ASSUME Server \/ UNCHANGED vars, NEW q \in Pages PROVE InOrder(q)'
  <2>1. CASE requests' = requests /\ \A op \in Nat : Answered(q, op)' => Answered(q, op)
    <3>1. Keeps(page[q], page'[q])
      BY <1>3, <1>5, ServerTells
    <3> QED BY <1>1, <1>2, <2>1, <3>1, KeepsOrder
  <2>2. CASE \E s \in Sockets : MarkRead(s)
    BY <1>1, <2>2, MarkReadOrder
  <2> QED BY <1>5, <2>1, <2>2, ServerAnswers
<1> QED BY <1>4, <1>5 DEF Next, Ordered

-----------------------------------------------------------------------------
(* Marks: a page that hides an unread message is about to say it read it.  *)

\* The page shows all of len messages and none as unread, and dropped no mark.
Hides(g, len, u) == g.upto = len /\ ~g.unread /\ ~g.unsent /\ u

\* Page g has begun to say so, and the server did not answer.
Marks(g, p) == g.marking = "waits" \/ (g.marking = "sent" /\ ~Answered(p, g.op))

Marked(p) == Hides(page[p], Len(messages), Unread) => Marks(page[p], p)
Marking == \A p \in Pages : Marked(p)

\* A page that goes on as it was, or forgets what it shows.
LEMMA KeepsMarked ==
  ASSUME TypeOK, NEW p \in Pages, Marked(p), Unread' => Unread, messages' = messages,
         \A op \in Nat : Answered(p, op)' => Answered(p, op),
         page'[p].op = page[p].op, page'[p].marking = page[p].marking,
         Hides(page'[p], Len(messages), Unread) => Hides(page[p], Len(messages), Unread)
  PROVE  Marked(p)'
<1>1. PICK op \in Nat : op = page[p].op /\ op = page'[p].op
  BY DEF TypeOK, Page
<1> SUFFICES ASSUME Hides(page'[p], Len(messages), Unread') PROVE Marks(page[p], p)'
  BY DEF Marked
<1>2. Hides(page[p], Len(messages), Unread)
  BY DEF Hides
<1>3. page[p].marking = "waits" \/ (page[p].marking = "sent" /\ ~Answered(p, op))
  BY <1>1, <1>2 DEF Marked, Marks
<1> QED BY <1>1, <1>3 DEF Marks

LEMMA RenderMarked ==
  ASSUME TypeOK, NEW p \in Pages, InOrder(p), NEW g, Fits(g, closes, Len(messages)),
         Alike(page[p], g), Becomes(p, Rendered(g, p)),
         messages' = messages, cursor' = cursor,
         \A op \in Nat : Answered(p, op)' => Answered(p, op),
         Hides(g, Len(messages), Unread) => Marks(g, p)
  PROVE  Marked(p)'
<1> DEFINE m == Rendered(g, p)
<1>1. /\ m.upto = g.upto
      /\ \/ m = g /\ (g.watching => ~g.unread)
         \/ /\ g.marking = "no" /\ m.op = g.op + 1
            /\ \/ m.marking = "waits"
               \/ m.marking = "sent" /\ m.number = g.number
         \/ /\ g.marking # "no" /\ m.marking = g.marking /\ m.op = g.op
            /\ m.socket = g.socket /\ m.number = g.number
            /\ m.unsent = (g.unsent \/ Dropped(g, p))
  BY Renders
<1>2. page'[p] = m /\ m \in Page
  BY RenderTurns, Renders DEF Fits
<1>3. PICK op \in Nat : op = m.op
  BY <1>2 DEF Page
<1> HIDE DEF m
<1>4. g \in Page /\ g.op = page[p].op /\ g.marking = page[p].marking /\ g.number = page[p].number
  BY DEF Fits, Alike
<1>5. Unread' = Unread
  BY DEF Unread, IsUnread
<1> SUFFICES ASSUME Hides(m, Len(messages), Unread), m.marking # "waits"
             PROVE  m.marking = "sent" /\ ~Answered(p, op)'
  BY <1>2, <1>3, <1>5 DEF Marked, Marks
<1>6. CASE m = g
  BY <1>3, <1>6 DEF Marks
<1>7. CASE g.marking = "no" /\ m.op = g.op + 1 /\ m.marking \in {"waits", "sent"}
  <2>1. m.marking = "sent"
    BY <1>7
  <2>2. ~(op <= page[p].op)
    BY <1>3, <1>4, <1>7 DEF Page
  <2>3. ~Answered(p, op)
    BY <2>2 DEF InOrder, Begun
  <2> QED BY <2>1, <2>3
<1>8. CASE /\ g.marking # "no" /\ m.marking = g.marking /\ m.op = g.op
           /\ m.unsent = (g.unsent \/ Dropped(g, p))
  <2>1. g.marking = "sent" /\ m.marking = "sent"
    BY <1>4, <1>8 DEF Page
  <2>2. ~Dropped(g, p) /\ g.upto = Len(messages) /\ Unread
    BY <1>1, <1>8 DEF Hides
  <2>3. g.upto > cursor
    <3>1. PICK i \in DOMAIN messages : i > cursor
      BY <2>2 DEF Unread, IsUnread
    <3>2. i \in 1 .. Len(messages) /\ cursor \in Nat /\ Len(messages) \in Nat
      BY DEF TypeOK
    <3> QED BY <2>2, <3>1, <3>2
  <2>4. requests[<<p, page[p].number>>] # <<>>
    BY <1>4, <2>1, <2>2, <2>3 DEF Dropped
  <2>5. ~Answered(p, op)
    BY <1>3, <1>4, <1>8, <2>1, <2>4 DEF InOrder, AnsweredLast
  <2> QED BY <2>1, <2>5
<1> QED BY <1>1, <1>6, <1>7, <1>8

LEMMA ReceiveMarked ==
  ASSUME TypeOK, Snapshots, NEW p \in Pages, InOrder(p), Marked(p), Receive(p),
         \A op \in Nat : Answered(p, op)' => Answered(p, op)
  PROVE  Marked(p)'
<1> DEFINE e == Head(wire[p])
<1>1. /\ messages' = messages /\ cursor' = cursor /\ wire[p] # <<>>
  BY DEF Receive, database
<1>2. Unread' = Unread
  BY <1>1 DEF Unread, IsUnread
<1>3. CASE e.type = "operation_result"
  <2> DEFINE g == Resolved(page[p], e.op)
  <2>1. page[p] \in Page /\ Becomes(p, g)
    BY <1>3 DEF Receive, TypeOK
  <2>2. page'[p] = g
    BY <2>1 DEF Becomes, TypeOK
  <2>3. Answered(p, e.op)
    BY <1>1, <1>3, Arrives DEF Answered
  <2>4. CASE page[p].marking = "sent" /\ page[p].op = e.op
    <3>1. /\ g.upto = page[p].upto /\ g.unread = page[p].unread /\ g.unsent = page[p].unsent
      BY <2>1 DEF Resolved, Page
    <3>2. ~Marks(page[p], p)
      BY <2>3, <2>4 DEF Marks
    <3> QED BY <1>1, <1>2, <2>2, <3>1, <3>2 DEF Marked, Hides
  <2>5. CASE ~(page[p].marking = "sent" /\ page[p].op = e.op)
    <3>1. page'[p] = page[p]
      BY <2>2, <2>5 DEF Resolved
    <3> QED BY <1>1, <1>2, <3>1, KeepsMarked
  <2> QED BY <2>4, <2>5
<1>4. CASE e.type # "operation_result"
  <2> DEFINE s == e.snapshot
             g == Shown(page[p], s)
  <2>1. s \in Snapshot /\ Honest(s, Len(messages), Unread) /\ s.upto <= Len(messages)
    BY <1>1, <1>4, Arrives DEF Honest
  <2>2. /\ Fits(g, closes, Len(messages)) /\ Alike(page[p], g) /\ g.upto = s.upto
        /\ g.unread = s.unread
    BY <2>1, AlikeShown
  <2>3. Becomes(p, Rendered(g, p))
    BY <1>4 DEF Receive
  <2> HIDE DEF g
  <2>4. ~Hides(g, Len(messages), Unread)
    BY <2>1, <2>2 DEF Hides, Honest
  <2> QED BY <1>1, <2>2, <2>3, <2>4, RenderMarked
<1> QED BY <1>3, <1>4

LEMMA BrowserMarked ==
  ASSUME TypeOK, Snapshots, NEW p \in Pages, InOrder(p), Marked(p), Browser(p)
  PROVE  Marked(p)'
<1>1. messages' = messages /\ cursor' = cursor /\ handler' = handler
  BY BrowserTurns
<1>2. \A op \in Nat : Answered(p, op)' => Answered(p, op)
  BY <1>1, BrowserAnswers
<1>3. Unread' = Unread
  BY <1>1 DEF Unread, IsUnread
<1>4. CASE Receive(p)
  BY <1>2, <1>4, ReceiveMarked
<1>5. CASE MarkTimesOut(p)
  <2>1. page'[p].unsent
    BY <1>5, TimesOutTurns
  <2> QED BY <2>1 DEF Marked, Hides
<1>6. CASE Opened(p)
  <2>1. /\ page'[p].upto = page[p].upto /\ page'[p].unread = page[p].unread
        /\ page'[p].unsent = page[p].unsent /\ page'[p].op = page[p].op
        /\ page'[p].marking = IF page[p].marking = "waits" THEN "sent" ELSE page[p].marking
    BY <1>6, OpenedTurns
  <2>2. PICK op \in Nat : op = page[p].op /\ op = page'[p].op
    BY <2>1 DEF TypeOK, Page
  <2>3. CASE page[p].marking = "waits"
    <3>1. ~Answered(p, op)
      BY <2>2, <2>3 DEF InOrder, Begun
    <3>2. ~Answered(p, op)'
      BY <1>2, <3>1
    <3> QED BY <2>1, <2>2, <2>3, <3>2 DEF Marked, Marks
  <2>4. CASE page[p].marking # "waits"
    <3>1. Hides(page'[p], Len(messages), Unread) => Hides(page[p], Len(messages), Unread)
      BY <2>1 DEF Hides
    <3> QED BY <1>1, <1>2, <1>3, <2>1, <2>4, <3>1, KeepsMarked
  <2> QED BY <2>3, <2>4
<1>7. CASE Reconnect(p)
  <2>1. /\ page'[p].upto = page[p].upto /\ page'[p].unread = page[p].unread
        /\ page'[p].unsent = page[p].unsent /\ page'[p].op = page[p].op
        /\ page'[p].marking = page[p].marking
    BY <1>7, ReconnectTurns
  <2> QED BY <1>1, <1>2, <1>3, <2>1, KeepsMarked DEF Hides
<1>8. ASSUME NEW hidden \in BOOLEAN, Closed(p, hidden) PROVE Marked(p)'
  <2>1. /\ page'[p].upto = page[p].upto /\ page'[p].unread = page[p].unread
        /\ page'[p].op = page[p].op
        /\ IF page[p].marking = "waits" THEN page'[p].unsent
           ELSE page'[p].marking = page[p].marking /\ page'[p].unsent = page[p].unsent
    BY <1>8, ClosedTurns
  <2>2. CASE page[p].marking = "waits"
    BY <2>1, <2>2 DEF Marked, Hides
  <2>3. CASE page[p].marking # "waits"
    BY <1>1, <1>2, <1>3, <2>1, <2>3, KeepsMarked DEF Hides
  <2> QED BY <2>2, <2>3
<1>9. CASE Select(p)
  <2>1. PICK g : /\ Fits(g, closes, Len(messages)) /\ Alike(page[p], g)
                 /\ g.upto = page[p].upto /\ g.unread = page[p].unread
                 /\ g.unsent = page[p].unsent /\ Becomes(p, Rendered(g, p))
    BY <1>9, SelectTurns
  <2>2. Hides(g, Len(messages), Unread) => Marks(g, p)
    BY <2>1 DEF Marked, Hides, Marks, Alike
  <2> QED BY <1>1, <1>2, <2>1, <2>2, RenderMarked
<1>10. CASE Answer(p)
  <2>1. page' = page
    BY <1>10 DEF Answer
  <2> QED BY <1>1, <1>2, <1>3, <2>1, KeepsMarked
<1>11. CASE Loaded(p)
  <2>1. PICK g : /\ Fits(g, closes, Len(messages)) /\ Alike(page[p], g)
                 /\ g.upto = fetched[p].upto /\ g.unread = fetched[p].unread
                 /\ Becomes(p, Rendered(g, p))
    BY <1>11, LoadedTurns
  <2>2. Honest(fetched[p], Len(messages), Unread)
    BY DEF Snapshots
  <2>3. ~Hides(g, Len(messages), Unread)
    BY <2>1, <2>2 DEF Hides, Honest
  <2> QED BY <1>1, <1>2, <2>1, <2>3, RenderMarked
<1>12. CASE LoadFails(p)
  <2>1. /\ Alike(page[p], page'[p]) /\ page'[p].unsent = page[p].unsent
        /\ \/ /\ page'[p].upto = page[p].upto /\ page'[p].unread = page[p].unread
           \/ page'[p].upto = 0
    BY <1>12, LoadFailsTurns
  <2>2. Len(messages) = 0 => ~Unread
    <3>1. DOMAIN messages = 1 .. Len(messages)
      BY DEF TypeOK
    <3> QED BY <3>1 DEF Unread
  <2>3. Hides(page'[p], Len(messages), Unread) => Hides(page[p], Len(messages), Unread)
    BY <2>1, <2>2 DEF Hides
  <2> QED BY <1>1, <1>2, <1>3, <2>1, <2>3, KeepsMarked DEF Alike
<1> QED BY <1>4, <1>5, <1>6, <1>7, <1>8, <1>9, <1>10, <1>11, <1>12 DEF Browser

LEMMA ServerMarked ==
  ASSUME TypeOK, Snapshots, NEW p \in Pages, Marked(p), Server \/ UNCHANGED vars
  PROVE  Marked(p)'
<1>1. ASSUME NEW s \in Sockets, MarkRead(s) PROVE Marked(p)'
  BY <1>1, MarkReadTypes DEF Marked, Hides
<1>2. ASSUME MarkReadByRest PROVE Marked(p)'
  <2>1. ~Unread'
    BY <1>2, ReadsAll DEF MarkReadByRest
  <2> QED BY <2>1 DEF Marked, Hides
<1>3. ASSUME NEW sender \in {"customer", "sales"},
             StoreByRest(sender) \/ \E h \in Handlers : Store(h, sender)
      PROVE  Marked(p)'
  <2>1. /\ messages' = Append(messages, sender) /\ page' = page
        /\ messages \in Seq({"customer", "sales"})
    BY <1>3 DEF Store, StoreByRest, TypeOK
  <2>2. Len(messages') = Len(messages) + 1 /\ Len(messages) \in Nat
    BY <2>1
  <2>3. page[p].upto <= Len(messages) /\ page[p].upto \in Nat
    BY DEF TypeOK, Page
  <2>4. page'[p].upto # Len(messages')
    BY <2>1, <2>2, <2>3
  <2> QED BY <2>4 DEF Marked, Hides
<1>4. ASSUME UNCHANGED database, \A s \in Sockets : ~MarkRead(s),
             page'[p].unsent = page[p].unsent
      PROVE  Marked(p)'
  <2>1. Same(page[p], page'[p])
    BY ServerTells
  <2>2. \A op \in Nat : Answered(p, op)' => Answered(p, op)
    BY <1>4, ServerAnswers
  <2>3. messages' = messages /\ Unread' = Unread
    BY <1>4 DEF database, Unread, IsUnread
  <2>4. Hides(page'[p], Len(messages), Unread) => Hides(page[p], Len(messages), Unread)
    BY <1>4, <2>1 DEF Hides, Same
  <2> QED BY <2>1, <2>2, <2>3, <2>4, KeepsMarked DEF Same, Alike
<1>5. ASSUME NEW h \in Handlers, Build(h)
      PROVE  UNCHANGED database /\ page'[p].unsent = page[p].unsent
  BY <1>5, Misses DEF Build
<1>6. ASSUME NEW h \in Coroutines, Abandon(h)
      PROVE  UNCHANGED database /\ page'[p].unsent = page[p].unsent
  BY <1>6, AbandonTypes DEF Abandon
<1>7. \/ \E h \in Handlers : Build(h)
      \/ \E sender \in {"customer", "sales"} :
            StoreByRest(sender) \/ \E h \in Handlers : Store(h, sender)
      \/ \E h \in Coroutines : Abandon(h)
      \/ \E s \in Sockets : MarkRead(s)
      \/ MarkReadByRest
      \/ UNCHANGED database /\ page' = page
  BY DEF Server, vars, SendDone, SendTo, Register, Disconnect, database
<1> QED BY <1>1, <1>2, <1>3, <1>4, <1>5, <1>6, <1>7

LEMMA MarkingStep ==
  ASSUME TypeOK, Snapshots, Ordered, Marking, [Next]_vars
  PROVE  Marking'
<1>1. ASSUME NEW p \in Pages, Browser(p), NEW q \in Pages PROVE Marked(q)'
  <2>1. CASE q = p
    BY <1>1, <2>1, BrowserMarked DEF Ordered, Marking
  <2>2. CASE q # p
    <3>1. /\ page'[q] = page[q] /\ messages' = messages /\ cursor' = cursor
          /\ handler' = handler
      BY <1>1, <2>2, BrowserTurns DEF Turns
    <3>2. \A op \in Nat : Answered(q, op)' => Answered(q, op)
      BY <1>1, <3>1, BrowserAnswers
    <3>3. Unread' = Unread
      BY <3>1 DEF Unread, IsUnread
    <3> QED BY <3>1, <3>2, <3>3, KeepsMarked DEF Marking
  <2> QED BY <2>1, <2>2
<1>2. ASSUME Server \/ UNCHANGED vars, NEW q \in Pages PROVE Marked(q)'
  BY <1>2, ServerMarked DEF Marking
<1> QED BY <1>1, <1>2 DEF Next, Marking

LEMMA FirstOrder ==
  ASSUME Init
  PROVE  Ordered
<1>1. /\ TypeOK
      /\ \A p \in Pages : wire[p] = <<>> /\ page[p].marking = "no"
      /\ \A s \in Sockets : requests[s] = <<>>
      /\ \A h \in Coroutines : handler[h] = Idle
  BY InitTypes
<1>2. Idle.answers = {} /\ Sockets \subseteq Coroutines
  BY OfOne, <1>1 DEF Idle
<1>3. \A p \in Pages, op \in Nat : ~Answered(p, op) /\ ~Asked(p, op)
  BY <1>1, <1>2 DEF Answered, Asked
<1> QED BY <1>1, <1>3 DEF Ordered, InOrder, Begun, Increasing, AnsweredLast

\* No unread message is lost sight of: once everything has arrived, a page that
\* shows all messages and none as unread is right, unless its mark_read failed or
\* was left out because one was under way.  _handle_client_event answers a
\* socket's requests in their order, and the page's operations end in it.
THEOREM BadgesAgree == Spec => []BadgeAgrees
<1> DEFINE I == TypeOK /\ Snapshots /\ Ordered /\ Marking
<1>1. Init => I
  <2> SUFFICES ASSUME Init PROVE Marking
    BY InitTypes, FirstOrder
  <2>1. \A p \in Pages : page[p].unread = (messages # <<>>)
    BY InitTypes
  <2>2. messages = <<>> => ~Unread
    BY DEF Unread
  <2> QED BY <2>1, <2>2 DEF Marking, Marked, Hides
<1>2. I /\ [Next]_vars => I'
  <2> SUFFICES ASSUME I, [Next]_vars PROVE I'
    OBVIOUS
  <2>1. TypeOK' /\ Snapshots'
    BY StepTypes
  <2>2. Ordered' /\ Marking'
    BY <2>1, OrderedStep, MarkingStep
  <2> QED BY <2>1, <2>2
<1>3. I => BadgeAgrees
  <2> SUFFICES ASSUME I, NEW p \in Pages, page[p].marking = "no",
                      page[p].upto = Len(messages), ~page[p].unread, ~page[p].unsent
               PROVE  ~Unread
    BY DEF BadgeAgrees, Unread
  <2> QED BY DEF Marking, Marked, Hides, Marks
<1> QED BY <1>1, <1>2, <1>3, PTL DEF Spec

\* The operations of a page are asked and answered in their order: when the result
\* of its last one is on its way, the endpoint of its socket has no mark_read left
\* to answer, so a page that is told of its last operation waits for no other.
THEOREM MarksInOrder == Spec => [](TypeOK /\ Ordered)
<1> DEFINE I == TypeOK /\ Snapshots /\ Ordered
<1>1. Init => I
  BY InitTypes, FirstOrder
<1>2. I /\ [Next]_vars => I'
  BY StepTypes, OrderedStep
<1> QED BY <1>1, <1>2, PTL DEF Spec
=============================================================================
