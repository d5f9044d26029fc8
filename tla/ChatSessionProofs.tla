------------------------- MODULE ChatSessionProofs -------------------------
(***************************************************************************)
(* What the rows of a session keep for any requests, stages and bounds.    *)
(***************************************************************************)
EXTENDS ChatSession, TLAPS

-----------------------------------------------------------------------------
(* Types.                                                                  *)

\* What a customer or a human said is known by what it says.
Heard ==
  \A i \in DOMAIN messages :
    messages[i].sender \in {"customer", "human"} => messages[i].id \in Said

LEMMA StateParts ==
  ASSUME NEW s \in State
  PROVE  /\ s = [session |-> s.session, profile |-> s.profile, memory |-> s.memory]
         /\ s.session \in Session /\ s.profile \in SUBSET Said /\ s.memory \in SUBSET Said
         /\ s.session.customer \in Customers
BY DEF State, Session

\* What a service call makes of its copy is a copy.
LEMMA CopyWithStage ==
  ASSUME NEW s \in State, NEW stage \in Stages
  PROVE  [s EXCEPT !.session.stage = stage] \in State
<1>1. [s.session EXCEPT !.stage = stage] \in Session
  BY StateParts DEF Session
<1> QED BY <1>1 DEF State

LEMMA CopyHandedOver == ASSUME NEW s \in State PROVE HandedOver(s) \in State
<1>1. [s.session EXCEPT !.transfer_flag = TRUE] \in Session
  BY StateParts, Zenon DEF Session
<1> QED BY <1>1 DEF State, HandedOver

LEMMA CopyReleased ==
  ASSUME NEW s \in State, NEW heard \in SUBSET Said
  PROVE  [s EXCEPT !.session.transfer_flag = FALSE, !.profile = @ \cup heard] \in State
<1>1. [s.session EXCEPT !.transfer_flag = FALSE] \in Session
  BY StateParts, Zenon DEF Session
<1> QED BY <1>1 DEF State

LEMMA CopyCounted == ASSUME NEW s \in State PROVE Counted(s) \in State
<1>1. [s.session EXCEPT !.talked = TRUE] \in Session
  BY StateParts, Zenon DEF Session
<1> QED BY <1>1 DEF State, Counted

LEMMA CopyAligned == ASSUME NEW s \in State PROVE Aligned(s) \in State
BY CopyWithStage, StageAssumption DEF Aligned

LEMMA CopyLearnt ==
  ASSUME NEW s \in State, NEW id \in Said
  PROVE  Learnt(s, id) \in State
BY DEF Learnt, State

LEMMA CopyWithLine ==
  ASSUME NEW s \in State, NEW id \in Said
  PROVE  WithLine(s, id) \in State
<1>1. Counted(s) \in State
  BY CopyCounted
<1> QED BY <1>1 DEF WithLine, State

LEMMA CopyLoaded == ASSUME TypeOK PROVE Loaded \in State
BY DEF Loaded, State, Session, TypeOK

LEMMA NoCopyIsCopy == NoCopy \in State
<1>1. 0 \in Customers
  BY LimitsAssumption DEF Customers
<1>2. [customer |-> 0, stage |-> FirstStage, talked |-> FALSE, transfer_flag |-> FALSE]
        \in Session
  BY <1>1, StageAssumption DEF Session
<1> QED BY <1>2 DEF NoCopy, State

LEMMA IdleType == Idle \in [waits : BOOLEAN, copy : State, heard : SUBSET Said]
BY NoCopyIsCopy DEF Idle

\* What is stored of a copy has the types of the rows.
LEMMA SavedType ==
  ASSUME TypeOK, NEW s \in State
  PROVE  /\ SaveSession(s) => session' \in Session
         /\ SaveProfile(s) => profile' \in [Customers -> SUBSET Said]
         /\ SaveMemory(s) => memory' \subseteq Said
BY StateParts DEF SaveSession, SaveProfile, SaveMemory, TypeOK

LEMMA SavedMessageType ==
  ASSUME TypeOK, Heard, NEW id \in Said \cup Requests,
         NEW sender \in {"customer", "salesagent", "human"},
         sender \in {"customer", "human"} => id \in Said,
         SaveMessage(id, sender)
  PROVE  messages' \in Seq(Message) /\ stored' \in Nat /\ Heard'
<1>1. CASE IsStored(id)
  BY <1>1 DEF SaveMessage, TypeOK, Heard
<1>2. CASE ~IsStored(id)
  <2> DEFINE m == [id |-> id, sender |-> sender, at |-> stored + 1]
  <2>1. m \in Message
    BY DEF Message, TypeOK
  <2>2. messages' = Append(messages, m) /\ stored' = stored + 1
    BY <1>2 DEF SaveMessage
  <2>3. messages \in Seq(Message) /\ stored \in Nat
    BY DEF TypeOK
  <2> HIDE DEF m
  <2>4. messages' \in Seq(Message) /\ stored' \in Nat
    BY <2>1, <2>2, <2>3
  <2>5. DOMAIN messages' = 1 .. Len(messages) + 1 /\ DOMAIN messages = 1 .. Len(messages)
    BY <2>1, <2>2, <2>3
  <2>6. \A i \in DOMAIN messages' : messages'[i] = IF i = Len(messages) + 1 THEN m ELSE messages[i]
    BY <2>1, <2>2, <2>3
  <2>7. m.sender = sender /\ m.id = id
    BY DEF m
  <2>8. ASSUME NEW i \in DOMAIN messages', messages'[i].sender \in {"customer", "human"}
        PROVE  messages'[i].id \in Said
    <3>1. CASE i = Len(messages) + 1
      BY <2>6, <2>7, <2>8, <3>1
    <3>2. CASE i # Len(messages) + 1
      <4>1. i \in DOMAIN messages
        BY <2>3, <2>5, <2>8, <3>2
      <4> QED BY <2>6, <2>8, <3>2, <4>1 DEF Heard
    <3> QED BY <3>1, <3>2
  <2> QED BY <2>4, <2>8 DEF Heard
<1> QED BY <1>1, <1>2

LEMMA EverybodySays ==
  /\ \A r \in Requests : AskOf[r] \in Said
  /\ Humans \subseteq Said /\ Broadcasts \subseteq Said /\ "welcome" \in Said
BY DEF Said, Asks

LEMMA InitType == Init => TypeOK /\ Heard
<1> SUFFICES ASSUME Init PROVE TypeOK /\ Heard
  OBVIOUS
<1>1. 0 \in Customers /\ 0 \in 0 .. MaxTakeOvers
  BY LimitsAssumption DEF Customers
<1>2. session \in Session
  BY <1>1, StageAssumption DEF Init, Session
<1>3. profile \in [Customers -> SUBSET Said] /\ memory \subseteq Said
  BY EverybodySays DEF Init
<1>4. messages \in Seq(Message)
  <2>1. [id |-> "welcome", sender |-> "salesagent", at |-> 1] \in Message
    BY EverybodySays DEF Message
  <2> QED BY <2>1 DEF Init
<1>5. /\ turn \in [Requests -> {"none", "running", "closed"}]
      /\ request \in [Requests -> {"none", "queued", "left", "running", "replied", "done"}]
      /\ update \in [Streams -> {"none", "queued", "agent", "done"}]
      /\ cancelled \subseteq Streams
  BY DEF Init
<1>6. view \in [Requests -> State] /\ updateView \in [Streams -> State]
  BY NoCopyIsCopy DEF Init
<1>7. release \in [waits : BOOLEAN, copy : State, heard : SUBSET Said]
  BY IdleType DEF Init
<1>8. /\ stored \in Nat /\ before \in Nat
      /\ epoch \in Customers /\ quiet \in BOOLEAN
      /\ takeovers \in 0 .. MaxTakeOvers
  BY <1>1 DEF Init
<1>9. Heard
  BY EverybodySays DEF Init, Heard
<1> QED BY <1>2, <1>3, <1>4, <1>5, <1>6, <1>7, <1>8, <1>9 DEF TypeOK

\* The context of a release is what customer and humans said.
LEMMA ContextType == TypeOK /\ Heard => Context \subseteq Said
<1> SUFFICES ASSUME TypeOK, Heard PROVE Context \subseteq Said
  OBVIOUS
<1> DEFINE by(sender) == {i \in DOMAIN messages : messages[i].sender = sender}
           talk == by("customer") \cup by("human")
           said(from) == {messages[i].id : i \in {j \in talk : j >= from}}
           after == {i \in by("customer") : \A j \in by("salesagent") : j < i}
<1>1. \A from : said(from) \subseteq Said
  BY DEF Heard
<1>2. Context \in {said(Min(after)), said(Max(by("customer"))), said(0)}
  BY DEF Context
<1> QED BY <1>1, <1>2

\* The rows: what every step stores in them.
Rows ==
  /\ session \in Session
  /\ profile \in [Customers -> SUBSET Said]
  /\ memory \subseteq Said
  /\ messages \in Seq(Message) /\ stored \in Nat /\ Heard
  /\ turn \in [Requests -> {"none", "running", "closed"}]

LEMMA RowsNow == TypeOK /\ Heard => Rows
BY DEF TypeOK, Rows

LEMMA SavedAllType ==
  ASSUME TypeOK, NEW s \in State, SaveAll(s)
  PROVE  /\ session' \in Session /\ profile' \in [Customers -> SUBSET Said]
         /\ memory' \subseteq Said
BY SavedType DEF SaveAll

LEMMA PersistRows ==
  ASSUME TypeOK, Heard, NEW id \in Said, NEW sender \in {"salesagent", "human"},
         Persist(id, sender)
  PROVE  Rows'
<1> DEFINE s == IF IsStored(id) THEN Aligned(Loaded) ELSE WithLine(Aligned(Loaded), id)
<1>1. s \in State
  BY CopyLoaded, CopyAligned, CopyWithLine
<1>2. SaveSession(s) /\ SaveProfile(s) /\ SaveMemory(s) /\ SaveMessage(id, sender)
  BY DEF Persist
<1>3. turn' = turn
  BY DEF Persist
<1> HIDE DEF s
<1> QED BY <1>1, <1>2, <1>3, SavedType, SavedMessageType DEF Rows, TypeOK

LEMMA ClosedTurnType ==
  ASSUME TypeOK, NEW r \in Requests, CloseTurn(r)
  PROVE  turn' \in [Requests -> {"none", "running", "closed"}]
BY DEF CloseTurn, TypeOK

LEMMA RestRows ==
  ASSUME TypeOK, Heard, NEW r \in Rest,
         \/ BeginRest(r) \/ RestReplies(r) \/ RestHandsOver(r) \/ RestIsSilent(r)
         \/ RestInterrupted(r) \/ RestBreaks(r)
  PROVE  Rows'
<1> r \in Requests
  BY DEF Requests
<1>0. view[r] \in State /\ AskOf[r] \in Said
  BY EverybodySays DEF TypeOK
<1>1. CASE BeginRest(r)
  <2>1. Aligned(Loaded) \in State
    BY CopyLoaded, CopyAligned
  <2>2. SaveSession(Aligned(Loaded)) /\ SaveMessage(AskOf[r], "customer")
        /\ UNCHANGED <<profile, memory>> /\ turn' = [turn EXCEPT ![r] = "running"]
    BY <1>1 DEF BeginRest
  <2> QED BY <1>0, <2>1, <2>2, SavedType, SavedMessageType DEF Rows, TypeOK
<1>2. CASE RestReplies(r)
  <2>1. PICK stage \in Stages :
          SaveAll(Learnt(Counted([view[r] EXCEPT !.session.stage = stage]), AskOf[r]))
    BY <1>2 DEF RestReplies
  <2>2. Learnt(Counted([view[r] EXCEPT !.session.stage = stage]), AskOf[r]) \in State
    BY <1>0, CopyWithStage, CopyCounted, CopyLearnt
  <2>3. SaveMessage(r, "salesagent") /\ CloseTurn(r)
    BY <1>2 DEF RestReplies, Ended
  <2> QED BY <2>1, <2>2, <2>3, SavedAllType, SavedMessageType, ClosedTurnType DEF Rows
<1>3. CASE RestHandsOver(r)
  <2>1. PICK s \in {view[r], Counted(view[r])} : SaveAll(HandedOver(s))
    BY <1>3 DEF RestHandsOver
  <2>2. HandedOver(s) \in State
    BY <1>0, CopyCounted, CopyHandedOver
  <2>3. CloseTurn(r) /\ UNCHANGED <<messages, stored>>
    BY <1>3 DEF RestHandsOver, Ended
  <2> QED BY <2>1, <2>2, <2>3, SavedAllType, ClosedTurnType DEF Rows, TypeOK, Heard
<1>4. CASE RestIsSilent(r)
  <2>1. SaveAll(Counted(view[r])) /\ CloseTurn(r) /\ UNCHANGED <<messages, stored>>
    BY <1>4 DEF RestIsSilent, Ended
  <2> QED BY <1>0, <2>1, CopyCounted, SavedAllType, ClosedTurnType DEF Rows, TypeOK, Heard
<1>5. CASE RestInterrupted(r)
  BY <1>5, ClosedTurnType DEF RestInterrupted, Ended, Rows, TypeOK, Heard
<1>6. CASE RestBreaks(r)
  BY <1>6 DEF RestBreaks, Rows, TypeOK, Heard
<1> QED BY <1>1, <1>2, <1>3, <1>4, <1>5, <1>6

LEMMA StreamRows ==
  ASSUME TypeOK, Heard, NEW r \in Streams,
         \/ CustomerMessage(r) \/ BeginStream(r) \/ StreamNode(r) \/ StreamReplies(r)
         \/ StreamEnds(r) \/ StreamFails(r) \/ StreamInterrupted(r) \/ StreamCancelled(r)
  PROVE  Rows'
<1> r \in Requests
  BY DEF Requests
<1>0. view[r] \in State /\ AskOf[r] \in Said
  BY EverybodySays DEF TypeOK
<1>1. CASE CustomerMessage(r)
  <2>1. Aligned(Loaded) \in State
    BY CopyLoaded, CopyAligned
  <2>2. SaveSession(Aligned(Loaded)) /\ SaveMessage(AskOf[r], "customer")
        /\ UNCHANGED <<profile, memory, turn>>
    BY <1>1 DEF CustomerMessage
  <2> QED BY <1>0, <2>1, <2>2, SavedType, SavedMessageType DEF Rows, TypeOK
<1>2. CASE BeginStream(r)
  BY <1>2 DEF BeginStream, Rows, TypeOK, Heard
<1>3. CASE StreamNode(r)
  <2>1. PICK s \in {[view[r] EXCEPT !.session.stage = stage] : stage \in Stages}
                     \cup {HandedOver(view[r])} : SaveSession(s)
    BY <1>3 DEF StreamNode
  <2>2. s \in State
    BY <1>0, CopyWithStage, CopyHandedOver
  <2>3. UNCHANGED <<profile, memory, messages, stored, turn>>
    BY <1>3 DEF StreamNode
  <2> QED BY <2>1, <2>2, <2>3, SavedType DEF Rows, TypeOK, Heard
<1>4. CASE StreamReplies(r)
  <2>1. SaveMessage(r, "salesagent") /\ UNCHANGED <<session, profile, memory, turn>>
    BY <1>4 DEF StreamReplies
  <2> QED BY <2>1, SavedMessageType DEF Rows, TypeOK
<1>5. CASE StreamEnds(r)
  <2>1. SaveAll(Counted(view[r])) /\ CloseTurn(r) /\ UNCHANGED <<messages, stored>>
    BY <1>5 DEF StreamEnds, Ended
  <2> QED BY <1>0, <2>1, CopyCounted, SavedAllType, ClosedTurnType DEF Rows, TypeOK, Heard
<1>6. CASE StreamFails(r)
  <2>1. SaveAll(HandedOver(view[r])) /\ CloseTurn(r) /\ UNCHANGED <<messages, stored>>
    BY <1>6 DEF StreamFails, Ended
  <2> QED BY <1>0, <2>1, CopyHandedOver, SavedAllType, ClosedTurnType DEF Rows, TypeOK, Heard
<1>7. CASE StreamInterrupted(r)
  BY <1>7 DEF StreamInterrupted, StreamStops, Rows, TypeOK, Heard
<1>8. CASE StreamCancelled(r)
  BY <1>8, ClosedTurnType DEF StreamCancelled, StreamStops, Rows, TypeOK, Heard
<1> QED BY <1>1, <1>2, <1>3, <1>4, <1>5, <1>6, <1>7, <1>8

LEMMA OtherRows ==
  ASSUME TypeOK, Heard,
         \/ \E r \in Streams : BeginUpdate(r) \/ EndUpdate(r)
         \/ TakeOver \/ BeginRelease \/ EndRelease \/ Reset
  PROVE  Rows'
<1>1. CASE \E r \in Streams : BeginUpdate(r)
  BY <1>1 DEF BeginUpdate, Rows, TypeOK, Heard
<1>2. CASE \E r \in Streams : EndUpdate(r)
  <2> PICK r \in Streams : EndUpdate(r)
    BY <1>2
  <2>1. Learnt(updateView[r], AskOf[r]) \in State
    BY CopyLearnt, EverybodySays DEF TypeOK, Requests
  <2>2. /\ \/ /\ SaveProfile(Learnt(updateView[r], AskOf[r]))
              /\ SaveMemory(Learnt(updateView[r], AskOf[r]))
           \/ UNCHANGED <<profile, memory>>
        /\ UNCHANGED <<session, messages, stored, turn>>
    BY DEF EndUpdate
  <2>3. profile' \in [Customers -> SUBSET Said] /\ memory' \subseteq Said
    BY <2>1, <2>2, SavedType DEF TypeOK
  <2> QED BY <2>2, <2>3 DEF Rows, TypeOK, Heard
<1>3. CASE TakeOver
  <2>1. HandedOver(Loaded) \in State
    BY CopyLoaded, CopyHandedOver
  <2> QED BY <1>3, <2>1, SavedType DEF TakeOver, Rows, TypeOK, Heard
<1>4. CASE BeginRelease
  <2>1. session' \in Session
    <3>1. [session EXCEPT !.transfer_flag = FALSE] \in Session
      BY Zenon DEF TypeOK, Session
    <3> QED BY <1>4, <3>1 DEF BeginRelease, TypeOK
  <2>2. UNCHANGED <<profile, memory, messages, stored, turn>>
    BY <1>4 DEF BeginRelease
  <2> QED BY <2>1, <2>2 DEF Rows, TypeOK, Heard
<1>5. CASE EndRelease
  <2>1. PICK heard \in {{}, release.heard} :
          SaveAll([release.copy EXCEPT !.session.transfer_flag = FALSE,
                                       !.profile = @ \cup heard])
    BY <1>5 DEF EndRelease
  <2>2. release.copy \in State /\ heard \in SUBSET Said
    BY DEF TypeOK
  <2>3. [release.copy EXCEPT !.session.transfer_flag = FALSE, !.profile = @ \cup heard] \in State
    BY <2>2, CopyReleased
  <2>4. UNCHANGED <<messages, stored, turn>>
    BY <1>5 DEF EndRelease
  <2> QED BY <2>1, <2>3, <2>4, SavedAllType DEF Rows, TypeOK, Heard
<1>6. CASE Reset
  <2> DEFINE fresh == [session |-> [customer |-> epoch + 1, stage |-> DefaultStage,
                                    talked |-> FALSE, transfer_flag |-> FALSE],
                       profile |-> {}, memory |-> {}]
  <2>1. fresh \in State
    <3>1. epoch + 1 \in Customers
      BY <1>6, LimitsAssumption DEF Reset, TypeOK, Customers
    <3>2. fresh.session \in Session
      BY <3>1 DEF Session
    <3> QED BY <3>2 DEF State
  <2>2. /\ SaveSession(Aligned(fresh)) /\ SaveProfile(fresh) /\ SaveMemory(fresh)
        /\ messages' = <<>> /\ turn' = [r \in Requests |-> "none"] /\ stored' = stored
    BY <1>6 DEF Reset, Cleared
  <2>3. Aligned(fresh) \in State
    BY <2>1, CopyAligned
  <2> HIDE DEF fresh
  <2> QED BY <2>1, <2>2, <2>3, SavedType DEF Rows, TypeOK, Heard
<1> QED BY <1>1, <1>2, <1>3, <1>4, <1>5, <1>6

LEMMA RowsStep == TypeOK /\ Heard /\ [Next]_vars => Rows'
<1> SUFFICES ASSUME TypeOK, Heard, [Next]_vars PROVE Rows'
  OBVIOUS
<1>1. CASE \E h \in Humans : HumanMessage(h)
  BY <1>1, PersistRows, EverybodySays DEF HumanMessage
<1>2. CASE \E b \in Broadcasts : ScheduledMessage(b)
  BY <1>2, PersistRows, EverybodySays DEF ScheduledMessage
<1>3. CASE UNCHANGED vars
  BY <1>3 DEF vars, Rows, TypeOK, Heard
<1> QED BY <1>1, <1>2, <1>3, RestRows, StreamRows, OtherRows DEF Next

\* The requests and the copies under way.
Calls ==
  /\ request \in [Requests -> {"none", "queued", "left", "running", "replied", "done"}]
  /\ view \in [Requests -> State]
  /\ update \in [Streams -> {"none", "queued", "agent", "done"}]
  /\ updateView \in [Streams -> State]
  /\ cancelled \subseteq Streams
  /\ release \in [waits : BOOLEAN, copy : State, heard : SUBSET Said]

LEMMA CallsNow == TypeOK => Calls
BY DEF TypeOK, Calls

LEMMA OverType ==
  ASSUME TypeOK, NEW r \in Requests, Over(r)
  PROVE  /\ request' \in [Requests -> {"none", "queued", "left", "running", "replied", "done"}]
         /\ view' \in [Requests -> State]
BY NoCopyIsCopy DEF Over, TypeOK

LEMMA RestCalls ==
  ASSUME TypeOK, NEW r \in Rest,
         \/ BeginRest(r) \/ RestReplies(r) \/ RestHandsOver(r) \/ RestIsSilent(r)
         \/ RestInterrupted(r) \/ RestBreaks(r)
  PROVE  Calls'
<1> r \in Requests
  BY DEF Requests
<1>1. UNCHANGED <<update, updateView, cancelled, release>>
  BY DEF BeginRest, RestReplies, RestHandsOver, RestIsSilent, RestInterrupted, RestBreaks,
         RestStep
<1>2. CASE BeginRest(r)
  <2>1. Aligned(Loaded) \in State
    BY CopyLoaded, CopyAligned
  <2> QED BY <1>1, <1>2, <2>1 DEF BeginRest, Calls, TypeOK
<1>3. CASE Over(r)
  BY <1>1, <1>3, OverType DEF Calls, TypeOK
<1> QED BY <1>2, <1>3 DEF RestReplies, RestHandsOver, RestIsSilent, RestInterrupted,
        RestBreaks, Ended

LEMMA StreamCalls ==
  ASSUME TypeOK, NEW r \in Streams,
         \/ CustomerMessage(r) \/ BeginStream(r) \/ StreamNode(r) \/ StreamReplies(r)
         \/ StreamEnds(r) \/ StreamFails(r) \/ StreamInterrupted(r) \/ StreamCancelled(r)
  PROVE  Calls'
<1> r \in Requests
  BY DEF Requests
<1>1. UNCHANGED <<updateView, release>>
  BY DEF CustomerMessage, BeginStream, StreamNode, StreamReplies, StreamEnds, StreamFails,
         StreamInterrupted, StreamCancelled, StreamStep, StreamStops
<1>2. update' \in [Streams -> {"none", "queued", "agent", "done"}]
  BY DEF CustomerMessage, BeginStream, StreamNode, StreamReplies, StreamEnds, StreamFails,
         StreamInterrupted, StreamCancelled, ScheduleUpdate, TypeOK
<1>3. cancelled' \subseteq Streams
  BY DEF CustomerMessage, BeginStream, StreamNode, StreamReplies, StreamEnds, StreamFails,
         StreamInterrupted, StreamCancelled, StreamStep, StreamStops, TypeOK
<1>4. /\ request' \in [Requests -> {"none", "queued", "left", "running", "replied", "done"}]
      /\ view' \in [Requests -> State]
  <2>1. CASE CustomerMessage(r) \/ StreamReplies(r)
    BY <2>1 DEF CustomerMessage, StreamReplies, TypeOK
  <2>2. CASE BeginStream(r)
    <3>1. Aligned(Loaded) \in State
      BY CopyLoaded, CopyAligned
    <3> QED BY <2>2, <3>1 DEF BeginStream, TypeOK
  <2>3. CASE StreamNode(r)
    <3>1. PICK s \in {[view[r] EXCEPT !.session.stage = stage] : stage \in Stages}
                       \cup {HandedOver(view[r])} : view' = [view EXCEPT ![r] = s]
      BY <2>3 DEF StreamNode
    <3>2. view[r] \in State
      BY DEF TypeOK
    <3>3. s \in State
      BY <3>2, CopyWithStage, CopyHandedOver
    <3> QED BY <2>3, <3>1, <3>3 DEF StreamNode, TypeOK
  <2>4. CASE Over(r)
    BY <2>4, OverType
  <2> QED BY <2>1, <2>2, <2>3, <2>4 DEF StreamEnds, StreamFails, StreamInterrupted,
          StreamCancelled, StreamStops, Ended
<1> QED BY <1>1, <1>2, <1>3, <1>4 DEF Calls, TypeOK

LEMMA OtherCalls ==
  ASSUME TypeOK, Heard,
         \/ \E r \in Streams : BeginUpdate(r) \/ EndUpdate(r)
         \/ TakeOver \/ BeginRelease \/ EndRelease \/ Reset
  PROVE  Calls'
<1>1. CASE \E r \in Streams : BeginUpdate(r)
  <2> PICK r \in Streams : BeginUpdate(r)
    BY <1>1
  <2> QED BY CopyLoaded DEF BeginUpdate, Calls, TypeOK
<1>2. CASE \E r \in Streams : EndUpdate(r)
  <2> PICK r \in Streams : EndUpdate(r)
    BY <1>2
  <2>1. updateView' = [updateView EXCEPT ![r] = NoCopy] /\ update' = [update EXCEPT ![r] = "done"]
        /\ UNCHANGED <<request, view, cancelled, release>>
    BY DEF EndUpdate
  <2> QED BY <2>1, NoCopyIsCopy DEF Calls, TypeOK
<1>3. CASE TakeOver
  BY <1>3 DEF TakeOver, Calls, TypeOK
<1>4. CASE BeginRelease
  <2>1. [waits |-> TRUE, copy |-> Loaded, heard |-> Context]
          \in [waits : BOOLEAN, copy : State, heard : SUBSET Said]
    BY CopyLoaded, ContextType
  <2>2. release' \in [waits : BOOLEAN, copy : State, heard : SUBSET Said]
    BY <1>4, <2>1 DEF BeginRelease, TypeOK
  <2> QED BY <1>4, <2>2 DEF BeginRelease, Calls, TypeOK
<1>5. CASE EndRelease
  BY <1>5, IdleType DEF EndRelease, Calls, TypeOK
<1>6. CASE Reset
  BY <1>6 DEF Reset, Calls, TypeOK
<1> QED BY <1>1, <1>2, <1>3, <1>4, <1>5, <1>6

LEMMA CallsStep == TypeOK /\ Heard /\ [Next]_vars => Calls'
<1> SUFFICES ASSUME TypeOK, Heard, [Next]_vars PROVE Calls'
  OBVIOUS
<1>1. CASE (\E h \in Humans : HumanMessage(h)) \/ \E b \in Broadcasts : ScheduledMessage(b)
  BY <1>1 DEF HumanMessage, ScheduledMessage, Persist, Calls, TypeOK
<1>2. CASE UNCHANGED vars
  BY <1>2 DEF vars, Calls, TypeOK
<1> QED BY <1>1, <1>2, RestCalls, StreamCalls, OtherCalls DEF Next

\* The clocks of the properties, and the take-overs.
LEMMA GhostsStep ==
  ASSUME TypeOK, [Next]_vars
  PROVE  /\ before' \in Nat /\ epoch' \in Customers /\ quiet' \in BOOLEAN
         /\ takeovers' \in 0 .. MaxTakeOvers
<1>1. CASE Reset
  <2>1. before' = stored /\ takeovers' = takeovers /\ quiet' = Quiet
        /\ epoch' = epoch + 1 /\ epoch < MaxResets
    BY <1>1 DEF Reset
  <2>2. Quiet \in BOOLEAN
    BY DEF Quiet
  <2>3. epoch + 1 \in Customers
    BY <2>1, LimitsAssumption DEF Customers, TypeOK
  <2> QED BY <2>1, <2>2, <2>3 DEF TypeOK
<1>2. CASE TakeOver
  <2>1. takeovers' \in 0 .. MaxTakeOvers
    BY <1>2, LimitsAssumption DEF TakeOver, TypeOK
  <2> QED BY <1>2, <2>1 DEF TakeOver, TypeOK, ghosts
<1>3. CASE UNCHANGED <<ghosts, takeovers>>
  BY <1>3 DEF TypeOK, ghosts
<1>4. CASE \E r \in Rest : BeginRest(r) \/ RestReplies(r) \/ RestHandsOver(r)
                         \/ RestIsSilent(r) \/ RestInterrupted(r) \/ RestBreaks(r)
  <2>1. UNCHANGED <<ghosts, takeovers>>
    BY <1>4 DEF BeginRest, RestReplies, RestHandsOver, RestIsSilent, RestInterrupted,
                RestBreaks, RestStep
  <2> QED BY <1>3, <2>1
<1>5. CASE \E r \in Streams : CustomerMessage(r) \/ BeginStream(r) \/ StreamNode(r)
                            \/ StreamReplies(r) \/ StreamEnds(r) \/ StreamFails(r)
                            \/ StreamInterrupted(r) \/ StreamCancelled(r)
                            \/ BeginUpdate(r) \/ EndUpdate(r)
  <2>1. UNCHANGED <<ghosts, takeovers>>
    BY <1>5 DEF CustomerMessage, BeginStream, StreamNode, StreamReplies, StreamEnds,
                StreamFails, StreamInterrupted, StreamCancelled, StreamStep, StreamStops,
                BeginUpdate, EndUpdate
  <2> QED BY <1>3, <2>1
<1>6. CASE \/ \E h \in Humans : HumanMessage(h)
           \/ \E b \in Broadcasts : ScheduledMessage(b)
           \/ BeginRelease \/ EndRelease \/ UNCHANGED vars
  <2>1. UNCHANGED <<ghosts, takeovers>>
    BY <1>6 DEF HumanMessage, ScheduledMessage, Persist, BeginRelease, EndRelease, vars, ghosts
  <2> QED BY <1>3, <2>1
<1> QED BY <1>1, <1>2, <1>4, <1>5, <1>6 DEF Next

LEMMA TypeStep == TypeOK /\ Heard /\ [Next]_vars => (TypeOK /\ Heard)'
BY RowsStep, CallsStep, GhostsStep DEF TypeOK, Rows, Calls

LEMMA TypesHold == Spec => [](TypeOK /\ Heard)
BY InitType, TypeStep, PTL DEF Spec

\* Every row, copy and call of a session keeps its type.
THEOREM TypeCorrect == Spec => []TypeOK
BY TypesHold, PTL

-----------------------------------------------------------------------------
(* The human who has the session.                                          *)

\* A step that stores a session without a human while there is one is a
\* release or a reset.
THEOREM OnlyReleasesTakeBack == Spec => HumanKeepsSession
<1>1. TypeOK /\ [Next]_vars =>
        [session.transfer_flag /\ ~session'.transfer_flag
           => BeginRelease \/ EndRelease \/ Reset]_vars
  <2> SUFFICES ASSUME TypeOK, Next, session.transfer_flag,
                      ~(BeginRelease \/ EndRelease \/ Reset)
               PROVE  session'.transfer_flag
    BY DEF vars
  <2>1. ASSUME NEW s \in State
        PROVE  /\ HandedOver(s).session.transfer_flag
               /\ Counted(s).session.transfer_flag = s.session.transfer_flag
               /\ \A id : WithLine(s, id).session.transfer_flag = s.session.transfer_flag
               /\ \A stage : [s EXCEPT !.session.stage = stage].session.transfer_flag
                              = s.session.transfer_flag
    BY Zenon DEF HandedOver, Counted, WithLine, State, Session
  <2>2. /\ Aligned(Loaded) \in State
        /\ Aligned(Loaded).session.transfer_flag = session.transfer_flag
    <3>1. Loaded \in State /\ Loaded.session = session
      BY CopyLoaded DEF Loaded
    <3> QED BY <2>1, <3>1, CopyAligned DEF Aligned
  <2>3. CASE \E id, sender : Persist(id, sender)
    <3>1. PICK id, sender : Persist(id, sender)
      BY <2>3
    <3>2. session' = (IF IsStored(id) THEN Aligned(Loaded)
                      ELSE WithLine(Aligned(Loaded), id)).session
      BY <3>1 DEF Persist, SaveSession
    <3> QED BY <2>1, <2>2, <3>2
  <2>4. CASE \E r \in Rest : BeginRest(r) \/ RestReplies(r) \/ RestHandsOver(r)
                           \/ RestIsSilent(r) \/ RestInterrupted(r) \/ RestBreaks(r)
    <3> PICK r \in Rest : BeginRest(r) \/ RestReplies(r) \/ RestHandsOver(r)
                          \/ RestIsSilent(r) \/ RestInterrupted(r) \/ RestBreaks(r)
      BY <2>4
    <3>1. view[r] \in State /\ Counted(view[r]) \in State
      BY CopyCounted DEF TypeOK, Requests
    <3>2. ~RestReplies(r) /\ ~RestIsSilent(r)
      BY DEF RestReplies, RestIsSilent, TakenOver
    <3>3. CASE BeginRest(r)
      BY <2>2, <3>3 DEF BeginRest, SaveSession
    <3>4. CASE RestHandsOver(r)
      BY <2>1, <3>1, <3>4 DEF RestHandsOver, SaveAll, SaveSession
    <3>5. CASE RestInterrupted(r) \/ RestBreaks(r)
      BY <3>5 DEF RestInterrupted, RestBreaks
    <3> QED BY <3>2, <3>3, <3>4, <3>5
  <2>5. CASE \E r \in Streams : CustomerMessage(r) \/ BeginStream(r) \/ StreamNode(r)
                              \/ StreamReplies(r) \/ StreamEnds(r) \/ StreamFails(r)
                              \/ StreamInterrupted(r) \/ StreamCancelled(r)
                              \/ BeginUpdate(r) \/ EndUpdate(r)
    <3> PICK r \in Streams : CustomerMessage(r) \/ BeginStream(r) \/ StreamNode(r)
                             \/ StreamReplies(r) \/ StreamEnds(r) \/ StreamFails(r)
                             \/ StreamInterrupted(r) \/ StreamCancelled(r)
                             \/ BeginUpdate(r) \/ EndUpdate(r)
      BY <2>5
    <3>1. view[r] \in State /\ view[r].session.transfer_flag \in BOOLEAN
      BY DEF TypeOK, Requests, State, Session
    <3>2. CASE CustomerMessage(r)
      BY <2>2, <3>2 DEF CustomerMessage, SaveSession
    <3>3. CASE StreamNode(r)
      <4>1. view[r].session.transfer_flag
        BY <3>3 DEF StreamNode, TakenOver
      <4>2. PICK s \in {[view[r] EXCEPT !.session.stage = stage] : stage \in Stages}
                         \cup {HandedOver(view[r])} : SaveSession(s)
        BY <3>3 DEF StreamNode
      <4>3. \A stage : [view[r] EXCEPT !.session.stage = stage].session.transfer_flag = TRUE
        BY <2>1, <3>1, <4>1
      <4>4. s.session.transfer_flag
        BY <2>1, <3>1, <4>2, <4>3
      <4> QED BY <4>2, <4>4 DEF SaveSession
    <3>4. CASE StreamEnds(r)
      <4>1. view[r].session.transfer_flag
        BY <3>4 DEF StreamEnds, TakenOver
      <4> QED BY <2>1, <3>1, <3>4, <4>1 DEF StreamEnds, SaveAll, SaveSession
    <3>5. CASE StreamFails(r)
      BY <2>1, <3>1, <3>5 DEF StreamFails, SaveAll, SaveSession
    <3>6. CASE \/ BeginStream(r) \/ StreamReplies(r) \/ StreamInterrupted(r)
               \/ StreamCancelled(r) \/ BeginUpdate(r) \/ EndUpdate(r)
      BY <3>6 DEF BeginStream, StreamReplies, StreamInterrupted, StreamCancelled, StreamStops,
                  BeginUpdate, EndUpdate
    <3> QED BY <3>2, <3>3, <3>4, <3>5, <3>6
  <2>6. CASE TakeOver
    BY <2>1, <2>6, CopyLoaded DEF TakeOver, SaveSession
  <2> QED BY <2>3, <2>4, <2>5, <2>6 DEF Next, HumanMessage, ScheduledMessage
<1> QED BY <1>1, TypesHold, PTL DEF Spec, HumanKeepsSession

-----------------------------------------------------------------------------
(* Messages.                                                               *)

\* What the session has messages of.
Ids == {messages[i].id : i \in DOMAIN messages}

LEMMA SavedIds ==
  ASSUME TypeOK, OneCopy, NEW id, NEW sender, SaveMessage(id, sender)
  PROVE  /\ Ids' = Ids \cup {id} /\ OneCopy' /\ stored <= stored'
         /\ \A n \in Nat : n <= stored /\ (\A i \in DOMAIN messages : messages[i].at > n)
                         => \A i \in DOMAIN messages' : messages'[i].at > n
<1>1. CASE IsStored(id)
  BY <1>1 DEF SaveMessage, IsStored, Ids, OneCopy, TypeOK
<1>2. CASE ~IsStored(id)
  <2> DEFINE m == [id |-> id, sender |-> sender, at |-> stored + 1]
             last == Len(messages) + 1
  <2>1. messages' = Append(messages, m) /\ stored' = stored + 1
    BY <1>2 DEF SaveMessage
  <2>2. messages \in Seq(Message) /\ stored \in Nat
    BY DEF TypeOK
  <2>3. m.id = id /\ m.at = stored + 1
    OBVIOUS
  <2> HIDE DEF m
  <2>4. /\ DOMAIN messages' = DOMAIN messages \cup {last} /\ last \notin DOMAIN messages
        /\ \A i \in DOMAIN messages : messages'[i] = messages[i]
        /\ messages'[last] = m
    <3>1. Len(messages) \in Nat /\ DOMAIN messages = 1 .. Len(messages)
      BY <2>2
    <3>2. DOMAIN messages' = 1 .. last
      BY <2>1, <2>2
    <3>3. \A i \in 1 .. last : messages'[i] = IF i = last THEN m ELSE messages[i]
      BY <2>1, <2>2
    <3> HIDE DEF last
    <3>4. last = Len(messages) + 1
      BY DEF last
    <3> QED BY <3>1, <3>2, <3>3, <3>4
  <2>5. Ids' = Ids \cup {id}
    BY <2>3, <2>4 DEF Ids
  <2>6. OneCopy'
    BY <1>2, <2>3, <2>4 DEF OneCopy, IsStored
  <2>7. stored <= stored'
    BY <2>1, <2>2
  <2>8. ASSUME NEW n \in Nat, n <= stored, \A i \in DOMAIN messages : messages[i].at > n,
               NEW i \in DOMAIN messages'
        PROVE  messages'[i].at > n
    <3>1. stored + 1 > n
      BY <2>2, <2>8
    <3> QED BY <2>3, <2>4, <2>8, <3>1
  <2> QED BY <2>5, <2>6, <2>7, <2>8
<1> QED BY <1>1, <1>2

\* Who stores a message: a step stores one, none, or is a reset.
LEMMA MessageSteps ==
  ASSUME [Next]_vars
  PROVE  \/ UNCHANGED <<messages, stored>>
         \/ \E id \in Humans \cup Broadcasts, sender \in {"salesagent", "human"} :
              SaveMessage(id, sender)
         \/ \E r \in Requests : SaveMessage(AskOf[r], "customer")
         \/ \E r \in Rest : RestReplies(r) /\ SaveMessage(r, "salesagent")
         \/ \E r \in Streams : SaveMessage(r, "salesagent")
         \/ Reset
<1>1. CASE \/ \E h \in Humans : HumanMessage(h)
           \/ \E b \in Broadcasts : ScheduledMessage(b)
  <2>1. \E id \in Humans \cup Broadcasts, sender \in {"salesagent", "human"} :
          SaveMessage(id, sender)
    BY <1>1 DEF HumanMessage, ScheduledMessage, Persist
  <2> QED BY <2>1
<1>2. CASE \E r \in Rest : BeginRest(r)
  <2>1. \E r \in Requests : SaveMessage(AskOf[r], "customer")
    BY <1>2 DEF BeginRest, Requests
  <2> QED BY <2>1
<1>3. CASE \E r \in Rest : RestReplies(r)
  <2>1. \E r \in Rest : RestReplies(r) /\ SaveMessage(r, "salesagent")
    BY <1>3 DEF RestReplies
  <2> QED BY <2>1
<1>4. CASE \E r \in Rest : \/ RestHandsOver(r) \/ RestIsSilent(r) \/ RestInterrupted(r)
                          \/ RestBreaks(r)
  <2>1. UNCHANGED <<messages, stored>>
    BY <1>4 DEF RestHandsOver, RestIsSilent, RestInterrupted, RestBreaks
  <2> QED BY <2>1
<1>5. CASE \E r \in Streams : CustomerMessage(r)
  <2>1. \E r \in Requests : SaveMessage(AskOf[r], "customer")
    BY <1>5 DEF CustomerMessage, Requests
  <2> QED BY <2>1
<1>6. CASE \E r \in Streams : StreamReplies(r)
  <2>1. \E r \in Streams : SaveMessage(r, "salesagent")
    BY <1>6 DEF StreamReplies
  <2> QED BY <2>1
<1>7. CASE \E r \in Streams : \/ BeginStream(r) \/ StreamNode(r) \/ StreamEnds(r)
                             \/ StreamFails(r) \/ StreamInterrupted(r) \/ StreamCancelled(r)
                             \/ BeginUpdate(r) \/ EndUpdate(r)
  <2>1. UNCHANGED <<messages, stored>>
    BY <1>7 DEF BeginStream, StreamNode, StreamEnds, StreamFails, StreamInterrupted,
                StreamCancelled, StreamStops, BeginUpdate, EndUpdate
  <2> QED BY <2>1
<1>8. CASE TakeOver \/ BeginRelease \/ EndRelease \/ UNCHANGED vars
  <2>1. UNCHANGED <<messages, stored>>
    BY <1>8 DEF TakeOver, BeginRelease, EndRelease, vars
  <2> QED BY <2>1
<1> QED BY <1>1, <1>2, <1>3, <1>4, <1>5, <1>6, <1>7, <1>8 DEF Next

LEMMA OneCopyStep == TypeOK /\ OneCopy /\ [Next]_vars => OneCopy'
<1> SUFFICES ASSUME TypeOK, OneCopy, [Next]_vars PROVE OneCopy'
  OBVIOUS
<1>1. CASE UNCHANGED <<messages, stored>>
  BY <1>1 DEF OneCopy
<1>2. CASE \E id, sender : SaveMessage(id, sender)
  BY <1>2, SavedIds
<1>3. CASE Reset
  BY <1>3 DEF Reset, Cleared, OneCopy
<1> QED BY <1>1, <1>2, <1>3, MessageSteps

\* However often a message is sent, the session has it once.
THEOREM MessagesAreStoredOnce == Spec => []OneCopy
<1>1. Init => OneCopy
  BY DEF Init, OneCopy
<1>2. TypeOK /\ OneCopy /\ [Next]_vars => OneCopy'
  BY OneCopyStep
<1> QED BY <1>1, <1>2, TypesHold, PTL DEF Spec

\* POST /chat stores no reply while a human has the session.
THEOREM RepliesLeaveHumansAlone == Spec => RestRespectsHuman
<1>1. TypeOK /\ OneCopy /\ [Next]_vars =>
        [\A r \in Rest : ~IsStored(r) /\ IsStored(r)' => ~session.transfer_flag]_vars
  <2> SUFFICES ASSUME TypeOK, OneCopy, [Next]_vars, NEW r \in Rest,
                      ~IsStored(r), IsStored(r)'
               PROVE  ~session.transfer_flag
    OBVIOUS
  <2>1. r \notin Ids /\ r \in Ids'
    BY DEF IsStored, Ids
  <2>2. r \notin Said /\ r \notin Streams
    BY IdsAssumption, RequestsAssumption DEF Requests
  <2>3. CASE UNCHANGED <<messages, stored>>
    BY <2>1, <2>3 DEF Ids
  <2>4. CASE \E id \in Said, sender \in {"customer", "salesagent", "human"} :
               SaveMessage(id, sender)
    BY <2>1, <2>2, <2>4, SavedIds
  <2>5. CASE \E q \in Streams : SaveMessage(q, "salesagent")
    BY <2>1, <2>2, <2>5, SavedIds
  <2>6. CASE \E q \in Rest : RestReplies(q) /\ SaveMessage(q, "salesagent")
    BY <2>6 DEF RestReplies, TakenOver
  <2>7. CASE Reset
    BY <2>1, <2>7 DEF Reset, Cleared, Ids
  <2> QED BY <2>3, <2>4, <2>5, <2>6, <2>7, MessageSteps, EverybodySays
<1>2. Spec => []OneCopy
  BY MessagesAreStoredOnce
<1> QED BY <1>1, <1>2, TypesHold, PTL DEF Spec, RestRespectsHuman

-----------------------------------------------------------------------------
(* The reset.                                                              *)

\* A copy that tells of nothing but what is in the messages ids names, and
\* that belongs to customer c.
Own(s, c, ids) == s.session.customer = c /\ s.profile \cup s.memory \subseteq ids

LEMMA OwnCopies ==
  ASSUME NEW s \in State, NEW c, NEW ids, Own(s, c, ids)
  PROVE  /\ \A stage \in Stages : Own([s EXCEPT !.session.stage = stage], c, ids)
         /\ Own(HandedOver(s), c, ids) /\ Own(Counted(s), c, ids) /\ Own(Aligned(s), c, ids)
         /\ \A heard \in SUBSET ids :
              Own([s EXCEPT !.session.transfer_flag = FALSE, !.profile = @ \cup heard], c, ids)
         /\ \A id \in ids : Own(Learnt(s, id), c, ids) /\ Own(WithLine(s, id), c, ids)
<1>1. \A stage : Own([s EXCEPT !.session.stage = stage], c, ids)
  BY DEF Own, State, Session
<1>2. Own(HandedOver(s), c, ids)
  BY DEF Own, HandedOver, State, Session
<1>3. Own(Counted(s), c, ids)
  BY DEF Own, Counted, State, Session
<1>4. Own(Aligned(s), c, ids)
  BY <1>1 DEF Aligned
<1>5. ASSUME NEW heard \in SUBSET ids
      PROVE  Own([s EXCEPT !.session.transfer_flag = FALSE, !.profile = @ \cup heard], c, ids)
  BY DEF Own, State, Session
<1>6. ASSUME NEW id \in ids PROVE Own(Learnt(s, id), c, ids)
  BY DEF Own, Learnt, State, Session
<1>7. ASSUME NEW id \in ids PROVE Own(WithLine(s, id), c, ids)
  <2>1. Counted(s) \in State
    BY CopyCounted
  <2> QED BY <1>3, <2>1 DEF Own, WithLine, State, Session
<1> QED BY <1>1, <1>2, <1>3, <1>4, <1>5, <1>6, <1>7

\* The rows of a session that was quiet when it was reset.
OwnRows ==
  /\ session.customer = epoch
  /\ before <= stored /\ \A i \in DOMAIN messages : messages[i].at > before
  /\ memory \cup profile[epoch] \subseteq Ids

\* What is under way in it.
OwnRequests ==
  \A r \in Requests :
    /\ request[r] \in {"queued", "running", "replied"} => AskOf[r] \in Ids
    /\ request[r] \in {"running", "replied"} => Own(view[r], epoch, Ids)
OwnUpdates ==
  \A r \in Streams :
    /\ update[r] \in {"queued", "agent"} => AskOf[r] \in Ids
    /\ update[r] = "agent" => Own(updateView[r], epoch, Ids)
OwnRelease ==
  release # Idle => Own(release.copy, epoch, Ids) /\ release.heard \subseteq Ids

OwnSession == quiet => OwnRows /\ OwnRequests /\ OwnUpdates /\ OwnRelease

LEMMA OwnLoaded == ASSUME TypeOK, OwnRows PROVE Own(Loaded, epoch, Ids)
BY DEF Own, Loaded, OwnRows

LEMMA OwnInit == Init => OwnSession
<1> SUFFICES ASSUME Init PROVE OwnSession
  OBVIOUS
<1>1. Ids = {"welcome"}
  BY DEF Init, Ids
<1>2. 0 \in Customers
  BY LimitsAssumption DEF Customers
<1>3. OwnRows
  BY <1>1, <1>2 DEF Init, OwnRows
<1> QED BY <1>3 DEF Init, OwnSession, OwnRequests, OwnUpdates, OwnRelease

\* Every way to store a copy, or a part of it, leaves the rows its own.
LEMMA OwnStored ==
  ASSUME TypeOK, NEW s \in State, NEW ids, Own(s, epoch, ids),
         memory \cup profile[epoch] \subseteq ids
  PROVE  /\ SaveSession(s) => session'.customer = epoch
         /\ SaveMemory(s) => memory' \subseteq ids
         /\ SaveProfile(s) => profile'[epoch] \subseteq ids
BY DEF Own, SaveSession, SaveMemory, SaveProfile, TypeOK

\* A step that is no reset keeps the messages there are, and their clock.
LEMMA OwnMessages ==
  ASSUME TypeOK, OneCopy, OwnRows, [Next]_vars, ~Reset
  PROVE  /\ Ids \subseteq Ids' /\ before' = before /\ epoch' = epoch /\ quiet' = quiet
         /\ before' <= stored' /\ \A i \in DOMAIN messages' : messages'[i].at > before'
<1>1. before' = before /\ epoch' = epoch /\ quiet' = quiet
  <2>1. CASE \E r \in Rest : BeginRest(r) \/ RestReplies(r) \/ RestHandsOver(r)
                           \/ RestIsSilent(r) \/ RestInterrupted(r) \/ RestBreaks(r)
    BY <2>1 DEF BeginRest, RestReplies, RestHandsOver, RestIsSilent, RestInterrupted,
                RestBreaks, RestStep, ghosts
  <2>2. CASE \E r \in Streams : CustomerMessage(r) \/ BeginStream(r) \/ StreamNode(r)
                              \/ StreamReplies(r) \/ StreamEnds(r) \/ StreamFails(r)
                              \/ StreamInterrupted(r) \/ StreamCancelled(r)
                              \/ BeginUpdate(r) \/ EndUpdate(r)
    BY <2>2 DEF CustomerMessage, BeginStream, StreamNode, StreamReplies, StreamEnds,
                StreamFails, StreamInterrupted, StreamCancelled, StreamStep, StreamStops,
                BeginUpdate, EndUpdate, ghosts
  <2>3. CASE \/ \E h \in Humans : HumanMessage(h)
             \/ \E b \in Broadcasts : ScheduledMessage(b)
             \/ TakeOver \/ BeginRelease \/ EndRelease \/ UNCHANGED vars
    BY <2>3 DEF HumanMessage, ScheduledMessage, Persist, TakeOver, BeginRelease, EndRelease,
                vars, ghosts
  <2> QED BY <2>1, <2>2, <2>3 DEF Next
<1>2. CASE UNCHANGED <<messages, stored>>
  BY <1>1, <1>2 DEF Ids, OwnRows
<1>3. CASE \E id, sender : SaveMessage(id, sender)
  <2>1. before \in Nat /\ stored \in Nat
    BY DEF TypeOK
  <2>2. /\ Ids \subseteq Ids' /\ stored <= stored'
        /\ \A i \in DOMAIN messages' : messages'[i].at > before
    BY <1>3, <2>1, SavedIds DEF OwnRows
  <2>3. stored' \in Nat
    BY <1>3, <2>1 DEF SaveMessage
  <2>4. before <= stored'
    BY <2>1, <2>2, <2>3 DEF OwnRows
  <2> QED BY <1>1, <2>2, <2>4
<1> QED BY <1>2, <1>3, MessageSteps

\* What was own stays so, as long as the messages stay.
LEMMA OwnGrows ==
  ASSUME NEW ids, NEW more, ids \subseteq more
  PROVE  \A s, c : Own(s, c, ids) => Own(s, c, more)
BY DEF Own

LEMMA OwnRowsStep ==
  ASSUME TypeOK, Heard, OneCopy, OwnRows, OwnRequests, OwnUpdates, OwnRelease, [Next]_vars, ~Reset
  PROVE  OwnRows'
<1>0. /\ Ids \subseteq Ids' /\ before' = before /\ epoch' = epoch
      /\ before' <= stored' /\ \A i \in DOMAIN messages' : messages'[i].at > before'
  BY OwnMessages
<1> DEFINE ids == Ids'
           OwnSaved(s) == s \in State /\ Own(s, epoch, ids)
<1>a. memory \cup profile[epoch] \subseteq ids /\ session.customer = epoch
  BY <1>0 DEF OwnRows
<1>b. SUFFICES session'.customer = epoch /\ memory' \subseteq ids /\ profile'[epoch] \subseteq ids
  BY <1>0 DEF OwnRows
<1>c. \A s, c : Own(s, c, Ids) => Own(s, c, ids)
  BY <1>0, OwnGrows
<1> HIDE DEF ids
<1>d. OwnSaved(Aligned(Loaded))
  BY <1>c, OwnLoaded, CopyLoaded, CopyAligned, OwnCopies
<1>e. ASSUME NEW r \in Requests, request[r] \in {"running", "replied"}
      PROVE  OwnSaved(view[r]) /\ AskOf[r] \in ids /\ AskOf[r] \in Said
  BY <1>0, <1>c, <1>e, EverybodySays DEF OwnRequests, TypeOK, ids
<1>f. ASSUME NEW s, OwnSaved(s), SaveAll(s)
      PROVE  session'.customer = epoch /\ memory' \subseteq ids /\ profile'[epoch] \subseteq ids
  BY <1>a, <1>f, OwnStored DEF SaveAll
<1>g. ASSUME NEW s, OwnSaved(s)
      PROVE  /\ OwnSaved(HandedOver(s)) /\ OwnSaved(Counted(s))
             /\ \A stage \in Stages : OwnSaved([s EXCEPT !.session.stage = stage])
             /\ \A id \in ids \cap Said : OwnSaved(Learnt(s, id)) /\ OwnSaved(WithLine(s, id))
  BY <1>g, OwnCopies, CopyHandedOver, CopyCounted, CopyWithStage, CopyLearnt, CopyWithLine
<1> HIDE DEF OwnSaved
<1>1. CASE UNCHANGED <<session, profile, memory>>
  BY <1>1, <1>a
<1>2. CASE \E id \in Humans \cup Broadcasts, sender \in {"salesagent", "human"} : Persist(id, sender)
  <2>1. PICK id \in Humans \cup Broadcasts, sender \in {"salesagent", "human"} : Persist(id, sender)
    BY <1>2
  <2>2. SaveMessage(id, sender)
    BY <2>1 DEF Persist
  <2>3. id \in ids \cap Said
    BY <2>2, SavedIds, EverybodySays DEF ids
  <2> DEFINE s == IF IsStored(id) THEN Aligned(Loaded) ELSE WithLine(Aligned(Loaded), id)
  <2>4. OwnSaved(s)
    BY <1>d, <1>g, <2>3
  <2>5. SaveAll(s)
    BY <2>1 DEF Persist, SaveAll
  <2> QED BY <1>f, <2>4, <2>5
<1>3. CASE (\E r \in Rest : BeginRest(r)) \/ \E r \in Streams : CustomerMessage(r)
  <2>1. SaveSession(Aligned(Loaded)) /\ UNCHANGED <<profile, memory>>
    BY <1>3 DEF BeginRest, CustomerMessage
  <2> QED BY <1>a, <1>d, <2>1, OwnStored DEF OwnSaved
<1>4. CASE \E r \in Rest : RestReplies(r) \/ RestHandsOver(r) \/ RestIsSilent(r)
  <2> PICK r \in Rest : RestReplies(r) \/ RestHandsOver(r) \/ RestIsSilent(r)
    BY <1>4
  <2>1. r \in Requests /\ request[r] = "running"
    BY DEF RestReplies, RestHandsOver, RestIsSilent, RestStep, Requests
  <2>2. OwnSaved(view[r]) /\ AskOf[r] \in ids \cap Said
    BY <1>e, <2>1
  <2>3. CASE RestReplies(r)
    <3>1. PICK stage \in Stages :
            SaveAll(Learnt(Counted([view[r] EXCEPT !.session.stage = stage]), AskOf[r]))
      BY <2>3 DEF RestReplies
    <3>2. OwnSaved(Learnt(Counted([view[r] EXCEPT !.session.stage = stage]), AskOf[r]))
      <4>1. OwnSaved([view[r] EXCEPT !.session.stage = stage])
        BY <1>g, <2>2
      <4>2. OwnSaved(Counted([view[r] EXCEPT !.session.stage = stage]))
        BY <1>g, <4>1
      <4> QED BY <1>g, <2>2, <4>2
    <3> QED BY <1>f, <3>1, <3>2
  <2>4. CASE RestHandsOver(r)
    <3>1. PICK s \in {view[r], Counted(view[r])} : SaveAll(HandedOver(s))
      BY <2>4 DEF RestHandsOver
    <3>2. OwnSaved(s)
      BY <1>g, <2>2
    <3>3. OwnSaved(HandedOver(s))
      BY <1>g, <3>2
    <3> QED BY <1>f, <3>1, <3>3
  <2>5. CASE RestIsSilent(r)
    <3>1. SaveAll(Counted(view[r])) /\ OwnSaved(Counted(view[r]))
      BY <1>g, <2>2, <2>5 DEF RestIsSilent
    <3> QED BY <1>f, <3>1
  <2> QED BY <2>3, <2>4, <2>5
<1>5. CASE \E r \in Streams : StreamNode(r) \/ StreamEnds(r) \/ StreamFails(r)
  <2> PICK r \in Streams : StreamNode(r) \/ StreamEnds(r) \/ StreamFails(r)
    BY <1>5
  <2>1. r \in Requests /\ request[r] \in {"running", "replied"}
    BY DEF StreamNode, StreamEnds, StreamFails, StreamStep, Streaming, Requests
  <2>2. OwnSaved(view[r])
    BY <1>e, <2>1
  <2>3. CASE StreamNode(r)
    <3>1. PICK s \in {[view[r] EXCEPT !.session.stage = stage] : stage \in Stages}
                       \cup {HandedOver(view[r])} : SaveSession(s)
      BY <2>3 DEF StreamNode
    <3>2. OwnSaved(s)
      BY <1>g, <2>2
    <3>3. UNCHANGED <<profile, memory>>
      BY <2>3 DEF StreamNode
    <3> QED BY <1>a, <3>1, <3>2, <3>3, OwnStored DEF OwnSaved
  <2>4. CASE StreamEnds(r)
    <3>1. SaveAll(Counted(view[r])) /\ OwnSaved(Counted(view[r]))
      BY <1>g, <2>2, <2>4 DEF StreamEnds
    <3> QED BY <1>f, <3>1
  <2>5. CASE StreamFails(r)
    <3>1. SaveAll(HandedOver(view[r])) /\ OwnSaved(HandedOver(view[r]))
      BY <1>g, <2>2, <2>5 DEF StreamFails
    <3> QED BY <1>f, <3>1
  <2> QED BY <2>3, <2>4, <2>5
<1>6. CASE \E r \in Streams : EndUpdate(r)
  <2> PICK r \in Streams : EndUpdate(r)
    BY <1>6
  <2> DEFINE s == Learnt(updateView[r], AskOf[r])
  <2>1. updateView[r] \in State /\ AskOf[r] \in Said
    BY EverybodySays DEF TypeOK, Requests
  <2>2. Own(updateView[r], epoch, Ids) /\ AskOf[r] \in Ids
    BY DEF EndUpdate, OwnUpdates
  <2>3. OwnSaved(updateView[r]) /\ AskOf[r] \in ids \cap Said
    BY <1>0, <1>c, <2>1, <2>2 DEF OwnSaved, ids
  <2>4. OwnSaved(s)
    BY <1>g, <2>3
  <2>5. /\ session' = session
        /\ (SaveProfile(s) /\ SaveMemory(s)) \/ UNCHANGED <<profile, memory>>
    BY DEF EndUpdate
  <2> HIDE DEF s
  <2> QED BY <1>a, <2>4, <2>5, OwnStored DEF OwnSaved
<1>7. CASE TakeOver
  <2>1. SaveSession(HandedOver(Loaded)) /\ UNCHANGED <<profile, memory>>
    BY <1>7 DEF TakeOver
  <2>2. OwnSaved(Loaded)
    BY <1>c, OwnLoaded, CopyLoaded DEF OwnSaved
  <2>3. OwnSaved(HandedOver(Loaded))
    BY <1>g, <2>2
  <2> QED BY <1>a, <2>1, <2>3, OwnStored DEF OwnSaved
<1>8. CASE BeginRelease
  <2>1. session'.customer = session.customer /\ UNCHANGED <<profile, memory>>
    BY <1>8 DEF BeginRelease, TypeOK, Session
  <2> QED BY <1>a, <2>1
<1>9. CASE EndRelease
  <2>1. PICK heard \in {{}, release.heard} :
          SaveAll([release.copy EXCEPT !.session.transfer_flag = FALSE,
                                       !.profile = @ \cup heard])
    BY <1>9 DEF EndRelease
  <2>2. /\ release.copy \in State /\ heard \in SUBSET Said
        /\ Own(release.copy, epoch, ids) /\ heard \in SUBSET ids
    BY <1>0, <1>9, <1>c DEF EndRelease, OwnRelease, TypeOK, ids
  <2>3. OwnSaved([release.copy EXCEPT !.session.transfer_flag = FALSE,
                                      !.profile = @ \cup heard])
    BY <2>2, OwnCopies, CopyReleased DEF OwnSaved
  <2> QED BY <1>f, <2>1, <2>3
<1>10. \/ UNCHANGED <<session, profile, memory>>
       \/ \E id \in Humans \cup Broadcasts, sender \in {"salesagent", "human"} : Persist(id, sender)
       \/ \E r \in Rest : BeginRest(r) \/ RestReplies(r) \/ RestHandsOver(r) \/ RestIsSilent(r)
       \/ \E r \in Streams : \/ CustomerMessage(r) \/ StreamNode(r) \/ StreamEnds(r)
                             \/ StreamFails(r) \/ EndUpdate(r)
       \/ TakeOver \/ BeginRelease \/ EndRelease
  BY DEF Next, HumanMessage, ScheduledMessage, RestInterrupted, RestBreaks, BeginStream,
         StreamReplies, StreamInterrupted, StreamCancelled, StreamStops, BeginUpdate, vars
<1> QED BY <1>1, <1>2, <1>3, <1>4, <1>5, <1>6, <1>7, <1>8, <1>9, <1>10

LEMMA OwnRequestsStep ==
  ASSUME TypeOK, OneCopy, OwnRows, OwnRequests, [Next]_vars, ~Reset
  PROVE  OwnRequests'
<1>0. Ids \subseteq Ids' /\ epoch' = epoch
  BY OwnMessages
<1> DEFINE ids == Ids'
<1>1. SUFFICES ASSUME NEW r \in Requests
               PROVE  /\ request'[r] \in {"queued", "running", "replied"} => AskOf[r] \in ids
                      /\ request'[r] \in {"running", "replied"} => Own(view'[r], epoch, ids)
  BY <1>0 DEF OwnRequests
<1>2. \A s, c : Own(s, c, Ids) => Own(s, c, ids)
  BY <1>0, OwnGrows
<1>3. Ids \subseteq ids
  BY <1>0
<1>4. view[r] \in State
  BY DEF TypeOK
<1> HIDE DEF ids
<1>5. CASE UNCHANGED <<request[r], view[r]>> \/ request'[r] \in {"none", "left", "done"}
  BY <1>2, <1>3, <1>5 DEF OwnRequests
<1>6. CASE r \in Rest /\ BeginRest(r)
  <2>1. AskOf[r] \in ids
    BY <1>6, SavedIds DEF BeginRest, ids
  <2>2. Own(Aligned(Loaded), epoch, ids)
    BY <1>2, OwnLoaded, CopyLoaded, OwnCopies
  <2>3. view'[r] = Aligned(Loaded)
    BY <1>6 DEF BeginRest, TypeOK
  <2> QED BY <2>1, <2>2, <2>3
<1>7. CASE r \in Streams /\ CustomerMessage(r)
  <2>1. AskOf[r] \in ids
    BY <1>7, SavedIds DEF CustomerMessage, ids
  <2>2. request'[r] \in {"left", "queued"}
    BY <1>7 DEF CustomerMessage, TypeOK
  <2> QED BY <2>1, <2>2
<1>8. CASE r \in Streams /\ BeginStream(r)
  <2>1. AskOf[r] \in ids
    BY <1>3, <1>8 DEF BeginStream, OwnRequests
  <2>2. Own(Aligned(Loaded), epoch, ids)
    BY <1>2, OwnLoaded, CopyLoaded, OwnCopies
  <2>3. view'[r] = Aligned(Loaded)
    BY <1>8 DEF BeginStream, TypeOK
  <2> QED BY <2>1, <2>2, <2>3
<1>9. CASE r \in Streams /\ StreamNode(r)
  <2>1. AskOf[r] \in ids /\ Own(view[r], epoch, ids)
    BY <1>2, <1>3, <1>9 DEF StreamNode, StreamStep, Streaming, OwnRequests
  <2>2. PICK s \in {[view[r] EXCEPT !.session.stage = stage] : stage \in Stages}
                     \cup {HandedOver(view[r])} : view' = [view EXCEPT ![r] = s]
    BY <1>9 DEF StreamNode
  <2>3. Own(s, epoch, ids)
    <3>1. /\ \A stage \in Stages : Own([view[r] EXCEPT !.session.stage = stage], epoch, ids)
          /\ Own(HandedOver(view[r]), epoch, ids)
      BY <1>4, <2>1, OwnCopies
    <3> QED BY <2>2, <3>1
  <2>4. view'[r] = s
    BY <2>2 DEF TypeOK
  <2> QED BY <2>1, <2>3, <2>4
<1>10. CASE r \in Streams /\ StreamReplies(r)
  <2>1. AskOf[r] \in ids /\ Own(view[r], epoch, ids) /\ view' = view
    BY <1>2, <1>3, <1>10 DEF StreamReplies, OwnRequests
  <2> QED BY <2>1
<1>11. ASSUME NEW q \in Requests, q # r,
              \/ \E s : view' = [view EXCEPT ![q] = s]
              \/ view' = view,
              \E where : request' = [request EXCEPT ![q] = where]
              \/ request' = request
       PROVE  UNCHANGED <<request[r], view[r]>>
  BY <1>11 DEF TypeOK
<1>12. ASSUME NEW q \in Requests, Over(q)
       PROVE  UNCHANGED <<request[r], view[r]>> \/ request'[r] = "done"
  BY <1>12 DEF Over, TypeOK
<1>13. CASE UNCHANGED <<request, view>>
  BY <1>5, <1>13
<1>14. CASE \E q \in Rest : BeginRest(q) \/ RestReplies(q) \/ RestHandsOver(q)
                          \/ RestIsSilent(q) \/ RestInterrupted(q) \/ RestBreaks(q)
  <2> PICK q \in Rest : BeginRest(q) \/ RestReplies(q) \/ RestHandsOver(q)
                        \/ RestIsSilent(q) \/ RestInterrupted(q) \/ RestBreaks(q)
    BY <1>14
  <2> q \in Requests
    BY DEF Requests
  <2>1. CASE BeginRest(q)
    <3>1. CASE q # r
      BY <1>5, <1>11, <2>1, <3>1 DEF BeginRest
    <3> QED BY <1>6, <2>1, <3>1
  <2>2. CASE Over(q)
    BY <1>5, <1>12, <2>2
  <2> QED BY <2>1, <2>2 DEF RestReplies, RestHandsOver, RestIsSilent, RestInterrupted,
          RestBreaks, Ended
<1>15. CASE \E q \in Streams : CustomerMessage(q) \/ BeginStream(q) \/ StreamNode(q)
                             \/ StreamReplies(q) \/ StreamEnds(q) \/ StreamFails(q)
                             \/ StreamInterrupted(q) \/ StreamCancelled(q)
                             \/ BeginUpdate(q) \/ EndUpdate(q)
  <2> PICK q \in Streams : CustomerMessage(q) \/ BeginStream(q) \/ StreamNode(q)
                           \/ StreamReplies(q) \/ StreamEnds(q) \/ StreamFails(q)
                           \/ StreamInterrupted(q) \/ StreamCancelled(q)
                           \/ BeginUpdate(q) \/ EndUpdate(q)
    BY <1>15
  <2> q \in Requests
    BY DEF Requests
  <2>1. CASE CustomerMessage(q) \/ BeginStream(q) \/ StreamNode(q) \/ StreamReplies(q)
    <3>1. CASE q # r
      <4>1. UNCHANGED <<request[r], view[r]>>
        BY <1>11, <2>1, <3>1 DEF CustomerMessage, BeginStream, StreamNode, StreamReplies
      <4> QED BY <1>5, <4>1
    <3> QED BY <1>7, <1>8, <1>9, <1>10, <2>1, <3>1
  <2>2. CASE Over(q)
    BY <1>5, <1>12, <2>2
  <2>3. CASE BeginUpdate(q) \/ EndUpdate(q)
    BY <1>13, <2>3 DEF BeginUpdate, EndUpdate
  <2> QED BY <2>1, <2>2, <2>3 DEF StreamEnds, StreamFails, StreamInterrupted,
          StreamCancelled, StreamStops, Ended
<1>16. CASE \/ \E h \in Humans : HumanMessage(h)
            \/ \E b \in Broadcasts : ScheduledMessage(b)
            \/ TakeOver \/ BeginRelease \/ EndRelease \/ UNCHANGED vars
  BY <1>13, <1>16 DEF HumanMessage, ScheduledMessage, Persist, TakeOver, BeginRelease,
                      EndRelease, vars
<1> QED BY <1>14, <1>15, <1>16 DEF Next

LEMMA OwnUpdatesStep ==
  ASSUME TypeOK, OneCopy, OwnRows, OwnRequests, OwnUpdates, [Next]_vars, ~Reset
  PROVE  OwnUpdates'
<1>0. Ids \subseteq Ids' /\ epoch' = epoch
  BY OwnMessages
<1> DEFINE ids == Ids'
<1>1. SUFFICES ASSUME NEW r \in Streams
               PROVE  /\ update'[r] \in {"queued", "agent"} => AskOf[r] \in ids
                      /\ update'[r] = "agent" => Own(updateView'[r], epoch, ids)
  BY <1>0 DEF OwnUpdates
<1>2. \A s, c : Own(s, c, Ids) => Own(s, c, ids)
  BY <1>0, OwnGrows
<1>3. Ids \subseteq ids
  BY <1>0
<1> HIDE DEF ids
<1>4. CASE UNCHANGED <<update[r], updateView[r]>>
  BY <1>2, <1>3, <1>4 DEF OwnUpdates
<1>5. CASE update'[r] = "queued" /\ request[r] = "replied"
  <2>1. r \in Requests
    BY DEF Requests
  <2>2. AskOf[r] \in ids
    BY <1>3, <1>5, <2>1 DEF OwnRequests
  <2> QED BY <1>5, <2>2
<1>6. CASE \E q \in Streams : StreamEnds(q) \/ StreamInterrupted(q)
  <2> PICK q \in Streams : ScheduleUpdate(q) /\ updateView' = updateView
    BY <1>6 DEF StreamEnds, StreamInterrupted, StreamStep, StreamStops
  <2> QED BY <1>4, <1>5 DEF ScheduleUpdate, TypeOK
<1>7. CASE \E q \in Streams : BeginUpdate(q)
  <2> PICK q \in Streams : BeginUpdate(q)
    BY <1>7
  <2>1. /\ update[q] = "queued" /\ update' = [update EXCEPT ![q] = "agent"]
        /\ updateView' = [updateView EXCEPT ![q] = Loaded]
    BY DEF BeginUpdate
  <2>2. CASE q = r
    <3>1. AskOf[r] \in ids /\ Own(Loaded, epoch, ids)
      BY <1>2, <1>3, <2>1, <2>2, OwnLoaded DEF OwnUpdates
    <3>2. updateView'[r] = Loaded
      BY <2>1, <2>2 DEF TypeOK
    <3> QED BY <3>1, <3>2
  <2>3. CASE q # r
    BY <1>4, <2>1, <2>3 DEF TypeOK
  <2> QED BY <2>2, <2>3
<1>8. CASE \E q \in Streams : EndUpdate(q)
  <2> PICK q \in Streams : EndUpdate(q)
    BY <1>8
  <2>1. /\ update' = [update EXCEPT ![q] = "done"]
        /\ updateView' = [updateView EXCEPT ![q] = NoCopy]
    BY DEF EndUpdate
  <2>2. CASE q = r
    <3>1. update'[r] = "done"
      BY <2>1, <2>2 DEF TypeOK
    <3> QED BY <3>1
  <2>3. CASE q # r
    BY <1>4, <2>1, <2>3 DEF TypeOK
  <2> QED BY <2>2, <2>3
<1>9. CASE UNCHANGED <<update, updateView>>
  BY <1>4, <1>9
<1>10. CASE \E q \in Rest : BeginRest(q) \/ RestReplies(q) \/ RestHandsOver(q)
                          \/ RestIsSilent(q) \/ RestInterrupted(q) \/ RestBreaks(q)
  BY <1>9, <1>10 DEF BeginRest, RestReplies, RestHandsOver, RestIsSilent, RestInterrupted,
                     RestBreaks, RestStep
<1>11. CASE \E q \in Streams : CustomerMessage(q) \/ BeginStream(q) \/ StreamNode(q)
                             \/ StreamReplies(q) \/ StreamFails(q) \/ StreamCancelled(q)
  BY <1>9, <1>11 DEF CustomerMessage, BeginStream, StreamNode, StreamReplies, StreamFails,
                     StreamCancelled, StreamStep, StreamStops
<1>12. CASE \/ \E h \in Humans : HumanMessage(h)
            \/ \E b \in Broadcasts : ScheduledMessage(b)
            \/ TakeOver \/ BeginRelease \/ EndRelease \/ UNCHANGED vars
  BY <1>9, <1>12 DEF HumanMessage, ScheduledMessage, Persist, TakeOver, BeginRelease,
                     EndRelease, vars
<1> QED BY <1>6, <1>7, <1>8, <1>10, <1>11, <1>12 DEF Next

\* The messages a release tells of are in the session.
LEMMA ContextIsOwn == TypeOK => Context \subseteq Ids
<1> SUFFICES ASSUME TypeOK PROVE Context \subseteq Ids
  OBVIOUS
<1> DEFINE by(sender) == {i \in DOMAIN messages : messages[i].sender = sender}
           talk == by("customer") \cup by("human")
           said(from) == {messages[i].id : i \in {j \in talk : j >= from}}
           after == {i \in by("customer") : \A j \in by("salesagent") : j < i}
<1>1. \A from : said(from) \subseteq Ids
  BY DEF Ids
<1>2. Context \in {said(Min(after)), said(Max(by("customer"))), said(0)}
  BY DEF Context
<1> QED BY <1>1, <1>2

LEMMA OwnReleaseStep ==
  ASSUME TypeOK, OneCopy, OwnRows, OwnRelease, [Next]_vars, ~Reset
  PROVE  OwnRelease'
<1>0. Ids \subseteq Ids' /\ epoch' = epoch
  BY OwnMessages
<1>1. \A s, c : Own(s, c, Ids) => Own(s, c, Ids')
  BY <1>0, OwnGrows
<1>2. CASE UNCHANGED release
  BY <1>0, <1>1, <1>2 DEF OwnRelease
<1>3. CASE BeginRelease
  <2>1. CASE release' = [waits |-> TRUE, copy |-> Loaded, heard |-> Context]
    <3>1. release'.copy = Loaded /\ release'.heard = Context
      BY <2>1
    <3>2. Own(release'.copy, epoch', Ids')
      BY <1>0, <1>1, <3>1, OwnLoaded
    <3>3. release'.heard \subseteq Ids'
      BY <1>0, <3>1, ContextIsOwn
    <3> QED BY <3>2, <3>3 DEF OwnRelease
  <2> QED BY <1>2, <1>3, <2>1 DEF BeginRelease
<1>4. CASE EndRelease
  <2>1. release' = Idle
    BY <1>4 DEF EndRelease
  <2> QED BY <2>1 DEF OwnRelease, Idle, NoCopy
<1>5. CASE \E q \in Rest : BeginRest(q) \/ RestReplies(q) \/ RestHandsOver(q)
                          \/ RestIsSilent(q) \/ RestInterrupted(q) \/ RestBreaks(q)
  BY <1>2, <1>5 DEF BeginRest, RestReplies, RestHandsOver, RestIsSilent, RestInterrupted,
                    RestBreaks, RestStep
<1>6. CASE \E q \in Streams : CustomerMessage(q) \/ BeginStream(q) \/ StreamNode(q)
                             \/ StreamReplies(q) \/ StreamEnds(q) \/ StreamFails(q)
                             \/ StreamInterrupted(q) \/ StreamCancelled(q)
                             \/ BeginUpdate(q) \/ EndUpdate(q)
  BY <1>2, <1>6 DEF CustomerMessage, BeginStream, StreamNode, StreamReplies, StreamEnds,
                    StreamFails, StreamInterrupted, StreamCancelled, StreamStep, StreamStops,
                    BeginUpdate, EndUpdate
<1>7. CASE \/ \E h \in Humans : HumanMessage(h)
           \/ \E b \in Broadcasts : ScheduledMessage(b)
           \/ TakeOver \/ UNCHANGED vars
  BY <1>2, <1>7 DEF HumanMessage, ScheduledMessage, Persist, TakeOver, vars
<1> QED BY <1>3, <1>4, <1>5, <1>6, <1>7 DEF Next

\* A reset while nothing is under way leaves nothing of the old conversation.
LEMMA OwnReset == ASSUME TypeOK, Reset PROVE OwnSession'
<1> SUFFICES ASSUME quiet' PROVE (OwnRows /\ OwnRequests /\ OwnUpdates /\ OwnRelease)'
  BY DEF OwnSession
<1> DEFINE fresh == [session |-> [customer |-> epoch + 1, stage |-> DefaultStage,
                                  talked |-> FALSE, transfer_flag |-> FALSE],
                     profile |-> {}, memory |-> {}]
<1>1. /\ Quiet /\ epoch' = epoch + 1 /\ before' = stored /\ stored' = stored
      /\ messages' = <<>>
      /\ UNCHANGED <<request, view, update, updateView, release>>
      /\ SaveSession(Aligned(fresh)) /\ SaveProfile(fresh) /\ SaveMemory(fresh)
      /\ epoch < MaxResets
  BY DEF Reset, Cleared
<1>2. fresh \in State /\ fresh.session.customer = epoch + 1
  <2>1. epoch + 1 \in Customers
    BY <1>1, LimitsAssumption DEF Customers, TypeOK
  <2>2. fresh.session \in Session
    BY <2>1 DEF Session
  <2> QED BY <2>2 DEF State
<1>3. Own(fresh, epoch + 1, {})
  BY DEF Own
<1>4. OwnRows'
  <2>1. session'.customer = epoch'
    BY <1>1, <1>2, <1>3, OwnCopies DEF Own, SaveSession
  <2>2. memory' = {} /\ profile'[epoch'] = {}
    <3>1. epoch + 1 \in Customers
      BY <1>2, StateParts
    <3> QED BY <1>1, <1>2, <3>1 DEF SaveMemory, SaveProfile, TypeOK
  <2>3. before' <= stored'
    BY <1>1 DEF TypeOK
  <2> QED BY <1>1, <2>1, <2>2, <2>3 DEF OwnRows
<1>5. OwnRequests'
  BY <1>1 DEF Quiet, OwnRequests
<1>6. OwnUpdates'
  BY <1>1 DEF Quiet, OwnUpdates
<1>7. OwnRelease'
  <2>1. release = Idle /\ release' = release
    BY <1>1 DEF Quiet
  <2> QED BY <2>1 DEF OwnRelease, Idle, NoCopy
<1> QED BY <1>4, <1>5, <1>6, <1>7

LEMMA OwnStep == TypeOK /\ Heard /\ OneCopy /\ OwnSession /\ [Next]_vars => OwnSession'
<1> SUFFICES ASSUME TypeOK, Heard, OneCopy, OwnSession, [Next]_vars PROVE OwnSession'
  OBVIOUS
<1>1. CASE Reset
  BY <1>1, OwnReset
<1>2. CASE ~Reset /\ quiet
  <2>1. OwnRows /\ OwnRequests /\ OwnUpdates /\ OwnRelease
    BY <1>2 DEF OwnSession
  <2> QED BY <1>2, <2>1, OwnRowsStep, OwnRequestsStep, OwnUpdatesStep, OwnReleaseStep
          DEF OwnSession
<1>3. CASE ~Reset /\ ~quiet
  <2>1. quiet' = quiet
    BY <1>3 DEF Next, HumanMessage, ScheduledMessage, Persist, BeginRest, RestReplies,
                RestHandsOver, RestIsSilent, RestInterrupted, RestBreaks, RestStep,
                CustomerMessage, BeginStream, StreamNode, StreamReplies, StreamEnds,
                StreamFails, StreamInterrupted, StreamCancelled, StreamStep, StreamStops,
                BeginUpdate, EndUpdate, TakeOver, BeginRelease, EndRelease, vars, ghosts
  <2> QED BY <1>3, <2>1 DEF OwnSession
<1> QED BY <1>1, <1>2, <1>3

\* Nothing of the old conversation comes back into a session that was quiet
\* when it was reset.
THEOREM ResetsHold == Spec => []ResetHolds
<1>1. TypeOK /\ Heard /\ OneCopy /\ OwnSession /\ [Next]_vars => OwnSession'
  BY OwnStep
<1>2. Spec => []OneCopy
  BY MessagesAreStoredOnce
<1>3. OwnSession => ResetHolds
  BY DEF OwnSession, OwnRows, ResetHolds, Ids
<1> QED BY <1>1, <1>2, <1>3, OwnInit, TypesHold, PTL DEF Spec

=============================================================================
