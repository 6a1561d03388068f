---------------------------- MODULE RelayProofs ----------------------------
(***************************************************************************)
(* Proofs about Relay, for any number of statements, printed lines and     *)
(* cancels.                                                                *)
(***************************************************************************)
EXTENDS Relay, FiniteSetTheorems, SequenceTheorems, TLAPS

Query(k) == <<[type |-> "Q", kind |-> k]>>
Part(t, k) == [type |-> t, kind |-> k]
Goodbye == <<Part("X", "sql")>>

(* The session is in one of four phases, and that is the whole argument: a   *)
(* statement is with the proxy, on its way in parts, or with the backend,    *)
(* and only then one reply is owed.                                          *)
Rests ==
  /\ backend.out = <<>>
  /\ backend.at # "dead" =>
       backend.in = <<>> /\ backend.at = "idle" /\ txStatus = backend.status

NothingAsked ==
  /\ Rests /\ pump = "read" /\ ~skip
  /\ client.at # "waiting" /\ client.seen = txStatus
  /\ inbox = <<>> \/ (client.at = "gone" /\ inbox = Goodbye)

WithProxy ==
  /\ Rests /\ client.at # "idle"
  /\ \/ pump = "read" /\ ~skip /\ \E k \in Simple : inbox = Query(k)
     \/ pump = "read" /\ ~skip /\ inbox = Messages("parsedDpl")
     \/ /\ pump = "read" /\ skip
        /\ inbox \in {<<Part("E", "parsedDpl"), Part("S", "parsedDpl")>>,
                      <<Part("S", "parsedDpl")>>}
     \/ pump \in Executing /\ ~skip /\ inbox = <<>> /\ txStatus = "I"

InParts ==
  /\ client.at # "idle" /\ pump = "read" /\ ~skip /\ backend.out = <<>>
  /\ inbox \in {Messages("parsed"),
                <<Part("E", "parsed"), Part("S", "parsed")>>,
                <<Part("S", "parsed")>>}
  /\ backend.at # "dead" =>
       /\ backend.at \in {"idle", "batch"}
       /\ \A i \in 1..Len(backend.in) : backend.in[i].type \in {"P", "E"}

WithBackend ==
  /\ client.at # "idle" /\ pump = "read" /\ ~skip /\ inbox = <<>>
  /\ \/ backend.at = "dead" /\ backend.out = <<>>
     \/ /\ backend.at \in {"idle", "batch"} /\ backend.out = <<>>
        /\ backend.in # <<>> /\ backend.in[Len(backend.in)].type \in {"Q", "S"}
        /\ \A i \in 1..(Len(backend.in) - 1) : backend.in[i].type \in {"P", "E"}
     \/ backend.at = "executing" /\ backend.in = <<>> /\ backend.out = <<>>
     \/ /\ backend.at \in {"idle", "dead"} /\ backend.in = <<>>
        /\ \/ backend.out = <<backend.status>>
           \/ backend.out = <<"K", "I">> /\ backend.status = "I"

Fresh ==
  /\ client.at # "idle" /\ inbox = <<>> /\ ~skip /\ txStatus = "I"
  /\ backend.status = "I" /\ backend.at = "idle"
  /\ backend.in = <<>> /\ backend.out = <<>>

Phase ==
  /\ pump = "new" => Fresh
  /\ pump \notin {"new", "closed"} =>
       NothingAsked \/ WithProxy \/ InParts \/ WithBackend

\* A command is active as long as it executes, and a cancel under way is of
\* the statement its client is at.
RunIsPump ==
  /\ run.kind # "none" <=> pump \in Executing
  /\ run.kind = "python" <=> pump \in {"prepare", "stream"}
CancelIsCurrent ==
  cancel.at # "none" => cancel.open /\ cancel.n = client.n

RelayInv ==
  /\ RelayTypeOK /\ Phase /\ RunIsPump /\ CancelIsCurrent
  /\ ChildHasSession /\ ForwardIsHarmless

\* What the handlers make of the messages.
LEMMA SeqFacts ==
  ASSUME NEW S
  PROVE  /\ <<>> \in Seq(S)
         /\ \A x \in S : <<x>> \in Seq(S)
         /\ \A x, y \in S : <<x, y>> \in Seq(S)
         /\ \A x, y, z \in S : <<x, y, z>> \in Seq(S)
         /\ \A s \in Seq(S), x \in S : Append(s, x) \in Seq(S)
         /\ \A s \in Seq(S) : s # <<>> => Head(s) \in S /\ Tail(s) \in Seq(S)
<1>1. <<>> \in Seq(S) /\ \A x \in S : <<x>> \in Seq(S)
  OBVIOUS
<1>2. ASSUME NEW x \in S, NEW y \in S PROVE <<x, y>> \in Seq(S)
  OBVIOUS
<1>3. ASSUME NEW x \in S, NEW y \in S, NEW z \in S PROVE <<x, y, z>> \in Seq(S)
  OBVIOUS
<1>4. ASSUME NEW s \in Seq(S), NEW x \in S PROVE Append(s, x) \in Seq(S)
  OBVIOUS
<1>5. ASSUME NEW s \in Seq(S), s # <<>> PROVE Head(s) \in S /\ Tail(s) \in Seq(S)
  BY <1>5
<1> QED
  BY <1>1, <1>2, <1>3, <1>4, <1>5

LEMMA Bounds ==
  /\ 0 \in 0..MaxLine /\ 0 \in 0..MaxStatement /\ 0 \in 0..MaxCancel
  /\ <<>> \in Seq(Message)
BY RelayAssumption

LEMMA InitInv == RelayInit => RelayInv
<1> SUFFICES ASSUME RelayInit PROVE RelayInv
  OBVIOUS
<1> USE RelayAssumption DEF RelayInit, NoRun, NoCancel
<1>1. RelayTypeOK
  <2>1. client \in ClientStates /\ cancel \in CancelStates /\ run \in RunStates
    BY DEF ClientStates, CancelStates, RunStates, TxStatus
  <2>2. backend \in BackendStates
    BY DEF BackendStates, TxStatus
  <2> QED
    BY <2>1, <2>2, Bounds DEF RelayTypeOK, TxStatus, Executing
<1>2. Phase /\ RunIsPump
  BY DEF Phase, Fresh, RunIsPump, Executing
<1>3. CancelIsCurrent /\ ChildHasSession /\ ForwardIsHarmless
  BY DEF CancelIsCurrent, ChildHasSession, ForwardIsHarmless
<1> QED
  BY <1>1, <1>2, <1>3 DEF RelayInv

\* The messages of a statement, one by one.
LEMMA MessagesAre ==
  /\ \A k \in Simple : Messages(k) = Query(k)
  /\ \A k \in Extended : Messages(k) = <<Part("P", k), Part("E", k), Part("S", k)>>
<1>1. ASSUME NEW k \in Simple
      PROVE  Messages(k) = Query(k)
  BY DEF Messages, Query
<1>2. ASSUME NEW k \in Extended
      PROVE  Messages(k) = <<Part("P", k), Part("E", k), Part("S", k)>>
  <2>1. k \notin Simple
    BY DEF Extended, Simple, DplKinds
  <2>2. Messages(k) = [i \in 1..3 |-> Part(<<"P", "E", "S">>[i], k)]
    BY <2>1 DEF Messages, Part
  <2> QED
    BY <2>2
<1> QED
  BY <1>1, <1>2

\* What the handlers make of the records of the state.
LEMMA BackendUpdates ==
  ASSUME NEW b \in BackendStates
  PROVE  /\ b.status \in TxStatus /\ b.in \in Seq(Message)
         /\ b.out \in Seq({"K"} \cup TxStatus)
         /\ [b EXCEPT !.at = "dead"] \in BackendStates
         /\ [b EXCEPT !.at = "dead", !.in = <<>>] \in BackendStates
         /\ [b EXCEPT !.out = <<"K", "I">>] \in BackendStates
         /\ b.out # <<>> => [b EXCEPT !.out = Tail(@)] \in BackendStates
         /\ \A msg \in Message : [b EXCEPT !.in = Append(@, msg)] \in BackendStates
         /\ b.in # <<>> => \A at \in {"batch", "executing"} :
              [b EXCEPT !.in = Tail(@), !.at = at] \in BackendStates
         /\ \A st \in TxStatus :
              [b EXCEPT !.at = "idle", !.status = st, !.out = Append(@, st)]
                \in BackendStates
<1>1. b.status \in TxStatus /\ b.in \in Seq(Message) /\ b.out \in Seq({"K"} \cup TxStatus)
  BY DEF BackendStates
<1>2. /\ [b EXCEPT !.at = "dead"] \in BackendStates
      /\ [b EXCEPT !.at = "dead", !.in = <<>>] \in BackendStates
  <2>1. <<>> \in Seq(Message)
    BY SeqFacts
  <2> QED
    BY <2>1 DEF BackendStates
<1>3. [b EXCEPT !.out = <<"K", "I">>] \in BackendStates
  <2>1. <<"K", "I">> \in Seq({"K"} \cup TxStatus)
    BY DEF TxStatus
  <2> QED
    BY <2>1 DEF BackendStates
<1>4. ASSUME b.out # <<>>
      PROVE  [b EXCEPT !.out = Tail(@)] \in BackendStates
  <2>1. Tail(b.out) \in Seq({"K"} \cup TxStatus)
    BY <1>1, <1>4
  <2> QED
    BY <2>1 DEF BackendStates
<1>5. ASSUME NEW msg \in Message
      PROVE  [b EXCEPT !.in = Append(@, msg)] \in BackendStates
  <2>1. Append(b.in, msg) \in Seq(Message)
    BY <1>1
  <2> QED
    BY <2>1 DEF BackendStates
<1>6. ASSUME b.in # <<>>, NEW at \in {"batch", "executing"}
      PROVE  [b EXCEPT !.in = Tail(@), !.at = at] \in BackendStates
  <2>1. Tail(b.in) \in Seq(Message)
    BY <1>1, <1>6
  <2> QED
    BY <2>1 DEF BackendStates
<1>7. ASSUME NEW st \in TxStatus
      PROVE  [b EXCEPT !.at = "idle", !.status = st, !.out = Append(@, st)]
               \in BackendStates
  <2>1. Append(b.out, st) \in Seq({"K"} \cup TxStatus)
    BY <1>1
  <2> QED
    BY <2>1 DEF BackendStates
<1> QED
  BY <1>1, <1>2, <1>3, <1>4, <1>5, <1>6, <1>7

LEMMA ClientUpdates ==
  ASSUME NEW c \in ClientStates
  PROVE  /\ c.n \in 0..MaxStatement
         /\ [c EXCEPT !.at = "gone"] \in ClientStates
         /\ c.n < MaxStatement =>
              [c EXCEPT !.at = "waiting", !.n = @ + 1, !.got = "none"] \in ClientStates
         /\ \A st \in TxStatus, got \in {"result", "error", "canceled"} :
              [c EXCEPT !.at = IF @ = "waiting" THEN "idle" ELSE @,
                        !.seen = st, !.got = got] \in ClientStates
<1>1. c.n \in 0..MaxStatement /\ [c EXCEPT !.at = "gone"] \in ClientStates
  BY DEF ClientStates
<1>2. ASSUME c.n < MaxStatement
      PROVE  [c EXCEPT !.at = "waiting", !.n = @ + 1, !.got = "none"] \in ClientStates
  <2>1. c.n + 1 \in 0..MaxStatement
    BY <1>1, <1>2, RelayAssumption
  <2> QED
    BY <2>1 DEF ClientStates
<1>3. ASSUME NEW st \in TxStatus, NEW got \in {"result", "error", "canceled"}
      PROVE  [c EXCEPT !.at = IF @ = "waiting" THEN "idle" ELSE @,
                       !.seen = st, !.got = got] \in ClientStates
  BY DEF ClientStates
<1> QED
  BY <1>1, <1>2, <1>3

LEMMA CancelUpdates ==
  /\ NoCancel \in CancelStates /\ NoRun \in RunStates
  /\ \A n \in 0..MaxStatement :
       [at |-> "asked", open |-> TRUE, n |-> n, hit |-> 0] \in CancelStates
  /\ \A c \in CancelStates :
       /\ c.n \in 0..MaxStatement
       /\ [c EXCEPT !.at = "forward"] \in CancelStates
       /\ \A n \in 0..MaxStatement :
            [c EXCEPT !.at = "closing", !.hit = n] \in CancelStates
<1> USE RelayAssumption DEF CancelStates
<1>1. NoCancel \in CancelStates /\ NoRun \in RunStates
  BY DEF NoCancel, NoRun, RunStates
<1>2. ASSUME NEW n \in 0..MaxStatement
      PROVE  [at |-> "asked", open |-> TRUE, n |-> n, hit |-> 0] \in CancelStates
  OBVIOUS
<1>3. ASSUME NEW c \in CancelStates
      PROVE  c.n \in 0..MaxStatement /\ [c EXCEPT !.at = "forward"] \in CancelStates
  OBVIOUS
<1>4. ASSUME NEW c \in CancelStates, NEW n \in 0..MaxStatement
      PROVE  [c EXCEPT !.at = "closing", !.hit = n] \in CancelStates
  OBVIOUS
<1> QED
  BY <1>1, <1>2, <1>3, <1>4

\* What the ends of statements and of the session leave.
LEMMA EndTypes ==
  ASSUME RelayTypeOK
  PROVE  /\ \A got \in {"result", "error", "canceled"} :
              Finish(got) /\ inbox' \in Seq(Message)
              /\ UNCHANGED <<skip, txStatus, backend, registered, cancel, cancels>>
              => RelayTypeOK'
         /\ CloseSession /\ inbox' \in Seq(Message) => RelayTypeOK'
<1> USE CancelUpdates DEF RelayTypeOK
<1>1. ASSUME NEW got \in {"result", "error", "canceled"}, Finish(got),
             inbox' \in Seq(Message),
             UNCHANGED <<skip, txStatus, backend, registered, cancel, cancels>>
      PROVE  RelayTypeOK'
  <2>1. client' \in ClientStates
    BY <1>1, ClientUpdates DEF Finish, Answered
  <2>2. lines' \in 0..MaxLine
    BY <1>1, Bounds DEF Finish
  <2> QED
    BY <1>1, <2>1, <2>2 DEF Finish
<1>2. ASSUME CloseSession, inbox' \in Seq(Message)
      PROVE  RelayTypeOK'
  <2>1. client' \in ClientStates /\ backend' \in BackendStates
    BY <1>2, ClientUpdates, BackendUpdates DEF CloseSession
  <2> QED
    BY <1>2, <2>1 DEF CloseSession, ChildEnds
<1> QED
  BY <1>1, <1>2

LEMMA TypeStep == RelayTypeOK /\ [RelayNext]_relayVars => RelayTypeOK'
<1> SUFFICES ASSUME RelayTypeOK, [RelayNext]_relayVars PROVE RelayTypeOK'
  OBVIOUS
<1> USE DEF RelayTypeOK
<1>1. /\ \A k \in Simple \cup Extended : Messages(k) \in Seq(Message)
      /\ [type |-> "X", kind |-> "sql"] \in Message
  <2>1. \A t \in Types, k \in Simple \cup Extended : Part(t, k) \in Message
    BY DEF Part, Message
  <2>2. ASSUME NEW k \in Simple PROVE Messages(k) \in Seq(Message)
    BY <2>1, MessagesAre, SeqFacts DEF Query, Part, Types
  <2>3. ASSUME NEW k \in Extended PROVE Messages(k) \in Seq(Message)
    <3>1. /\ Part("P", k) \in Message /\ Part("E", k) \in Message
          /\ Part("S", k) \in Message
      BY <2>1 DEF Types
    <3>2. <<Part("P", k), Part("E", k), Part("S", k)>> \in Seq(Message)
      BY <3>1, SeqFacts
    <3> QED
      BY <3>2, MessagesAre
  <2>4. Part("X", "sql") \in Message
    BY <2>1 DEF Types, Simple
  <2> QED
    BY <2>2, <2>3, <2>4 DEF Part
<1>2. inbox # <<>> =>
        /\ Tail(inbox) \in Seq(Message) /\ Head(inbox) \in Message
        /\ Head(inbox).kind \in Simple \cup Extended
  <2>1. inbox # <<>> => Tail(inbox) \in Seq(Message) /\ Head(inbox) \in Message
    BY SeqFacts
  <2> QED
    BY <2>1 DEF Message
<1>3. CASE Client
  <2>1. CASE Leave
    <3>1. inbox' \in Seq(Message)
      BY <1>1, <2>1, SeqFacts DEF Leave
    <3>2. client' \in ClientStates
      BY <2>1, ClientUpdates DEF Leave
    <3> QED
      BY <2>1, <3>1, <3>2 DEF Leave
  <2>2. CASE AskCancel
    <3>1. cancel' \in CancelStates
      BY <2>2, CancelUpdates, ClientUpdates DEF AskCancel
    <3>2. cancels' \in 0..MaxCancel
      BY <2>2, RelayAssumption DEF AskCancel
    <3> QED
      BY <2>2, <3>1, <3>2 DEF AskCancel
  <2>3. ASSUME NEW k \in Simple \cup Extended, Send(k)
        PROVE  RelayTypeOK'
    <3>1. client' \in ClientStates
      BY <2>3, ClientUpdates DEF Send
    <3> QED
      BY <1>1, <2>3, <3>1 DEF Send
  <2> QED
    BY <1>3, <2>1, <2>2, <2>3 DEF Client
<1>4. CASE PumpClient
  <2>1. CASE OpenBackend
    <3>1. backend' \in BackendStates
      BY <2>1, BackendUpdates DEF OpenBackend
    <3> QED
      BY <2>1, <3>1 DEF OpenBackend
  <2>2. CASE BackendUnreachable \/ ReadEnd \/ ReadTerminate \/ StreamBreaks
    BY <2>2, EndTypes, <1>2
    DEF BackendUnreachable, ReadEnd, ReadTerminate, StreamBreaks, CloseSession
  <2>3. CASE Swallow
    <3>1. client' \in ClientStates
      BY <2>3, ClientUpdates DEF Swallow, Answered
    <3> QED
      BY <1>2, <2>3, <3>1 DEF Swallow, Read, Reads
  <2>4. CASE RefuseParse
    BY <1>2, <2>4 DEF RefuseParse, Read, Reads
  <2>5. CASE Forward
    <3>1. backend' \in BackendStates
      BY <1>2, <2>5, BackendUpdates DEF Forward, Reads
    <3> QED
      BY <1>2, <2>5, <3>1 DEF Forward, Reads
  <2>6. CASE RefuseQuery
    BY <1>2, <2>6, EndTypes DEF RefuseQuery, Read, Reads
  <2>7. CASE Intercept
    <3>1. run' \in RunStates
      BY <2>7 DEF Intercept, RunStates
    <3>2. pump' \in Executing /\ inbox' \in Seq(Message)
      BY <1>2, <2>7 DEF Intercept, Read, Reads, Executing
    <3> QED
      BY <2>7, <3>1, <3>2 DEF Intercept
  <2>8. CASE AttachCancelled
    BY <2>8, EndTypes DEF AttachCancelled
  <2>9. CASE Spawn
    BY <2>9 DEF Spawn, Executing, ChildEnds
  <2>10. CASE StreamLine
    <3>1. CASE CloseSession
      BY <2>10, <3>1, EndTypes DEF CloseSession
    <3>2. CASE ~CloseSession
      <4>1. lines' \in 0..MaxLine
        BY <2>10, <3>2, RelayAssumption DEF StreamLine
      <4> QED
        BY <2>10, <3>2, <4>1 DEF StreamLine
    <3> QED
      BY <3>1, <3>2
  <2>11. CASE StreamEnds
    BY <2>11, EndTypes DEF StreamEnds
  <2> QED
    BY <1>4, <2>1, <2>2, <2>3, <2>4, <2>5, <2>6, <2>7, <2>8, <2>9, <2>10, <2>11
    DEF PumpClient
<1>5. CASE Thread
  BY <1>5 DEF Thread, WriteBody, ThreadEnds, ChildEnds
<1>6. CASE PumpBackendStep
  <2>1. CASE PumpBackend
    <3>1. backend.out # <<>> /\ Head(backend.out) \in {"K"} \cup TxStatus
      BY <2>1, BackendUpdates, SeqFacts DEF PumpBackend
    <3>2. backend' \in BackendStates
      BY <2>1, BackendUpdates DEF PumpBackend
    <3>3. txStatus' \in TxStatus /\ client' \in ClientStates
      BY <2>1, <3>1, ClientUpdates DEF PumpBackend, Answered
    <3> QED
      BY <2>1, <3>2, <3>3 DEF PumpBackend
  <2>2. CASE PumpBackendEnds
    BY <2>2, EndTypes DEF PumpBackendEnds, CloseSession
  <2> QED
    BY <1>6, <2>1, <2>2 DEF PumpBackendStep
<1>7. CASE ServeCancel
  <2>1. CASE CancelIntercepted
    <3>1. cancel' \in CancelStates
      BY <2>1, CancelUpdates DEF CancelIntercepted
    <3>2. run' \in RunStates
      BY <2>1 DEF CancelIntercepted, RunStates
    <3> QED
      BY <2>1, <3>1, <3>2 DEF CancelIntercepted, ChildEnds
  <2>2. CASE ForwardCancel
    <3>1. 0 \in 0..MaxStatement /\ client.n \in 0..MaxStatement
      BY Bounds, ClientUpdates
    <3>2. PICK h \in 0..MaxStatement :
            cancel' = [cancel EXCEPT !.at = "closing", !.hit = h]
      BY <2>2, <3>1 DEF ForwardCancel
    <3>3. cancel' \in CancelStates
      BY <3>2, CancelUpdates
    <3> QED
      BY <2>2, <3>3 DEF ForwardCancel
  <2>3. CASE CloseCancel
    BY <2>3, CancelUpdates DEF CloseCancel
  <2> QED
    BY <1>7, <2>1, <2>2, <2>3 DEF ServeCancel
<1>8. CASE Environment
  <2>1. CASE CommandEnds
    BY <2>1, EndTypes DEF CommandEnds
  <2>2. CASE AttachLost \/ CommandBreaks
    BY <2>2, EndTypes DEF AttachLost, CommandBreaks, CloseSession
  <2>3. CASE ChildPrints
    <3>1. lines' \in 0..MaxLine
      BY <2>3, RelayAssumption DEF ChildPrints
    <3> QED
      BY <2>3, <3>1 DEF ChildPrints
  <2>4. CASE ChildExits
    BY <2>4 DEF ChildExits, ChildEnds
  <2>5. CASE BackendTakes
    <3>1. backend' \in BackendStates
      BY <2>5, BackendUpdates DEF BackendTakes
    <3> QED
      BY <2>5, <3>1 DEF BackendTakes
  <2>6. CASE BackendDies
    <3>1. backend' \in BackendStates
      BY <2>6, BackendUpdates DEF BackendDies
    <3> QED
      BY <2>6, <3>1 DEF BackendDies
  <2>7. ASSUME NEW st \in TxStatus, BackendAnswers(st)
        PROVE  RelayTypeOK'
    <3>1. backend' \in BackendStates
      BY <2>7, BackendUpdates DEF BackendAnswers
    <3> QED
      BY <2>7, <3>1 DEF BackendAnswers
  <2> QED
    BY <1>8, <2>1, <2>2, <2>3, <2>4, <2>5, <2>6, <2>7 DEF Environment
<1>9. CASE UNCHANGED relayVars
  BY <1>9 DEF relayVars
<1> QED
  BY <1>3, <1>4, <1>5, <1>6, <1>7, <1>8, <1>9 DEF RelayNext

LEMMA Heads ==
  ASSUME NEW x, NEW y, NEW z
  PROVE  /\ Head(<<x>>) = x /\ Tail(<<x>>) = <<>> /\ <<x>> # <<>>
         /\ Head(<<x, y>>) = x /\ Tail(<<x, y>>) = <<y>> /\ <<x, y>> # <<>>
         /\ Head(<<x, y, z>>) = x /\ Tail(<<x, y, z>>) = <<y, z>> /\ <<x, y, z>> # <<>>
OBVIOUS

\* Where the messages of a statement are read one by one.
LEMMA Statements ==
  /\ \A k \in Simple :
       /\ Query(k) # <<>> /\ Tail(Query(k)) = <<>>
       /\ Head(Query(k)).type = "Q" /\ Head(Query(k)).kind = k
  /\ \A k \in Extended :
       /\ Messages(k) # <<>> /\ Head(Messages(k)) = Part("P", k)
       /\ Tail(Messages(k)) = <<Part("E", k), Part("S", k)>>
  /\ Goodbye # <<>> /\ Head(Goodbye).type = "X"
  /\ \A t, k : Part(t, k).type = t /\ Part(t, k).kind = k
<1>1. ASSUME NEW k \in Simple
      PROVE  /\ Query(k) # <<>> /\ Tail(Query(k)) = <<>>
             /\ Head(Query(k)).type = "Q" /\ Head(Query(k)).kind = k
  BY Heads DEF Query
<1>2. ASSUME NEW k \in Extended
      PROVE  /\ Messages(k) # <<>> /\ Head(Messages(k)) = Part("P", k)
             /\ Tail(Messages(k)) = <<Part("E", k), Part("S", k)>>
  <2>1. Messages(k) = <<Part("P", k), Part("E", k), Part("S", k)>>
    BY MessagesAre
  <2>2. /\ <<Part("P", k), Part("E", k), Part("S", k)>> # <<>>
        /\ Head(<<Part("P", k), Part("E", k), Part("S", k)>>) = Part("P", k)
        /\ Tail(<<Part("P", k), Part("E", k), Part("S", k)>>)
             = <<Part("E", k), Part("S", k)>>
    BY Heads
  <2> QED
    BY <2>1, <2>2
<1>3. Goodbye # <<>> /\ Head(Goodbye).type = "X"
  BY Heads DEF Goodbye, Part
<1>4. \A t, k : Part(t, k).type = t /\ Part(t, k).kind = k
  BY DEF Part
<1> QED
  BY <1>1, <1>2, <1>3, <1>4

\* What is appended stays last, what is taken is first.
LEMMA Queues ==
  ASSUME NEW s \in Seq(Message), NEW msg \in Message
  PROVE  /\ Append(s, msg) # <<>> /\ Append(s, msg)[Len(Append(s, msg))] = msg
         /\ \A i \in 1..(Len(Append(s, msg)) - 1) : Append(s, msg)[i] = s[i]
         /\ Len(Append(s, msg)) = Len(s) + 1
         /\ s # <<>> => /\ Head(s) = s[1] /\ Len(s) \in Nat \ {0}
                        /\ Len(Tail(s)) = Len(s) - 1
                        /\ (Tail(s) = <<>> <=> Len(s) = 1)
                        /\ \A i \in 1..(Len(s) - 1) : Tail(s)[i] = s[i + 1]
<1>1. s # <<>> => Len(s) \in Nat \ {0} /\ Len(Tail(s)) = Len(s) - 1
  OBVIOUS
<1>2. s # <<>> => (Tail(s) = <<>> <=> Len(s) = 1)
  <2>1. s # <<>> => (Tail(s) # <<>> => Len(Tail(s)) \in Nat \ {0})
    BY EmptySeq, SeqFacts
  <2>2. ASSUME NEW t, t = <<>> PROVE Len(t) = 0
    BY <2>2, EmptySeq
  <2>3. Tail(s) = <<>> => Len(Tail(s)) = 0
    BY <2>2
  <2>4. ASSUME s # <<>> PROVE Tail(s) = <<>> <=> Len(s) = 1
    <3> DEFINE n == Len(s)
               m == Len(Tail(s))
               empty == Tail(s) = <<>>
    <3>1. n \in Nat /\ m = n - 1 /\ (empty => m = 0) /\ (~empty => m # 0)
      BY <1>1, <2>1, <2>3, <2>4
    <3> HIDE DEF n, m, empty
    <3>2. empty <=> n = 1
      BY <3>1
    <3> QED
      BY <3>2 DEF n, empty
  <2> QED
    BY <2>4
<1> QED
  BY <1>1, <1>2

-----------------------------------------------------------------------------
(* The run, the child and the cancel follow the pump.                      *)

LEMMA SideStep ==
  ASSUME RelayTypeOK, RunIsPump, CancelIsCurrent, ChildHasSession,
         ForwardIsHarmless, RelayNext
  PROVE  (RunIsPump /\ CancelIsCurrent /\ ChildHasSession /\ ForwardIsHarmless)'
<1> DEFINE Side == RunIsPump /\ CancelIsCurrent /\ ChildHasSession /\ ForwardIsHarmless
<1> USE DEF RunIsPump, CancelIsCurrent, ChildHasSession, ForwardIsHarmless
<1>1. /\ run.kind \in DplKinds \cup {"none"} /\ client.n \in 0..MaxStatement
      /\ NoRun.kind = "none" /\ NoCancel.at = "none" /\ NoCancel.hit = 0
  BY ClientUpdates DEF RelayTypeOK, RunStates, NoRun, NoCancel
<1>2. \A c \in ClientStates : \A st, got :
        /\ [c EXCEPT !.at = "gone"].n = c.n
        /\ [c EXCEPT !.at = IF @ = "waiting" THEN "idle" ELSE @,
                     !.seen = st, !.got = got].n = c.n
  BY DEF ClientStates
<1>3. ASSUME CloseSession PROVE Side'
  BY <1>1, <1>2, <1>3 DEF CloseSession, RelayTypeOK, Executing
<1>4. ASSUME NEW got, Finish(got), UNCHANGED cancel PROVE Side'
  BY <1>1, <1>2, <1>4 DEF Finish, Answered, RelayTypeOK, Executing
<1>5. CASE Client
  <2>1. CASE Leave
    BY <1>2, <2>1 DEF Leave, RelayTypeOK
  <2>2. CASE AskCancel
    BY <2>2 DEF AskCancel
  <2>3. ASSUME NEW k \in Simple \cup Extended, Send(k) PROVE Side'
    BY <2>3 DEF Send, RelayTypeOK, CancelStates
  <2> QED
    BY <1>5, <2>1, <2>2, <2>3 DEF Client
<1>6. CASE PumpClient
  <2>1. CASE OpenBackend
    BY <2>1 DEF OpenBackend, Executing
  <2>2. CASE BackendUnreachable \/ ReadEnd \/ ReadTerminate \/ StreamBreaks
    BY <2>2, <1>3 DEF BackendUnreachable, ReadEnd, ReadTerminate, StreamBreaks
  <2>3. CASE Swallow
    BY <1>2, <2>3 DEF Swallow, Answered, RelayTypeOK
  <2>4. CASE RefuseParse \/ Forward
    BY <2>4 DEF RefuseParse, Forward
  <2>5. CASE RefuseQuery
    BY <2>5, <1>4 DEF RefuseQuery
  <2>6. CASE Intercept
    BY <2>6 DEF Intercept, Read, Reads, Executing, DplKinds
  <2>7. CASE AttachCancelled \/ StreamEnds
    BY <2>7, <1>4 DEF AttachCancelled, StreamEnds
  <2>8. CASE Spawn
    BY <2>8 DEF Spawn, Executing
  <2>9. CASE StreamLine
    BY <2>9, <1>3 DEF StreamLine
  <2> QED
    BY <1>6, <2>1, <2>2, <2>3, <2>4, <2>5, <2>6, <2>7, <2>8, <2>9 DEF PumpClient
<1>7. CASE Thread
  BY <1>7 DEF Thread, WriteBody, ThreadEnds
<1>8. CASE PumpBackendStep
  <2>1. CASE PumpBackend
    BY <1>2, <2>1 DEF PumpBackend, Answered, RelayTypeOK
  <2>2. CASE PumpBackendEnds
    BY <1>3, <2>2 DEF PumpBackendEnds
  <2> QED
    BY <1>8, <2>1, <2>2 DEF PumpBackendStep
<1>9. CASE ServeCancel
  <2>1. CASE CancelIntercepted
    BY <2>1 DEF CancelIntercepted, RelayTypeOK, CancelStates, RunStates
  <2>2. CASE ForwardCancel
    BY <2>2 DEF ForwardCancel, RelayTypeOK, CancelStates
  <2>3. CASE CloseCancel
    BY <1>1, <2>3 DEF CloseCancel
  <2> QED
    BY <1>9, <2>1, <2>2, <2>3 DEF ServeCancel
<1>10. CASE Environment
  <2>1. CASE CommandEnds
    BY <2>1, <1>4 DEF CommandEnds
  <2>2. CASE AttachLost \/ CommandBreaks
    BY <2>2, <1>3 DEF AttachLost, CommandBreaks
  <2>3. CASE ChildPrints \/ ChildExits \/ BackendTakes \/ BackendDies
    BY <2>3 DEF ChildPrints, ChildExits, BackendTakes, BackendDies
  <2>4. ASSUME NEW st \in TxStatus, BackendAnswers(st) PROVE Side'
    BY <2>4 DEF BackendAnswers
  <2> QED
    BY <1>10, <2>1, <2>2, <2>3, <2>4 DEF Environment
<1> QED
  BY <1>5, <1>6, <1>7, <1>8, <1>9, <1>10 DEF RelayNext

-----------------------------------------------------------------------------
(* The phases.                                                             *)

\* Nothing of a phase is touched.
LEMMA PhaseFrame ==
  ASSUME Phase,
         UNCHANGED <<client, inbox, pump, skip, txStatus, backend>>
  PROVE  Phase'
BY DEF Phase, Fresh, NothingAsked, WithProxy, InParts, WithBackend, Rests

\* A session that is closed is in none.
LEMMA PhaseClosed == CloseSession => Phase'
BY DEF CloseSession, Phase

\* The proxy answers for itself.
LEMMA PhaseAnswered ==
  ASSUME RelayTypeOK, NEW got, WithProxy, pump' = "read", ~skip',
         client' = Answered(txStatus, got), inbox' = <<>>,
         UNCHANGED <<txStatus, backend>>
  PROVE  Phase'
<1>1. client'.at # "waiting" /\ client'.seen = txStatus'
  BY DEF Answered, RelayTypeOK, ClientStates
<1>2. Rests'
  BY DEF WithProxy, Rests
<1> QED
  BY <1>1, <1>2 DEF Phase, NothingAsked

\* The steps of the pump of the client.
LEMMA PhasePump ==
  ASSUME RelayTypeOK, Phase, PumpClient
  PROVE  Phase'
<1>1. inbox \in Seq(Message) /\ backend \in BackendStates
  BY DEF RelayTypeOK
<1>2. CASE OpenBackend
  <2>1. WithBackend'
    BY <1>1, <1>2 DEF OpenBackend, Phase, Fresh, WithBackend, BackendStates
  <2> QED
    BY <1>2, <2>1 DEF OpenBackend, Phase
<1>3. CASE BackendUnreachable \/ ReadEnd \/ ReadTerminate \/ StreamBreaks
  BY <1>3, PhaseClosed
  DEF BackendUnreachable, ReadEnd, ReadTerminate, StreamBreaks
<1>4. CASE Swallow
  <2>1. /\ WithProxy /\ pump' = "read"
        /\ inbox \in {<<Part("E", "parsedDpl"), Part("S", "parsedDpl")>>,
                      <<Part("S", "parsedDpl")>>}
    BY <1>4 DEF Swallow, Read, Reads, Phase, NothingAsked, WithProxy, InParts,
                WithBackend, Executing
  <2>2. CASE inbox = <<Part("E", "parsedDpl"), Part("S", "parsedDpl")>>
    <3>1. Head(inbox).type = "E" /\ Tail(inbox) = <<Part("S", "parsedDpl")>>
      BY <2>2, Heads, Statements
    <3>2. WithProxy'
      BY <1>4, <2>1, <3>1 DEF Swallow, Read, Reads, WithProxy, Rests
    <3> QED
      BY <1>4, <2>1, <3>2 DEF Swallow, Phase
  <2>3. CASE inbox = <<Part("S", "parsedDpl")>>
    <3>1. Head(inbox).type = "S" /\ Tail(inbox) = <<>>
      BY <2>3, Heads, Statements
    <3> QED
      BY <1>4, <2>1, <3>1, PhaseAnswered DEF Swallow, Read, Reads
  <2> QED
    BY <2>1, <2>2, <2>3
<1>5. CASE RefuseParse
  <2>1. WithProxy /\ inbox = Messages("parsedDpl")
    BY <1>5, Statements, Heads, MessagesAre
    DEF RefuseParse, Read, Reads, Phase, NothingAsked, WithProxy, InParts,
        WithBackend, Extended
  <2>2. Tail(inbox) = <<Part("E", "parsedDpl"), Part("S", "parsedDpl")>>
    BY <2>1, Statements DEF Extended
  <2>3. WithProxy'
    BY <1>5, <2>1, <2>2 DEF RefuseParse, Read, Reads, WithProxy, Rests
  <2> QED
    BY <1>5, <2>3 DEF RefuseParse, Read, Reads, Phase
<1>6. CASE RefuseQuery
  <2>1. WithProxy /\ Tail(inbox) = <<>>
    BY <1>6, Statements, Heads, MessagesAre
    DEF RefuseQuery, Read, Reads, Phase, NothingAsked, WithProxy, InParts,
        WithBackend, Extended, DplKinds
  <2> QED
    BY <1>6, <2>1, PhaseAnswered DEF RefuseQuery, Read, Reads, Finish
<1>7. CASE Intercept
  <2>1. WithProxy /\ Tail(inbox) = <<>>
    BY <1>7, Statements, Heads, MessagesAre
    DEF Intercept, Read, Reads, Phase, NothingAsked, WithProxy, InParts,
        WithBackend, Extended, DplKinds
  <2>2. WithProxy' /\ pump' \in Executing
    BY <1>7, <2>1 DEF Intercept, Read, Reads, WithProxy, Rests, Executing
  <2> QED
    BY <2>2 DEF Phase, Executing
<1>8. CASE AttachCancelled \/ StreamEnds
  <2>1. WithProxy /\ inbox' = <<>> /\ ~skip
    BY <1>8 DEF AttachCancelled, StreamEnds, Phase, NothingAsked, WithProxy,
                InParts, WithBackend
  <2> QED
    BY <1>8, <2>1, PhaseAnswered DEF AttachCancelled, StreamEnds, Finish
<1>9. CASE Spawn
  <2>1. WithProxy /\ inbox = <<>> /\ ~skip /\ txStatus = "I"
    BY <1>9 DEF Spawn, Phase, NothingAsked, WithProxy, InParts, WithBackend
  <2>2. WithProxy'
    BY <1>9, <2>1 DEF Spawn, WithProxy, Rests, Executing
  <2> QED
    BY <1>9, <2>2 DEF Spawn, Phase
<1>10. CASE StreamLine
  BY <1>10, PhaseClosed, PhaseFrame DEF StreamLine
<1>11. CASE Forward
  <2> DEFINE msg == Head(inbox)
  <2>1. msg \in Message /\ backend' = [backend EXCEPT !.in = Append(@, msg)]
    BY <1>1, <1>11, SeqFacts DEF Forward, Reads
  <2> DEFINE Rest == {<<Part("E", "parsed"), Part("S", "parsed")>>,
                      <<Part("S", "parsed")>>}
             Alone == WithProxy /\ msg.type = "Q" /\ Tail(inbox) = <<>>
             OneOf == InParts /\ msg.type \in {"P", "E"} /\ Tail(inbox) \in Rest
             LastOf == InParts /\ msg.type = "S" /\ Tail(inbox) = <<>>
  <2>2. Alone \/ OneOf \/ LastOf
    <3>1. ~NothingAsked
      BY <1>11, Statements DEF Forward, Reads, NothingAsked
    <3>2. CASE WithProxy
      BY <1>11, <3>2, Statements, Heads
      DEF Forward, Reads, WithProxy, Extended, Executing
    <3>3. CASE InParts
      <4>1. CASE inbox = Messages("parsed")
        BY <3>3, <4>1, Statements DEF Extended
      <4>2. CASE inbox = <<Part("E", "parsed"), Part("S", "parsed")>>
        BY <3>3, <4>2, Statements, Heads
      <4>3. CASE inbox = <<Part("S", "parsed")>>
        BY <3>3, <4>3, Statements, Heads
      <4> QED
        BY <3>3, <4>1, <4>2, <4>3 DEF InParts
    <3> QED
      BY <1>11, <3>1, <3>2, <3>3 DEF Forward, Reads, Phase, WithBackend
  <2>3. /\ backend'.at = backend.at /\ backend'.out = backend.out
        /\ backend'.status = backend.status /\ backend'.in = Append(backend.in, msg)
        /\ backend.in \in Seq(Message)
    BY <1>1, <2>1 DEF BackendStates
  <2>4. /\ backend'.in # <<>> /\ backend'.in[Len(backend'.in)] = msg
        /\ Len(backend'.in) = Len(backend.in) + 1 /\ Len(backend.in) \in Nat
        /\ \A i \in 1..Len(backend.in) : backend'.in[i] = backend.in[i]
    BY <2>1, <2>3, Queues, LenProperties
  <2>5. /\ pump' = pump /\ skip' = skip /\ client' = client /\ inbox' = Tail(inbox)
        /\ pump = "read" /\ ~skip
    BY <1>11 DEF Forward, Reads
  <2>6. CASE Alone
    <3>1. WithBackend'
      BY <2>3, <2>4, <2>5, <2>6, EmptySeq DEF WithProxy, WithBackend, Rests
    <3> QED
      BY <2>5, <3>1 DEF Phase
  <2>7. CASE OneOf
    <3>1. backend'.at # "dead" =>
            \A i \in 1..Len(backend'.in) : backend'.in[i].type \in {"P", "E"}
      BY <2>3, <2>4, <2>7 DEF InParts
    <3>2. InParts'
      BY <2>3, <2>5, <2>7, <3>1 DEF InParts
    <3> QED
      BY <2>5, <3>2 DEF Phase
  <2>8. CASE LastOf
    <3>1. WithBackend'
      BY <2>3, <2>4, <2>5, <2>8 DEF InParts, WithBackend
    <3> QED
      BY <2>5, <3>1 DEF Phase
  <2> QED
    BY <2>2, <2>6, <2>7, <2>8
<1> QED
  BY <1>2, <1>3, <1>4, <1>5, <1>6, <1>7, <1>8, <1>9, <1>10, <1>11 DEF PumpClient

\* The steps of the pump of the backend.
LEMMA PhaseReplies ==
  ASSUME RelayTypeOK, Phase, PumpBackendStep
  PROVE  Phase'
<1>1. CASE PumpBackendEnds
  BY <1>1, PhaseClosed DEF PumpBackendEnds
<1>2. CASE PumpBackend
  <2>1. /\ WithBackend /\ backend.in = <<>> /\ backend.at \in {"idle", "dead"}
        /\ \/ backend.out = <<backend.status>>
           \/ backend.out = <<"K", "I">> /\ backend.status = "I"
    BY <1>2 DEF PumpBackend, Phase, NothingAsked, WithProxy, InParts, WithBackend, Rests
  <2>2. /\ backend'.at = backend.at /\ backend'.in = <<>>
        /\ backend'.status = backend.status /\ backend'.out = Tail(backend.out)
        /\ backend.status \in TxStatus
    BY <1>2, <2>1 DEF PumpBackend, RelayTypeOK, BackendStates
  <2>3. pump = "read" /\ ~skip /\ inbox = <<>> /\ UNCHANGED <<pump, skip, inbox>>
    BY <1>2, <2>1 DEF PumpBackend, WithBackend
  <2>4. CASE backend.out = <<backend.status>>
    <3>1. Head(backend.out) = backend.status /\ Tail(backend.out) = <<>>
      BY <2>4, Heads
    <3>2. Head(backend.out) # "K"
      BY <2>2, <3>1 DEF TxStatus
    <3>3. txStatus' = backend.status /\ client' = Answered(backend.status, "result")
      BY <1>2, <3>1, <3>2 DEF PumpBackend
    <3>4. client'.at # "waiting" /\ client'.seen = txStatus'
      BY <3>3 DEF Answered, RelayTypeOK, ClientStates
    <3>5. NothingAsked'
      BY <2>1, <2>2, <2>3, <3>1, <3>3, <3>4 DEF NothingAsked, Rests
    <3> QED
      BY <2>3, <3>5 DEF Phase
  <2>5. CASE backend.out = <<"K", "I">> /\ backend.status = "I"
    <3>1. Head(backend.out) = "K" /\ Tail(backend.out) = <<backend.status>>
      BY <2>5, Heads
    <3>2. client' = client
      BY <1>2, <3>1 DEF PumpBackend
    <3>3. WithBackend'
      BY <2>1, <2>2, <2>3, <3>1, <3>2 DEF WithBackend
    <3> QED
      BY <2>3, <3>3 DEF Phase
  <2> QED
    BY <2>1, <2>4, <2>5
<1> QED
  BY <1>1, <1>2 DEF PumpBackendStep

\* The backend itself.
LEMMA PhaseBackend ==
  ASSUME RelayTypeOK, Phase, RunIsPump,
         BackendTakes \/ BackendDies \/ \E st \in TxStatus : BackendAnswers(st)
  PROVE  Phase'
<1> SUFFICES ASSUME pump # "closed" PROVE Phase'
  BY DEF Phase, BackendTakes, BackendDies, BackendAnswers
<1>1. backend \in BackendStates /\ backend.in \in Seq(Message)
  BY BackendUpdates DEF RelayTypeOK
<1>2. CASE BackendTakes
  <2>1. /\ pump' = pump /\ skip' = skip /\ client' = client /\ inbox' = inbox
        /\ backend'.in = Tail(backend.in) /\ backend'.out = backend.out
        /\ backend'.at = IF Head(backend.in).type \in {"Q", "S"} THEN "executing"
                         ELSE "batch"
        /\ backend.at \in {"idle", "batch"} /\ backend.in # <<>>
    BY <1>1, <1>2 DEF BackendTakes, BackendStates
  <2> DEFINE n == Len(backend.in)
  <2>2. /\ Head(backend.in) = backend.in[1] /\ n \in Nat \ {0}
        /\ Tail(backend.in) \in Seq(Message) /\ Len(Tail(backend.in)) = n - 1
        /\ Tail(backend.in) = <<>> <=> n = 1
        /\ \A i \in 1..(n - 1) : Tail(backend.in)[i] = backend.in[i + 1]
    <3>1. Head(backend.in) \in Message
      BY <1>1, <2>1, SeqFacts
    <3> QED
      BY <1>1, <2>1, <3>1, Queues, SeqFacts
  <2>3. pump \notin {"new", "closed"} /\ (InParts \/ WithBackend)
    BY <1>2, <2>1 DEF BackendTakes, Phase, Fresh, NothingAsked, WithProxy, Rests
  <2>4. CASE InParts
    <3>1. /\ Head(backend.in).type \in {"P", "E"}
          /\ \A i \in 1..(n - 1) : backend.in[i + 1].type \in {"P", "E"}
      BY <2>1, <2>2, <2>4 DEF InParts
    <3>2. backend'.at = "batch"
      BY <2>1, <3>1
    <3>3. InParts'
      BY <2>1, <2>2, <2>4, <3>1, <3>2 DEF InParts
    <3> QED
      BY <2>1, <2>3, <3>3 DEF Phase
  <2>5. CASE WithBackend
    <3>1. /\ backend.in[n].type \in {"Q", "S"} /\ backend.out = <<>>
          /\ \A i \in 1..(n - 1) : backend.in[i].type \in {"P", "E"}
      BY <2>1, <2>5 DEF WithBackend
    <3>2. CASE n = 1
      <4>1. backend'.at = "executing" /\ backend'.in = <<>>
        BY <2>1, <2>2, <3>1, <3>2
      <4>2. WithBackend'
        BY <2>1, <2>5, <3>1, <4>1 DEF WithBackend
      <4> QED
        BY <2>1, <2>3, <4>2 DEF Phase
    <3>3. CASE n # 1
      <4>1. 1 \in 1..(n - 1) /\ n - 1 \in 1..(n - 1) /\ (n - 1) + 1 = n
        BY <2>2, <3>3
      <4>2. backend'.at = "batch" /\ backend'.in # <<>>
        BY <2>1, <2>2, <3>1, <3>3, <4>1
      <4>3. Tail(backend.in)[n - 1].type \in {"Q", "S"}
        BY <2>2, <3>1, <4>1
      <4>4. \A i \in 1..((n - 1) - 1) : Tail(backend.in)[i].type \in {"P", "E"}
        BY <2>2, <3>1
      <4>5. /\ backend'.in[Len(backend'.in)].type \in {"Q", "S"}
            /\ \A i \in 1..(Len(backend'.in) - 1) : backend'.in[i].type \in {"P", "E"}
        BY <2>1, <2>2, <4>3, <4>4
      <4>6. WithBackend'
        BY <2>1, <2>5, <3>1, <4>2, <4>5 DEF WithBackend
      <4> QED
        BY <2>1, <2>3, <4>6 DEF Phase
    <3> QED
      BY <3>2, <3>3
  <2> QED
    BY <2>3, <2>4, <2>5
<1>3. CASE BackendDies
  <2>1. /\ backend'.at = "dead" /\ backend'.in = <<>> /\ backend'.out = backend.out
        /\ backend'.status = backend.status
    BY <1>1, <1>3 DEF BackendDies, BackendStates
  <2> QED
    BY <1>3, <2>1
    DEF BackendDies, Phase, NothingAsked, WithProxy, InParts, WithBackend, Rests
<1>4. ASSUME NEW st \in TxStatus, BackendAnswers(st) PROVE Phase'
  <2>1. WithBackend /\ pump = "read" /\ backend.in = <<>> /\ backend.out = <<>>
    BY <1>4 DEF BackendAnswers, Phase, Fresh, NothingAsked, WithProxy, InParts,
                WithBackend, Rests
  <2>2. /\ backend'.at = "idle" /\ backend'.in = <<>> /\ backend'.status = st
        /\ backend'.out = <<st>>
    <3>1. Append(<<>>, st) = <<st>>
      OBVIOUS
    <3> QED
      BY <1>1, <1>4, <2>1, <3>1 DEF BackendAnswers, BackendStates
  <2>3. WithBackend'
    BY <1>4, <2>1, <2>2 DEF BackendAnswers, WithBackend
  <2> QED
    BY <1>4, <2>1, <2>3 DEF BackendAnswers, Phase
<1> QED
  BY <1>2, <1>3, <1>4

\* The client sends a statement or goes away.
LEMMA PhaseClient ==
  ASSUME RelayTypeOK, Phase, Client
  PROVE  Phase'
<1>1. CASE Leave
  <2>1. client'.at = "gone" /\ client'.seen = client.seen
    BY <1>1 DEF Leave, RelayTypeOK, ClientStates
  <2>2. Append(<<>>, [type |-> "X", kind |-> "sql"]) = Goodbye
    BY DEF Goodbye, Part
  <2>3. UNCHANGED <<pump, skip, txStatus, backend>> /\ client.at # "gone"
    BY <1>1 DEF Leave
  <2>4. client.at = "waiting" => inbox' = inbox
    BY <1>1 DEF Leave
  <2>5. CASE pump = "new"
    <3>1. client.at = "waiting"
      BY <2>3, <2>5 DEF Phase, Fresh, RelayTypeOK, ClientStates
    <3> QED
      BY <2>1, <2>3, <2>4, <2>5, <3>1 DEF Phase, Fresh
  <2>6. CASE NothingAsked
    <3>1. inbox' = <<>> \/ inbox' = Goodbye
      BY <1>1, <2>2, <2>6 DEF Leave, NothingAsked
    <3>2. NothingAsked'
      BY <2>1, <2>3, <2>6, <3>1 DEF NothingAsked, Rests
    <3> QED
      BY <2>3, <2>6, <3>2 DEF Phase, NothingAsked
  <2>7. CASE WithProxy
    <3>1. inbox' = inbox
      BY <2>3, <2>4, <2>7 DEF WithProxy, RelayTypeOK, ClientStates
    <3>2. WithProxy'
      BY <2>1, <2>3, <2>7, <3>1 DEF WithProxy, Rests
    <3> QED
      BY <2>3, <2>7, <3>2 DEF Phase, WithProxy, Executing
  <2>8. CASE InParts
    <3>1. inbox' = inbox
      BY <2>3, <2>4, <2>8 DEF InParts, RelayTypeOK, ClientStates
    <3>2. InParts'
      BY <2>1, <2>3, <2>8, <3>1 DEF InParts
    <3> QED
      BY <2>3, <2>8, <3>2 DEF Phase, InParts
  <2>9. CASE WithBackend
    <3>1. inbox' = inbox
      BY <2>3, <2>4, <2>9 DEF WithBackend, RelayTypeOK, ClientStates
    <3>2. WithBackend'
      BY <2>1, <2>3, <2>9, <3>1 DEF WithBackend
    <3> QED
      BY <2>3, <2>9, <3>2 DEF Phase, WithBackend
  <2> QED
    BY <2>3, <2>5, <2>6, <2>7, <2>8, <2>9 DEF Phase
<1>2. CASE AskCancel
  BY <1>2, PhaseFrame DEF AskCancel
<1>3. ASSUME NEW k \in Simple \cup Extended, Send(k) PROVE Phase'
  <2>1. /\ client'.at = "waiting" /\ client.at = "idle" /\ inbox' = Messages(k)
        /\ UNCHANGED <<pump, skip, txStatus, backend>>
    BY <1>3 DEF Send, RelayTypeOK, ClientStates
  <2>2. pump # "closed" => NothingAsked
    BY <2>1 DEF Phase, Fresh, WithProxy, InParts, WithBackend
  <2>3. CASE pump = "closed"
    BY <2>1, <2>3 DEF Phase
  <2>4. CASE NothingAsked /\ k \in Simple
    <3>1. inbox' = Query(k)
      BY <2>1, <2>4, MessagesAre
    <3>2. WithProxy'
      BY <2>1, <2>4, <3>1 DEF NothingAsked, WithProxy, Rests
    <3> QED
      BY <2>1, <2>4, <3>2 DEF Phase, NothingAsked
  <2>5. CASE NothingAsked /\ k = "parsedDpl"
    <3>1. WithProxy'
      BY <2>1, <2>5 DEF NothingAsked, WithProxy, Rests
    <3> QED
      BY <2>1, <2>5, <3>1 DEF Phase, NothingAsked
  <2>6. CASE NothingAsked /\ k = "parsed"
    <3>1. InParts'
      BY <2>1, <2>6, EmptySeq DEF NothingAsked, InParts, Rests
    <3> QED
      BY <2>1, <2>6, <3>1 DEF Phase, NothingAsked
  <2> QED
    BY <2>2, <2>3, <2>4, <2>5, <2>6 DEF Extended
<1> QED
  BY <1>1, <1>2, <1>3 DEF Client

LEMMA NextInv == RelayInv /\ [RelayNext]_relayVars => RelayInv'
<1> SUFFICES ASSUME RelayInv, [RelayNext]_relayVars PROVE RelayInv'
  OBVIOUS
<1>1. RelayTypeOK /\ RelayTypeOK'
  BY TypeStep DEF RelayInv
<1>2. CASE RelayNext
  <2>1. (RunIsPump /\ CancelIsCurrent /\ ChildHasSession /\ ForwardIsHarmless)'
    BY <1>1, <1>2, SideStep DEF RelayInv
  <2>2. Phase'
    <3> USE DEF RelayInv
    <3>1. CASE Client
      BY <3>1, PhaseClient
    <3>2. CASE PumpClient
      BY <3>2, PhasePump
    <3>3. CASE Thread
      BY <3>3, PhaseFrame DEF Thread, WriteBody, ThreadEnds
    <3>4. CASE PumpBackendStep
      BY <3>4, PhaseReplies
    <3>5. CASE ServeCancel
      BY <3>5, PhaseFrame DEF ServeCancel, CancelIntercepted, ForwardCancel, CloseCancel
    <3>6. CASE Environment
      <4>1. CASE CommandEnds
        <5>1. PICK got : /\ Finish(got) /\ pump \in Executing
                         /\ UNCHANGED <<inbox, skip, txStatus, backend>>
          BY <4>1 DEF CommandEnds, Executing
        <5>2. WithProxy /\ inbox = <<>> /\ ~skip
          BY <5>1 DEF Phase, NothingAsked, WithProxy, InParts, WithBackend, Executing
        <5> QED
          BY <1>1, <5>1, <5>2, PhaseAnswered DEF Finish
      <4>2. CASE AttachLost \/ CommandBreaks
        BY <4>2, PhaseClosed DEF AttachLost, CommandBreaks
      <4>3. CASE ChildPrints \/ ChildExits
        BY <4>3, PhaseFrame DEF ChildPrints, ChildExits
      <4>4. CASE BackendTakes \/ BackendDies \/ \E st \in TxStatus : BackendAnswers(st)
        BY <1>1, <4>4, PhaseBackend
      <4> QED
        BY <3>6, <4>1, <4>2, <4>3, <4>4 DEF Environment
    <3> QED
      BY <1>2, <3>1, <3>2, <3>3, <3>4, <3>5, <3>6 DEF RelayNext
  <2> QED
    BY <1>1, <2>1, <2>2 DEF RelayInv
<1>3. CASE UNCHANGED relayVars
  <2>1. Phase'
    BY <1>3, PhaseFrame DEF relayVars, RelayInv
  <2> QED
    BY <1>1, <1>3, <2>1
    DEF relayVars, RelayInv, RunIsPump, CancelIsCurrent, ChildHasSession,
        ForwardIsHarmless
<1> QED
  BY <1>2, <1>3

-----------------------------------------------------------------------------
(* The theorems.                                                           *)

\* In every state of a session (relay.py, _pump_client and _pump_backend) a
\* statement is with the proxy, on its way in parts, or with the backend, or
\* there is none; a run is active exactly while a pump executes (_try_dpl).
THEOREM RelayInvariant == RelaySpec => []RelayInv
<1>1. RelayInit => RelayInv
  BY InitInv
<1>2. RelayInv /\ [RelayNext]_relayVars => RelayInv'
  BY NextInv
<1> QED
  BY <1>1, <1>2, PTL DEF RelaySpec

\* The state of a session and of its child keeps its types: a byte of a message
\* is a status of a transaction only where _pump_backend takes it for one.
THEOREM RelayTypes == RelaySpec => []RelayTypeOK
<1>1. RelayInv => RelayTypeOK
  BY DEF RelayInv
<1> QED
  BY <1>1, RelayInvariant, PTL

\* A child runs only while the pump that started it streams its output
\* (commands.py, _run_child).
THEOREM ChildHasSessionHolds == RelaySpec => []ChildHasSession
<1>1. RelayInv => ChildHasSession
  BY DEF RelayInv
<1> QED
  BY <1>1, RelayInvariant, PTL

\* What a cancel request interrupts in the backend is what its client asked to
\* cancel (server.py, _forward_cancel).
THEOREM ForwardIsHarmlessHolds == RelaySpec => []ForwardIsHarmless
<1>1. RelayInv => ForwardIsHarmless
  BY DEF RelayInv
<1> QED
  BY <1>1, RelayInvariant, PTL

\* An idle client was told the true status of its transaction, and DPL executes
\* only when the backend is idle outside of one (relay.py, _try_dpl).
THEOREM StatusIsTrueHolds == RelaySpec => []StatusIsTrue
<1>1. ASSUME RelayInv PROVE StatusIsTrue
  <2> USE DEF RelayInv, Phase
  <2> SUFFICES ASSUME pump \notin {"new", "closed"}, backend.at # "dead"
               PROVE  /\ client.at = "idle" => client.seen = backend.status
                      /\ pump \in Executing =>
                           /\ backend.status = "I" /\ backend.at = "idle"
                           /\ backend.in = <<>>
    BY DEF StatusIsTrue
  <2>1. client.at = "idle" => client.seen = backend.status
    BY <1>1 DEF NothingAsked, WithProxy, InParts, WithBackend, Rests
  <2>2. pump \in Executing =>
          backend.status = "I" /\ backend.at = "idle" /\ backend.in = <<>>
    BY <1>1 DEF NothingAsked, WithProxy, InParts, WithBackend, Rests, Executing
  <2> QED
    BY <2>1, <2>2
<1> QED
  BY <1>1, RelayInvariant, PTL

\* A cancelled python block is never answered as one that was done (commands.py,
\* _run_python).
THEOREM CancelledIsNoResultHolds == RelaySpec => CancelledIsNoResult
<1>1. ASSUME RelayInv, [RelayNext]_relayVars,
             run.kind = "python", run.cancelled, client'.at = "idle"
      PROVE  client'.got # "result"
  <2>1. pump \in {"prepare", "stream"} /\ client.at # "idle" /\ backend.out = <<>>
    BY <1>1 DEF RelayInv, Phase, RunIsPump, NothingAsked, WithProxy, InParts,
                WithBackend, Rests
  <2>2. client'.at # client.at
    BY <1>1, <2>1
  <2>3. client \in ClientStates
    BY <1>1 DEF RelayInv, RelayTypeOK
  <2>4. ~CloseSession
    BY <1>1, <2>3 DEF CloseSession, ClientStates
  <2>5. \A got : Finish(got) => client'.got = got
    BY <2>3 DEF Finish, Answered, ClientStates
  <2>6. RelayNext
    BY <1>1, <2>2 DEF relayVars
  <2>7. ~Client
    BY <2>1, <2>2, <2>3, <1>1 DEF Client, Leave, AskCancel, Send, ClientStates
  <2>8. CASE PumpClient
    <3>1. StreamEnds
      BY <2>1, <2>2, <2>4, <2>8, <1>1
      DEF PumpClient, OpenBackend, BackendUnreachable, ReadEnd, Swallow, RefuseParse,
          Forward, ReadTerminate, RefuseQuery, Intercept, AttachCancelled, Spawn,
          StreamLine, StreamBreaks, Read, Reads
    <3> QED
      BY <1>1, <2>5, <3>1 DEF StreamEnds
  <2>9. ~Thread /\ ~ServeCancel /\ ~PumpBackendStep
    BY <2>1, <2>2, <2>4
    DEF Thread, WriteBody, ThreadEnds, ServeCancel, CancelIntercepted, ForwardCancel,
        CloseCancel, PumpBackendStep, PumpBackend, PumpBackendEnds
  <2>10. CASE Environment
    <3>1. CommandEnds
      BY <2>2, <2>4, <2>10
      DEF Environment, AttachLost, CommandBreaks, ChildPrints, ChildExits,
          BackendTakes, BackendDies,
          BackendAnswers
    <3> QED
      BY <2>1, <2>5, <3>1 DEF CommandEnds
  <2> QED
    BY <2>6, <2>7, <2>8, <2>9, <2>10 DEF RelayNext
<1> QED
  BY <1>1, RelayInvariant, PTL DEF RelaySpec, CancelledIsNoResult

\* Of a statement only the last message is answered.
LEMMA OwedIs ==
  ASSUME NEW s \in Seq(Message)
  PROVE  /\ (\A i \in 1..Len(s) : s[i].type \notin {"Q", "S"}) => Owed(s) = 0
         /\ (/\ s # <<>> /\ s[Len(s)].type \in {"Q", "S"}
             /\ \A i \in 1..(Len(s) - 1) : s[i].type \in {"P", "E"}) => Owed(s) = 1
<1>1. DOMAIN s = 1..Len(s) /\ Len(s) \in Nat /\ (s # <<>> => Len(s) # 0)
  BY EmptySeq, LenProperties
<1>2. ASSUME \A i \in 1..Len(s) : s[i].type \notin {"Q", "S"} PROVE Owed(s) = 0
  <2>1. {i \in DOMAIN s : s[i].type \in {"Q", "S"}} = {}
    BY <1>1, <1>2
  <2> QED
    BY <2>1, FS_EmptySet DEF Owed
<1>3. ASSUME s # <<>>, s[Len(s)].type \in {"Q", "S"},
             \A i \in 1..(Len(s) - 1) : s[i].type \in {"P", "E"}
      PROVE  Owed(s) = 1
  <2> DEFINE n == Len(s)
  <2>1. n \in DOMAIN s /\ \A i \in DOMAIN s : i # n => i \in 1..(n - 1)
    BY <1>1, <1>3
  <2>2. \A i \in DOMAIN s : s[i].type \in {"Q", "S"} <=> i = n
    BY <1>3, <2>1
  <2>3. {i \in DOMAIN s : s[i].type \in {"Q", "S"}} = {n}
    BY <2>1, <2>2
  <2> QED
    BY <2>3, FS_Singleton DEF Owed
<1> QED
  BY <1>2, <1>3

LEMMA OwedLast ==
  ASSUME NEW s, s \in Seq(Message)
  PROVE  /\ Len(s) = 1 /\ s[1].type \in {"Q", "S"} => Owed(s) = 1
         /\ Len(s) = 2 /\ s[1].type = "E" /\ s[2].type = "S" => Owed(s) = 1
         /\ Len(s) = 3 /\ s[1].type = "P" /\ s[2].type = "E" /\ s[3].type = "S"
              => Owed(s) = 1
<1>0. Len(s) # 0 => s # <<>>
  BY EmptySeq
<1>1. ASSUME Len(s) = 1, s[1].type \in {"Q", "S"} PROVE Owed(s) = 1
  <2>1. s # <<>> /\ s[Len(s)].type \in {"Q", "S"} /\ 1..(Len(s) - 1) = {}
    BY <1>0, <1>1
  <2> QED
    BY <2>1, OwedIs
<1>2. ASSUME Len(s) = 2, s[1].type = "E", s[2].type = "S" PROVE Owed(s) = 1
  <2>1. s # <<>>
    BY <1>0, <1>2
  <2>2. s[Len(s)].type \in {"Q", "S"}
    BY <1>2
  <2>3. \A i \in 1..(Len(s) - 1) : s[i].type \in {"P", "E"}
    BY <1>2
  <2> QED
    BY <2>1, <2>2, <2>3, OwedIs
<1>3. ASSUME Len(s) = 3, s[1].type = "P", s[2].type = "E", s[3].type = "S"
      PROVE  Owed(s) = 1
  <2>1. s # <<>> /\ s[Len(s)].type \in {"Q", "S"} /\ 1..(Len(s) - 1) = {1, 2}
    BY <1>0, <1>3
  <2> QED
    BY <1>3, <2>1, OwedIs
<1> QED
  BY <1>1, <1>2, <1>3

\* What is left of a statement in the inbox is owed one reply.
LEMMA OwedInbox ==
  /\ Owed(<<>>) = 0
  /\ \A k \in Simple : Owed(Query(k)) = 1
  /\ \A k \in Extended : /\ Owed(Messages(k)) = 1
                         /\ Owed(<<Part("E", k), Part("S", k)>>) = 1
                         /\ Owed(<<Part("S", k)>>) = 1
<1>1. Owed(<<>>) = 0
  <2>1. {i \in DOMAIN <<>> : <<>>[i].type \in {"Q", "S"}} = {}
    OBVIOUS
  <2> QED
    BY <2>1, FS_EmptySet DEF Owed
<1>2. ASSUME NEW k \in Simple PROVE Owed(Query(k)) = 1
  <2>1. Part("Q", k) \in Message /\ Query(k) = <<Part("Q", k)>>
    BY DEF Part, Message, Types, Query
  <2>2. ASSUME NEW x \in Message, x.type = "Q" PROVE Owed(<<x>>) = 1
    <3> DEFINE one == <<x>>
    <3>1. one \in Seq(Message) /\ Len(one) = 1 /\ one[1] = x
      BY SeqFacts
    <3> HIDE DEF one
    <3>2. Owed(one) = 1
      BY <2>2, <3>1, OwedLast
    <3> QED
      BY <3>2 DEF one
  <2> QED
    BY <2>1, <2>2 DEF Part
<1>3. ASSUME NEW k \in Extended
      PROVE  /\ Owed(Messages(k)) = 1
             /\ Owed(<<Part("E", k), Part("S", k)>>) = 1
             /\ Owed(<<Part("S", k)>>) = 1
  <2> DEFINE p == Part("P", k)
             e == Part("E", k)
             s == Part("S", k)
  <2>1. /\ p \in Message /\ e \in Message /\ s \in Message
        /\ p.type = "P" /\ e.type = "E" /\ s.type = "S"
    BY DEF Part, Message, Types
  <2>2. Messages(k) = <<p, e, s>>
    BY MessagesAre
  <2> HIDE DEF p, e, s
  <2>3. Owed(<<p, e, s>>) = 1
    <3> DEFINE three == <<p, e, s>>
    <3>1. /\ three \in Seq(Message) /\ Len(three) = 3
          /\ three[1] = p /\ three[2] = e /\ three[3] = s
      BY <2>1, SeqFacts
    <3> HIDE DEF three
    <3>2. Owed(three) = 1
      BY <2>1, <3>1, OwedLast
    <3> QED
      BY <3>2 DEF three
  <2>4. Owed(<<e, s>>) = 1
    <3> DEFINE two == <<e, s>>
    <3>1. two \in Seq(Message) /\ Len(two) = 2 /\ two[1] = e /\ two[2] = s
      BY <2>1, SeqFacts
    <3> HIDE DEF two
    <3>2. Owed(two) = 1
      BY <2>1, <3>1, OwedLast
    <3> QED
      BY <3>2 DEF two
  <2>5. Owed(<<s>>) = 1
    <3> DEFINE one == <<s>>
    <3>1. one \in Seq(Message) /\ Len(one) = 1 /\ one[1] = s
      BY <2>1, SeqFacts
    <3> HIDE DEF one
    <3>2. Owed(one) = 1
      BY <2>1, <3>1, OwedLast
    <3> QED
      BY <3>2 DEF one
  <2> QED
    BY <2>2, <2>3, <2>4, <2>5 DEF e, s
<1> QED
  BY <1>1, <1>2, <1>3

\* A waiting client is owed exactly one ReadyForQuery, and one that does not
\* wait none (relay.py, _pump_client, _finish; pgwire.py, ready_for_query).
THEOREM OneReplyOwedHolds == RelaySpec => []OneReplyOwed
<1> DEFINE outs == {i \in DOMAIN backend.out : backend.out[i] # "K"}
<1>1. ASSUME RelayInv PROVE OneReplyOwed
  <2> SUFFICES ASSUME pump \notin {"new", "closed"}, backend.at # "dead",
                      client.at # "gone"
               PROVE  Replies = (IF client.at = "waiting" THEN 1 ELSE 0)
    BY DEF OneReplyOwed
  <2>1. client \in ClientStates /\ backend.in \in Seq(Message)
        /\ backend.status \in TxStatus
    BY <1>1, BackendUpdates DEF RelayInv, RelayTypeOK
  <2>2. client.at \in {"idle", "waiting"}
    BY <2>1 DEF ClientStates
  <2>3. backend.out = <<>> => Cardinality(outs) = 0
    <3>1. backend.out = <<>> => outs = {}
      BY EmptySeq
    <3> QED
      BY <3>1, FS_EmptySet
  <2>4. Owed(<<>>) = 0
    BY OwedInbox
  <2>5. CASE NothingAsked
    BY <2>2, <2>3, <2>4, <2>5 DEF NothingAsked, Rests, Replies, Executing
  <2>6. CASE WithProxy
    <3>1. Owed(inbox) + (IF pump \in Executing THEN 1 ELSE 0) = 1
      BY <2>4, <2>6, OwedInbox DEF WithProxy, Executing, Extended
    <3>2. Owed(backend.in) = 0 /\ backend.at # "executing" /\ Cardinality(outs) = 0
      BY <2>3, <2>4, <2>6 DEF WithProxy, Rests
    <3>3. client.at = "waiting"
      BY <2>2, <2>6 DEF WithProxy
    <3> QED
      BY <3>1, <3>2, <3>3 DEF Replies
  <2>7. CASE InParts
    <3>1. Owed(inbox) = 1 /\ pump \notin Executing
      BY <2>7, OwedInbox DEF InParts, Executing, Extended
    <3>2. Owed(backend.in) = 0 /\ backend.at # "executing" /\ Cardinality(outs) = 0
      BY <2>1, <2>3, <2>7, OwedIs DEF InParts
    <3> QED
      BY <2>2, <2>7, <3>1, <3>2 DEF Replies, InParts
  <2>8. CASE WithBackend
    <3>1. Owed(inbox) = 0 /\ pump \notin Executing /\ client.at = "waiting"
      BY <2>2, <2>4, <2>8 DEF WithBackend, Executing
    <3>2. CASE /\ backend.at \in {"idle", "batch"} /\ backend.out = <<>>
               /\ backend.in # <<>> /\ backend.in[Len(backend.in)].type \in {"Q", "S"}
               /\ \A i \in 1..(Len(backend.in) - 1) : backend.in[i].type \in {"P", "E"}
      <4>1. Owed(backend.in) = 1 /\ Cardinality(outs) = 0
        BY <2>1, <2>3, <3>2, OwedIs
      <4> QED
        BY <3>1, <3>2, <4>1 DEF Replies
    <3>3. CASE backend.at = "executing" /\ backend.in = <<>> /\ backend.out = <<>>
      BY <2>3, <2>4, <3>1, <3>3 DEF Replies
    <3>4. CASE /\ backend.at = "idle" /\ backend.in = <<>>
               /\ \/ backend.out = <<backend.status>>
                  \/ backend.out = <<"K", "I">>
      <4>1. CASE backend.out = <<backend.status>>
        <5>1. outs = {1}
          BY <2>1, <4>1 DEF TxStatus
        <5>2. Cardinality(outs) = 1
          BY <5>1, FS_Singleton
        <5> QED
          BY <2>4, <3>1, <3>4, <5>2 DEF Replies
      <4>2. CASE backend.out = <<"K", "I">>
        <5>1. outs = {2}
          BY <4>2
        <5>2. Cardinality(outs) = 1
          BY <5>1, FS_Singleton
        <5> QED
          BY <2>4, <3>1, <3>4, <5>2 DEF Replies
      <4> QED
        BY <3>4, <4>1, <4>2
    <3> QED
      BY <2>8, <3>2, <3>3, <3>4 DEF WithBackend
  <2> QED
    BY <1>1, <2>5, <2>6, <2>7, <2>8 DEF RelayInv, Phase
<1> QED
  BY <1>1, RelayInvariant, PTL
=============================================================================
