------------------------------- MODULE Relay -------------------------------
(***************************************************************************)
(* One session through the proxy (server.py, relay.py, pgwire.py): two     *)
(* pumps carry messages between a client and its PostgreSQL backend, and   *)
(* the pump of the client executes DPL statements itself: a quick command, *)
(* a python block in a child process (commands.py), an attach.  A second   *)
(* connection brings a CancelRequest.  The client does not pipeline: it    *)
(* sends a statement when the one before is answered and a cancel it asked *)
(* for is over, as libpq's cancel functions do.                            *)
(***************************************************************************)
EXTENDS Naturals, Sequences, FiniteSets

CONSTANTS MaxStatement, MaxLine, MaxCancel \* statements, printed lines, cancels

ASSUME RelayAssumption ==
  MaxStatement \in Nat /\ MaxLine \in Nat /\ MaxCancel \in Nat

\* Statements: SQL and three kinds of DPL in a Query message; SQL and DPL in
\* the extended protocol, as Parse, the rest (E) and Sync.
DplKinds  == {"dpl", "python", "attach"}
Simple    == DplKinds \cup {"sql"}
Extended  == {"parsed", "parsedDpl"}
Types     == {"Q", "P", "E", "S", "X"}
Message   == [type : Types, kind : Simple \cup Extended]
Messages(k) ==
  [i \in 1..(IF k \in Simple THEN 1 ELSE 3) |->
     [type |-> IF k \in Simple THEN "Q" ELSE <<"P", "E", "S">>[i], kind |-> k]]
TxStatus == {"I", "T", "E"}

VARIABLES client,     \* what the client does, its statements, what it was told
          inbox,      \* messages from the client the proxy has not read
          pump,       \* where _pump_client stands
          skip,       \* skip_until_sync
          txStatus,   \* tx_status
          run,        \* active_run and its cancelled
          child, thread, lines,  \* the child, its pump thread, their queue
          backend,    \* the backend: its transaction, its work, its messages
          registered, \* the key of the session is in the registry
          cancel,     \* the CancelRequest under way
          cancels

relayVars == <<client, inbox, pump, skip, txStatus, run, child, thread, lines,
               backend, registered, cancel, cancels>>

Executing == {"command", "prepare", "stream", "attach"}
ChildEnds == {"exited", "crashed", "killed"}
NoRun     == [kind |-> "none", cancelled |-> FALSE]
NoCancel  == [at |-> "none", open |-> FALSE, n |-> 0, hit |-> 0]

ClientStates  == [at : {"idle", "waiting", "gone"}, n : 0..MaxStatement,
                  seen : TxStatus, got : {"none", "result", "error", "canceled"}]
BackendStates == [status : TxStatus, at : {"idle", "batch", "executing", "dead"},
                  in : Seq(Message), out : Seq({"K"} \cup TxStatus)]
RunStates     == [kind : DplKinds \cup {"none"}, cancelled : BOOLEAN]
CancelStates  == [at : {"none", "asked", "forward", "closing"}, open : BOOLEAN,
                  n : 0..MaxStatement, hit : 0..MaxStatement]

RelayTypeOK ==
  /\ client \in ClientStates /\ inbox \in Seq(Message)
  /\ pump \in Executing \cup {"new", "read", "closed"}
  /\ skip \in BOOLEAN /\ txStatus \in TxStatus /\ run \in RunStates
  /\ child \in ChildEnds \cup {"none", "spawned", "running"}
  /\ thread \in {"none", "write", "read", "ended", "broken"}
  /\ lines \in 0..MaxLine
  /\ backend \in BackendStates /\ registered \in BOOLEAN
  /\ cancel \in CancelStates /\ cancels \in 0..MaxCancel

RelayInit ==
  /\ client = [at |-> "waiting", n |-> 0, seen |-> "I", got |-> "none"]
  /\ inbox = <<>> /\ pump = "new" /\ skip = FALSE /\ txStatus = "I"
  /\ run = NoRun /\ child = "none" /\ thread = "none" /\ lines = 0
  /\ backend = [status |-> "I", at |-> "idle", in |-> <<>>, out |-> <<>>]
  /\ registered = FALSE /\ cancel = NoCancel /\ cancels = 0

-----------------------------------------------------------------------------
(* The client.                                                             *)

Send(k) ==
  /\ client.at = "idle" /\ ~cancel.open /\ client.n < MaxStatement
  /\ client' = [client EXCEPT !.at = "waiting", !.n = @ + 1, !.got = "none"]
  /\ inbox' = Messages(k)
  /\ UNCHANGED <<pump, skip, txStatus, run, child, thread, lines, backend,
                 registered, cancel, cancels>>

\* The connection breaks, or is closed, with a Terminate if the client is idle.
Leave ==
  /\ client.at # "gone"
  /\ client' = [client EXCEPT !.at = "gone"]
  /\ inbox' \in {inbox, Append(inbox, [type |-> "X", kind |-> "sql"])}
  /\ client.at = "waiting" => inbox' = inbox
  /\ UNCHANGED <<pump, skip, txStatus, run, child, thread, lines, backend,
                 registered, cancel, cancels>>

-----------------------------------------------------------------------------
(* The end of a session, and replies.                                      *)

\* Mutant: a cancelled _run_child leaves its child alone.
MutCloseSession ==
  /\ pump' = "closed" /\ run' = NoRun /\ registered' = FALSE
  /\ client' = [client EXCEPT !.at = "gone"]
  /\ backend' = [backend EXCEPT !.at = "dead"]
  /\ UNCHANGED <<inbox, skip, txStatus, child, thread, lines, cancel, cancels>>

\* One pump has ended, the other one is cancelled: whatever it awaits in
\* _run_child ends with a kill.  The key leaves the registry.
CloseSession ==
  /\ pump' = "closed" /\ run' = NoRun /\ registered' = FALSE
  /\ child' = IF child \in {"spawned", "running"} THEN "killed" ELSE child
  /\ client' = [client EXCEPT !.at = "gone"]
  /\ backend' = [backend EXCEPT !.at = "dead"]
  /\ UNCHANGED <<inbox, skip, txStatus, thread, lines, cancel, cancels>>

\* A ReadyForQuery with status st reaches the client.
Answered(st, got) ==
  [client EXCEPT !.at = IF @ = "waiting" THEN "idle" ELSE @,
                 !.seen = st, !.got = got]

\* _finish: the answer of an intercepted statement.
Finish(got) ==
  /\ client' = Answered(txStatus, got)
  /\ pump' = "read" /\ run' = NoRun
  /\ child' = "none" /\ thread' = "none" /\ lines' = 0

-----------------------------------------------------------------------------
(* The pumps.                                                              *)

OpenBackend ==
  /\ pump = "new"
  /\ pump' = "read"
  /\ backend' = [backend EXCEPT !.out = <<"K", "I">>]
  /\ UNCHANGED <<client, inbox, skip, txStatus, run, child, thread, lines,
                 registered, cancel, cancels>>

BackendUnreachable == pump = "new" /\ CloseSession

\* Mutant: the first byte of every message is taken for a status.
MutPumpBackend ==
  /\ pump \notin {"new", "closed"} /\ backend.out # <<>>
  /\ LET msg == Head(backend.out)
     IN  /\ registered' = (registered \/ msg = "K")
         /\ txStatus' = msg
         /\ client' = IF msg = "K" THEN client ELSE Answered(msg, "result")
  /\ backend' = [backend EXCEPT !.out = Tail(@)]
  /\ UNCHANGED <<inbox, pump, skip, run, child, thread, lines, cancel, cancels>>

\* _pump_backend: BackendKeyData is remembered in the registry, the status of
\* the transaction in the session, and the message goes on to the client.
PumpBackend ==
  /\ pump \notin {"new", "closed"} /\ backend.out # <<>>
  /\ LET msg == Head(backend.out)
     IN  /\ registered' = (registered \/ msg = "K")
         /\ txStatus' = IF msg = "K" THEN txStatus ELSE msg
         /\ client' = IF msg = "K" THEN client ELSE Answered(msg, "result")
  /\ backend' = [backend EXCEPT !.out = Tail(@)]
  /\ UNCHANGED <<inbox, pump, skip, run, child, thread, lines, cancel, cancels>>

\* The write to a client that is gone fails, or the backend has closed.
PumpBackendEnds ==
  /\ pump \notin {"new", "closed"}
  /\ IF backend.out # <<>> THEN client.at = "gone" ELSE backend.at = "dead"
  /\ CloseSession

Reads == pump = "read" /\ inbox # <<>>
Read(type) == Reads /\ Head(inbox).type = type /\ inbox' = Tail(inbox)

\* The end of the stream.
ReadEnd == pump = "read" /\ inbox = <<>> /\ client.at = "gone" /\ CloseSession

\* Mutant: the Sync that ends the swallowing goes on to the backend as well.
MutSwallow ==
  /\ skip /\ \E t \in {"P", "E", "S"} : Read(t)
  /\ skip' = (Head(inbox).type # "S")
  /\ client' = IF skip' THEN client ELSE Answered(txStatus, "error")
  /\ backend' = IF skip' THEN backend
                ELSE [backend EXCEPT !.in = Append(@, Head(inbox))]
  /\ UNCHANGED <<pump, txStatus, run, child, thread, lines, registered, cancel,
                 cancels>>

\* After a refused Parse all is swallowed up to the Sync, which is answered.
Swallow ==
  /\ skip /\ \E t \in {"P", "E", "S"} : Read(t)
  /\ skip' = (Head(inbox).type # "S")
  /\ client' = IF skip' THEN client ELSE Answered(txStatus, "error")
  /\ UNCHANGED <<pump, txStatus, run, child, thread, lines, backend, registered,
                 cancel, cancels>>

RefuseParse ==
  /\ ~skip /\ Read("P") /\ Head(inbox).kind = "parsedDpl"
  /\ skip' = TRUE
  /\ UNCHANGED <<client, pump, txStatus, run, child, thread, lines, backend,
                 registered, cancel, cancels>>

\* What is not DPL goes on as it is.
Forward ==
  /\ ~skip /\ Reads
  /\ Head(inbox).kind \notin DplKinds
  /\ Head(inbox).type = "P" => Head(inbox).kind # "parsedDpl"
  /\ Head(inbox).type # "X"
  /\ inbox' = Tail(inbox)
  /\ backend' = [backend EXCEPT !.in = Append(@, Head(inbox))]
  /\ UNCHANGED <<client, pump, skip, txStatus, run, child, thread, lines,
                 registered, cancel, cancels>>

ReadTerminate == Reads /\ Head(inbox).type = "X" /\ CloseSession

\* _try_dpl: a transaction is open, or the text does not parse.
RefuseQuery ==
  /\ ~skip /\ Read("Q") /\ Head(inbox).kind \in DplKinds
  /\ Finish("error")
  /\ UNCHANGED <<skip, txStatus, backend, registered, cancel, cancels>>

\* Mutant: transactions are not asked for.
MutIntercept ==
  /\ ~skip /\ Read("Q") /\ Head(inbox).kind \in DplKinds
  /\ run' = [kind |-> Head(inbox).kind, cancelled |-> FALSE]
  /\ pump' = CASE Head(inbox).kind = "python" -> "prepare"
               [] Head(inbox).kind = "attach" -> "attach"
               [] OTHER -> "command"
  /\ UNCHANGED <<client, skip, txStatus, child, thread, lines, backend,
                 registered, cancel, cancels>>

Intercept ==
  /\ ~skip /\ Read("Q") /\ Head(inbox).kind \in DplKinds
  /\ txStatus = "I"
  /\ run' = [kind |-> Head(inbox).kind, cancelled |-> FALSE]
  /\ pump' = CASE Head(inbox).kind = "python" -> "prepare"
               [] Head(inbox).kind = "attach" -> "attach"
               [] OTHER -> "command"
  /\ UNCHANGED <<client, skip, txStatus, child, thread, lines, backend,
                 registered, cancel, cancels>>

\* A command ends, with its own and every unforeseen exception answered; so may
\* the reads before the start of a child, and an attach whose build is no longer
\* active.
CommandEnds ==
  /\ \/ pump = "command" /\ \E got \in {"result", "error"} : Finish(got)
     \/ pump = "prepare" /\ Finish("error")
     \/ pump = "attach" /\ \E got \in {"result", "error"} : Finish(got)
  /\ UNCHANGED <<inbox, skip, txStatus, backend, registered, cancel, cancels>>

\* An OSError of the command itself, of a child that does not start, say: it is
\* taken for one of the client's connection.
CommandBreaks == pump \in {"command", "prepare"} /\ CloseSession

\* attach: the next poll after the cancel.
AttachCancelled ==
  /\ pump = "attach" /\ run.cancelled
  /\ Finish("canceled")
  /\ UNCHANGED <<inbox, skip, txStatus, backend, registered, cancel, cancels>>

\* A row of the journal finds the client gone.
AttachLost == pump = "attach" /\ client.at = "gone" /\ CloseSession

-----------------------------------------------------------------------------
(* _run_child.                                                             *)

\* Mutant: a cancel that came before the start is forgotten.
MutSpawn ==
  /\ pump = "prepare"
  /\ pump' = "stream" /\ child' = "spawned" /\ thread' = "write"
  /\ UNCHANGED <<client, inbox, skip, txStatus, run, lines, backend, registered,
                 cancel, cancels>>

Spawn ==
  /\ pump = "prepare"
  /\ pump' = "stream" /\ thread' = "write"
  /\ child' = IF run.cancelled THEN "killed" ELSE "spawned"
  /\ UNCHANGED <<client, inbox, skip, txStatus, run, lines, backend, registered,
                 cancel, cancels>>

\* The thread writes the body.  A dead child has closed its end of the pipe,
\* if the kill has arrived: the write fails.
WriteBody ==
  /\ thread = "write" /\ pump # "closed"
  /\ \/ thread' = "read"
     \/ thread' = "broken" /\ child \in ChildEnds
  /\ child' = IF child = "spawned" THEN "running" ELSE child
  /\ UNCHANGED <<client, inbox, pump, skip, txStatus, run, lines, backend,
                 registered, cancel, cancels>>

ChildPrints ==
  /\ child = "running" /\ thread = "read" /\ lines < MaxLine
  /\ lines' = lines + 1
  /\ UNCHANGED <<client, inbox, pump, skip, txStatus, run, child, thread,
                 backend, registered, cancel, cancels>>

ChildExits ==
  /\ \/ child = "running" /\ child' \in {"exited", "crashed"}
     \/ child = "spawned" /\ child' = "crashed"
  /\ UNCHANGED <<client, inbox, pump, skip, txStatus, run, thread, lines,
                 backend, registered, cancel, cancels>>

\* The end of the output.
ThreadEnds ==
  /\ thread = "read" /\ child \in ChildEnds /\ pump # "closed"
  /\ thread' = "ended"
  /\ UNCHANGED <<client, inbox, pump, skip, txStatus, run, child, lines,
                 backend, registered, cancel, cancels>>

\* A line goes to the client; the write may fail if the client is gone.
StreamLine ==
  /\ pump = "stream" /\ lines > 0
  /\ \/ /\ lines' = lines - 1
        /\ UNCHANGED <<client, inbox, pump, skip, txStatus, run, child, thread,
                       backend, registered, cancel, cancels>>
     \/ client.at = "gone" /\ CloseSession

\* Mutant: the exit code is looked at before the cancel.
MutStreamEnds ==
  /\ pump = "stream" /\ lines = 0 /\ thread = "ended"
  /\ Finish(IF child = "exited" THEN "result"
            ELSE IF run.cancelled THEN "canceled" ELSE "error")
  /\ UNCHANGED <<inbox, skip, txStatus, backend, registered, cancel, cancels>>

StreamEnds ==
  /\ pump = "stream" /\ lines = 0 /\ thread = "ended"
  /\ Finish(IF run.cancelled THEN "canceled"
            ELSE IF child = "exited" THEN "result" ELSE "error")
  /\ UNCHANGED <<inbox, skip, txStatus, backend, registered, cancel, cancels>>

\* The error of the write is taken for one of the client's connection.
StreamBreaks == pump = "stream" /\ lines = 0 /\ thread = "broken" /\ CloseSession

-----------------------------------------------------------------------------
(* The backend, as PostgreSQL behaves here: a ReadyForQuery for each Query  *)
(* and each Sync.                                                           *)

BackendTakes ==
  /\ backend.at \in {"idle", "batch"} /\ backend.in # <<>>
  /\ backend' = [backend EXCEPT !.in = Tail(@),
                   !.at = IF Head(backend.in).type \in {"Q", "S"} THEN "executing"
                          ELSE "batch"]
  /\ UNCHANGED <<client, inbox, pump, skip, txStatus, run, child, thread, lines,
                 registered, cancel, cancels>>

BackendAnswers(st) ==
  /\ backend.at = "executing"
  /\ backend' = [backend EXCEPT !.at = "idle", !.status = st,
                                !.out = Append(@, st)]
  /\ UNCHANGED <<client, inbox, pump, skip, txStatus, run, child, thread, lines,
                 registered, cancel, cancels>>

BackendDies ==
  /\ pump \notin {"new", "closed"} /\ backend.at # "dead"
  /\ backend' = [backend EXCEPT !.at = "dead", !.in = <<>>]
  /\ UNCHANGED <<client, inbox, pump, skip, txStatus, run, child, thread, lines,
                 registered, cancel, cancels>>

-----------------------------------------------------------------------------
(* A CancelRequest, on a connection of its own.                            *)

AskCancel ==
  /\ registered /\ client.at # "gone"
  /\ cancel.at = "none" /\ cancels < MaxCancel /\ cancels' = cancels + 1
  /\ cancel' = [at |-> "asked", open |-> TRUE, n |-> client.n, hit |-> 0]
  /\ UNCHANGED <<client, inbox, pump, skip, txStatus, run, child, thread, lines,
                 backend, registered>>

\* _cancel_intercepted: a python block loses its child, an attach wakes up.
CancelIntercepted ==
  /\ cancel.at = "asked"
  /\ cancel' = [cancel EXCEPT !.at = "forward"]
  /\ LET hits == registered /\ run.kind \in {"python", "attach"}
     IN  /\ run' = [run EXCEPT !.cancelled = @ \/ hits]
         /\ child' = IF hits /\ child \in {"spawned", "running"} THEN "killed"
                     ELSE child
  /\ UNCHANGED <<client, inbox, pump, skip, txStatus, thread, lines, backend,
                 registered, cancels>>

\* _forward_cancel: the backend interrupts what it is at, if anything; or the
\* request is lost.
ForwardCancel ==
  /\ cancel.at = "forward"
  /\ cancel' \in {[cancel EXCEPT !.at = "closing", !.hit = h] :
                    h \in {0} \cup (IF backend.at \in {"batch", "executing"}
                                    THEN {client.n} ELSE {})}
  /\ UNCHANGED <<client, inbox, pump, skip, txStatus, run, child, thread, lines,
                 backend, registered, cancels>>

\* Mutant: the client need not wait for the forward.
MutCloseCancel ==
  /\ cancel.at \in {"forward", "closing"} /\ cancel.open
  /\ cancel' = IF cancel.at = "closing" THEN NoCancel
               ELSE [cancel EXCEPT !.open = FALSE]
  /\ UNCHANGED <<client, inbox, pump, skip, txStatus, run, child, thread, lines,
                 backend, registered, cancels>>

CloseCancel ==
  /\ cancel.at = "closing"
  /\ cancel' = NoCancel
  /\ UNCHANGED <<client, inbox, pump, skip, txStatus, run, child, thread, lines,
                 backend, registered, cancels>>

-----------------------------------------------------------------------------
Client == Leave \/ AskCancel \/ \E k \in Simple \cup Extended : Send(k)

\* Steps of the proxy that wait for nothing but its own loop, the catalog and
\* the journal.
PumpClient ==
  \/ OpenBackend \/ BackendUnreachable
  \/ ReadEnd \/ Swallow \/ RefuseParse \/ Forward \/ ReadTerminate
  \/ RefuseQuery \/ Intercept \/ AttachCancelled
  \/ Spawn \/ StreamLine \/ StreamEnds \/ StreamBreaks
Thread == WriteBody \/ ThreadEnds
PumpBackendStep == PumpBackend \/ PumpBackendEnds
ServeCancel == CancelIntercepted \/ ForwardCancel \/ CloseCancel

Environment ==
  \/ CommandEnds \/ CommandBreaks \/ AttachLost \/ ChildPrints \/ ChildExits
  \/ BackendTakes \/ BackendDies \/ \E st \in TxStatus : BackendAnswers(st)

RelayNext ==
  Client \/ PumpClient \/ Thread \/ PumpBackendStep \/ ServeCancel \/ Environment

RelaySpec == RelayInit /\ [][RelayNext]_relayVars

\* Nothing bounds a body or a command: their ends are not fair.
RelayFairSpec ==
  /\ RelaySpec
  /\ WF_relayVars(PumpClient) /\ WF_relayVars(Thread)
  /\ WF_relayVars(PumpBackendStep) /\ WF_relayVars(ServeCancel)

-----------------------------------------------------------------------------
(* Properties.                                                             *)

\* Every statement is answered once (_pump_client, _finish, skip_until_sync):
\* for a client that waits exactly one ReadyForQuery is under way or to be
\* made, for one that does not wait there is none.
Owed(msgs) == Cardinality({i \in DOMAIN msgs : msgs[i].type \in {"Q", "S"}})
Replies ==
  Owed(inbox) + (IF pump \in Executing THEN 1 ELSE 0)
  + Owed(backend.in) + (IF backend.at = "executing" THEN 1 ELSE 0)
  + Cardinality({i \in DOMAIN backend.out : backend.out[i] # "K"})
OneReplyOwed ==
  pump \notin {"new", "closed"} /\ backend.at # "dead" /\ client.at # "gone" =>
    Replies = (IF client.at = "waiting" THEN 1 ELSE 0)

\* A client that may send knows the state of its transaction, and DPL is
\* executed only outside of one, by a session whose backend does nothing
\* (_try_dpl): the command runs on another connection.
StatusIsTrue ==
  pump \notin {"new", "closed"} /\ backend.at # "dead" =>
    /\ client.at = "idle" => client.seen = backend.status
    /\ pump \in Executing =>
         backend.status = "I" /\ backend.at = "idle" /\ backend.in = <<>>

\* A cancel interrupts no later statement (_handle, _forward_cancel): what the
\* backend is at when the request arrives is what its client asked to cancel.
ForwardIsHarmless == cancel.hit \in {0, cancel.n}

\* A child never outlives its session (_run_child): it runs only as long as
\* the pump that started it streams its output.
ChildHasSession == child \in {"spawned", "running"} => pump = "stream"

\* A cancelled python block is never answered as one that was done.
CancelledIsNoResult ==
  [][run.kind = "python" /\ run.cancelled /\ client'.at = "idle"
       => client'.got # "result"]_relayVars

\* An accepted cancel ends the command, in whatever state it found it.
CancelEnds == run.cancelled ~> ~run.cancelled

\* docs/architecture.md, docs/protocol.md: a client that goes away kills the
\* child of its python block.
GoneKillsChild == client.at = "gone" ~> child \notin {"spawned", "running"}
=============================================================================
