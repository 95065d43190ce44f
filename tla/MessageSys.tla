---------------------------- MODULE MessageSys ----------------------------
(***************************************************************************)
(* The message system from end to end: the queue and the typemethod of the *)
(* sender's MsgDelivery, the TCPChannel it creates for every message it    *)
(* sends directly, the ksapi client it uses for the others, the connection, *)
(* and the channel, client handler and inbox on the receiver's side.  The  *)
(* objects of both servers are executed by their communication tasks in    *)
(* any order; an action is one execution of one object.  A message is cut  *)
(* into parts by the network; how long anything takes is left open, so any *)
(* time-out may come before or after what it waits for.                    *)
(***************************************************************************)
EXTENDS Naturals, Sequences, SequencesExt

CONSTANTS
    Msgs,             \* the messages given to sendMessage
    Parts,            \* into how many pieces a message may be cut (bound)
    TagParts,         \* how many of them hold the tag "<msg hdrL=. bdyL=.>"
    Null

ASSUME PartsAssumption == Parts \in Nat /\ TagParts \in 1..Parts
ASSUME NullAssumption == Null \notin Msgs

VARIABLES
    v_msgStatus, v_sendBy, v_expectAnswer,        \* the messages
    messages, current,        \* MsgDelivery2Message and MsgDelivery2CurrentMessage
    recent,           \* is now within sendTimeOut after sendTime?
    crashed,          \* has the sender's process died?
    channel, active,  \* the sender's channels: v_ConnectionState, v_actimode
    request,          \* what their v_addrInfoReq has brought
    connection, sent, \* the connections, and the parts handed over to them
    serverChannel, associated, read, freed,       \* the receiver's channels
    handler,          \* their msgHandler objects
    inbox,            \* how often a message was put into its inbox
    ksStatus, client, running,   \* the setVar object, its client and request
    flight,           \* the requests and answers of the ksapi clients
    disturbed, timedOut       \* history: what has gone wrong with which message

messageVars == <<v_msgStatus, v_sendBy, v_expectAnswer, messages, current>>
senderVars == <<channel, active, request, connection, sent>>
serverVars == <<serverChannel, associated, read, freed, handler, inbox>>
ksVars == <<ksStatus, client, running, flight>>
history == <<disturbed, timedOut>>
vars == <<messageVars, recent, crashed, senderVars, serverVars, ksVars, history>>

Init ==
    /\ v_msgStatus = [m \in Msgs |-> "READYFORSENDING"]
    /\ v_sendBy = [m \in Msgs |-> "DIRECTLY"]
    /\ v_expectAnswer = [m \in Msgs |-> FALSE]
    /\ messages = <<>> /\ current = Null
    /\ recent = FALSE /\ crashed = FALSE
    /\ channel = [m \in Msgs |-> "none"] /\ active = [m \in Msgs |-> FALSE]
    /\ request = [m \in Msgs |-> "none"]
    /\ connection = [m \in Msgs |-> "none"] /\ sent = [m \in Msgs |-> 0]
    /\ serverChannel = [m \in Msgs |-> "none"]
    /\ associated = [m \in Msgs |-> FALSE]
    /\ read = [m \in Msgs |-> 0] /\ freed = [m \in Msgs |-> 0]
    /\ handler = [m \in Msgs |-> "none"] /\ inbox = [m \in Msgs |-> 0]
    /\ ksStatus = "INITIAL" /\ client = "idle" /\ running = Null
    /\ flight = [m \in Msgs |-> "none"]
    /\ disturbed = {} /\ timedOut = {}

Set(f, m, x) == [f EXCEPT ![m] = x]
Disturb(m) == disturbed' = disturbed \cup {m}

---------------------------------------------------------------------------
(* MsgDelivery: sendMessage and the typemethod.                            *)

sendMessage(m, by, answer) ==
    /\ ~crashed
    /\ v_msgStatus[m] = "READYFORSENDING"
    /\ v_msgStatus' = Set(v_msgStatus, m, "WAITING")
    /\ v_sendBy' = Set(v_sendBy, m, by)
    /\ v_expectAnswer' = Set(v_expectAnswer, m, answer)
    /\ messages' = Append(messages, m)
    /\ UNCHANGED <<current, recent, crashed, senderVars, serverVars, ksVars, history>>

\* The typemethod without a current message takes the first of the queue.
MayTake(m, by) ==
    /\ ~crashed
    /\ current = Null /\ messages # <<>> /\ m = Head(messages)
    /\ v_sendBy[m] = by

\* A deleted message loses its links; its channel stays.
DeleteMessage_StillLinked(m) ==
    /\ v_msgStatus' = Set(v_msgStatus, m, "deleted")
    /\ current' = Null
    /\ UNCHANGED messages

DeleteMessage(m) ==
    /\ v_msgStatus' = Set(v_msgStatus, m, "deleted")
    /\ current' = Null
    /\ messages' = RemoveFirst(messages, m)

\* Deleting a channel closes its connection; a msgHandler for an answer is
\* contained in it and goes with it.
DeleteChannel(m) ==
    /\ channel' = Set(channel, m, "none")
    /\ active' = Set(active, m, FALSE)
    /\ request' = Set(request, m, "none")
    /\ connection' = Set(connection, m, IF connection[m] = "up" THEN "fin" ELSE connection[m])

\* No address, no body, no memory, no channel.
TakeFails(m) ==
    /\ \E by \in {"DIRECTLY", "KSSETVAR", "EXTENSION"} : MayTake(m, by)
    /\ current' = m
    /\ v_msgStatus' = Set(v_msgStatus, m, "FATALERROR")
    /\ Disturb(m)
    /\ UNCHANGED <<v_sendBy, v_expectAnswer, messages, recent, crashed,
                   senderVars, serverVars, ksVars, timedOut>>

\* A new channel gets the data.  OpenConnection only fails without worker;
\* the channel stays.  With expectAnswer it has a client handler already.
TakeDirectly(m) ==
    /\ MayTake(m, "DIRECTLY")
    /\ current' = m
    /\ sent' = Set(sent, m, 0)
    /\ \/ /\ channel' = Set(channel, m, "OPENING")
          /\ active' = Set(active, m, TRUE)
          /\ request' = Set(request, m, "waiting")
          /\ UNCHANGED <<v_msgStatus, disturbed>>
       \/ /\ channel' = Set(channel, m, "COULDNOTOPEN")
          /\ v_msgStatus' = Set(v_msgStatus, m, "FATALERROR")
          /\ Disturb(m)
          /\ UNCHANGED <<active, request>>
    /\ UNCHANGED <<v_sendBy, v_expectAnswer, messages, recent, crashed, connection,
                   serverVars, ksVars, timedOut>>

\* setandsubmit: a client with a request under way refuses, and the status
\* is that of one that waits for its answer.
submit_StatusKept(m) ==
    \/ /\ client = "idle"
       /\ client' = "busy" /\ running' = m /\ flight' = Set(flight, m, "request")
       /\ UNCHANGED <<ksStatus, disturbed>>
    \/ client # "idle" /\ UNCHANGED <<ksVars, disturbed>>

submit(m) ==
    \/ /\ client = "idle"
       /\ client' = "busy" /\ running' = m /\ flight' = Set(flight, m, "request")
       /\ ksStatus' = "WAITINGFORANSWER"
       /\ UNCHANGED disturbed
    \/ /\ client = "idle"
       /\ ksStatus' \in {"WAITINGFORANSWER", "INTERNALERROR"}
       /\ Disturb(m)
       /\ UNCHANGED <<client, running, flight>>
    \/ /\ client # "idle"
       /\ ksStatus' = IF client = "error" THEN "INTERNALERROR" ELSE "WAITINGFORANSWER"
       /\ UNCHANGED <<client, running, flight, disturbed>>

TakeSetVar(m) ==
    /\ MayTake(m, "KSSETVAR")
    /\ current' = m
    /\ submit(m)
    /\ recent' = TRUE
    /\ UNCHANGED <<v_msgStatus, v_sendBy, v_expectAnswer, messages, crashed,
                   senderVars, serverVars, timedOut>>

\* The extension takes the message, or it is deleted.
TakeExtension(m) ==
    /\ MayTake(m, "EXTENSION")
    /\ \/ current' = m /\ UNCHANGED <<v_msgStatus, messages, disturbed>>
       \/ DeleteMessage(m) /\ Disturb(m)
    /\ UNCHANGED <<v_sendBy, v_expectAnswer, recent, crashed, senderVars, serverVars,
                   ksVars, timedOut>>

\* The typemethod with a current message.
MayCheck(m, by) ==
    /\ ~crashed
    /\ current = m
    /\ v_msgStatus[m] = "WAITING"
    /\ v_sendBy[m] = by

CheckFailed(m) ==
    /\ ~crashed
    /\ current = m
    /\ v_msgStatus[m] = "FATALERROR"
    /\ DeleteMessage(m)
    /\ UNCHANGED <<v_sendBy, v_expectAnswer, recent, crashed, senderVars, serverVars,
                   ksVars, history>>

\* The state of a channel that has disappeared is read through a null pointer.
CheckDirectlyDies(m) ==
    /\ MayCheck(m, "DIRECTLY")
    /\ channel[m] = "none"
    /\ crashed' = TRUE
    /\ connection' = [q \in Msgs |-> IF connection[q] = "up" THEN "fin" ELSE connection[q]]
    /\ UNCHANGED <<messageVars, recent, channel, active, request, sent, serverVars, ksVars,
                   history>>

\* The message is dropped once all is sent, the connection is closed or
\* failed, or it is too late: sendTime is that of the last setvar message.
Finished(m) ==
    \/ sent[m] = Parts
    \/ channel[m] \in {"CLOSED", "COULDNOTOPEN", "SENDERROR"}
    \/ ~recent

CheckDirectly_ChannelDeleted(m) ==
    /\ MayCheck(m, "DIRECTLY")
    /\ channel[m] # "none"
    /\ Finished(m)
    /\ DeleteMessage(m)
    /\ DeleteChannel(m)
    /\ UNCHANGED <<v_sendBy, v_expectAnswer, recent, crashed, sent, serverVars, ksVars,
                   history>>

CheckDirectly(m) ==
    /\ MayCheck(m, "DIRECTLY")
    /\ channel[m] # "none"
    /\ Finished(m)
    /\ DeleteMessage(m)
    /\ IF channel[m] = "CLOSED" THEN DeleteChannel(m)
       ELSE UNCHANGED <<channel, active, request, connection>>
    /\ UNCHANGED <<v_sendBy, v_expectAnswer, recent, crashed, sent, serverVars, ksVars,
                   history>>

\* Reset_set TRUE and FALSE.
Reset == ksStatus' = "INITIAL" /\ client' = "idle" /\ running' = Null

CheckSetVar_NoTimeOut(m) ==
    /\ MayCheck(m, "KSSETVAR")
    /\ DeleteMessage(m)
    /\ \/ /\ ksStatus = "REQUESTCOMPLETED"
          /\ UNCHANGED <<ksStatus, client, running>>
       \/ /\ ksStatus \in {"INTERNALERROR", "EXTERNALERROR"}
          /\ Reset
    /\ UNCHANGED <<v_sendBy, v_expectAnswer, recent, crashed, senderVars, serverVars,
                   flight, history>>

CheckSetVar(m) ==
    /\ MayCheck(m, "KSSETVAR")
    /\ DeleteMessage(m)
    /\ \/ /\ ksStatus = "REQUESTCOMPLETED"
          /\ UNCHANGED <<ksStatus, client, running, timedOut>>
       \/ /\ ksStatus \in {"INTERNALERROR", "EXTERNALERROR"}
          /\ Reset
          /\ UNCHANGED timedOut
       \/ /\ ksStatus = "WAITINGFORANSWER" /\ ~recent
          /\ timedOut' = timedOut \cup {m}
          /\ UNCHANGED <<ksStatus, client, running>>
    /\ UNCHANGED <<v_sendBy, v_expectAnswer, recent, crashed, senderVars, serverVars,
                   flight, disturbed>>

\* The extension has it now.
CheckExtension(m) ==
    /\ MayCheck(m, "EXTENSION")
    /\ current' = Null
    /\ messages' = RemoveFirst(messages, m)
    /\ UNCHANGED <<v_msgStatus, v_sendBy, v_expectAnswer, recent, crashed, senderVars,
                   serverVars, ksVars, history>>

\* sendTimeOut seconds have passed.
Expire ==
    /\ recent /\ recent' = FALSE
    /\ UNCHANGED <<messageVars, crashed, senderVars, serverVars, ksVars, history>>

---------------------------------------------------------------------------
(* The sender's channels: the typemethod of TCPChannel on the client side. *)

\* The worker thread has resolved the name and tried to connect.
Resolve(m) ==
    /\ ~crashed /\ request[m] = "waiting"
    /\ \/ /\ request' = Set(request, m, "connected")
          /\ connection' = Set(connection, m, "up")
          /\ UNCHANGED disturbed
       \/ /\ request' \in {Set(request, m, "refused"), Set(request, m, "unresolved")}
          /\ Disturb(m)
          /\ UNCHANGED connection
    /\ UNCHANGED <<messageVars, recent, crashed, channel, active, sent, serverVars, ksVars,
                   timedOut>>

ChannelRuns(m) == ~crashed /\ active[m]

\* What was sent is everything, or a part that the typemethod continues.
SendData(m) ==
    \/ \E n \in (sent[m] + 1)..Parts :
        /\ sent' = Set(sent, m, n)
        /\ IF n = Parts /\ ~v_expectAnswer[m]
           THEN DeleteChannel(m)
           ELSE /\ channel' = Set(channel, m, "OPEN")
                /\ UNCHANGED <<active, connection>>
        /\ UNCHANGED disturbed
    \/ /\ sent[m] < Parts
       /\ channel' \in {Set(channel, m, "SENDERROR"), Set(channel, m, "CLOSED")}
       /\ Disturb(m)
       /\ UNCHANGED <<active, connection, sent>>

PeerClosed(m) ==
    \/ serverChannel[m] \in {"CLOSED", "deleted"}
    \/ connection[m] = "reset"

\* A channel with a client handler deletes itself, another one stays.
Closed_Deletes(m) == PeerClosed(m) /\ DeleteChannel(m) /\ UNCHANGED <<sent, disturbed>>

Closed(m) ==
    /\ PeerClosed(m)
    /\ IF v_expectAnswer[m]
       THEN DeleteChannel(m)
       ELSE /\ channel' = Set(channel, m, "CLOSED")
            /\ connection' = Set(connection, m,
                                 IF connection[m] = "up" THEN "fin" ELSE connection[m])
            /\ UNCHANGED active
    /\ UNCHANGED <<sent, disturbed>>

\* Opening: the answer of the worker is looked at; without one a channel with
\* a client handler has no socket and no data, and deletes itself.
ChannelOpening(m) ==
    /\ ChannelRuns(m) /\ channel[m] = "OPENING"
    /\ \/ /\ request[m] = "waiting" /\ v_expectAnswer[m]
          /\ DeleteChannel(m)
          /\ UNCHANGED <<sent, disturbed>>
       \/ /\ request[m] = "unresolved"
          /\ active' = Set(active, m, FALSE)
          /\ UNCHANGED <<channel, request, connection, sent, disturbed>>
       \/ /\ request[m] = "refused"
          /\ active' = Set(active, m, FALSE)
          /\ channel' = Set(channel, m, "COULDNOTOPEN")
          /\ request' = Set(request, m, "none")
          /\ UNCHANGED <<connection, sent, disturbed>>
       \/ /\ request[m] = "connected"
          /\ request' = Set(request, m, "none")
          /\ Closed(m) \/ (~PeerClosed(m) /\ SendData(m))
    /\ UNCHANGED <<messageVars, recent, crashed, serverVars, ksVars, timedOut>>

ChannelOpen(m) ==
    /\ ChannelRuns(m) /\ channel[m] = "OPEN"
    /\ Closed(m) \/ (~PeerClosed(m) /\ SendData(m))
    /\ request' = Set(request, m, "none")
    /\ UNCHANGED <<messageVars, recent, crashed, serverVars, ksVars, timedOut>>

\* A channel that waits for an answer does so for ConnectionTimeOut seconds,
\* and goes once it has no open connection.
ChannelGone(m) ==
    /\ ChannelRuns(m) /\ v_expectAnswer[m]
    /\ \/ channel[m] = "OPEN" /\ sent[m] = Parts
       \/ channel[m] \in {"CLOSED", "SENDERROR"}
    /\ DeleteChannel(m)
    /\ UNCHANGED <<messageVars, recent, crashed, sent, serverVars, ksVars, history>>

\* The connection breaks down.
Break(m) ==
    /\ connection[m] \in {"up", "fin"} /\ serverChannel[m] # "deleted"
    /\ connection' = Set(connection, m, "reset")
    /\ Disturb(m)
    /\ UNCHANGED <<messageVars, recent, crashed, channel, active, request, sent, serverVars,
                   ksVars, timedOut>>

---------------------------------------------------------------------------
(* The receiver: TCPListener, TCPChannel, msgIdentificator, msgHandler.    *)

Accept(m) ==
    /\ connection[m] \in {"up", "fin"} /\ serverChannel[m] = "none"
    /\ serverChannel' = Set(serverChannel, m, "OPEN")
    /\ UNCHANGED <<messageVars, recent, crashed, senderVars, associated, read, freed, handler,
                   inbox, ksVars, history>>

\* The handler is activated so that it can delete itself.
Delete_HandlerIdle(m, hasHandler) ==
    /\ serverChannel' = Set(serverChannel, m, "deleted")
    /\ associated' = Set(associated, m, FALSE)
    /\ read' = Set(read, m, 0) /\ freed' = Set(freed, m, 0)
    /\ handler' = Set(handler, m, IF hasHandler THEN "idle" ELSE "none")

Delete(m, hasHandler) ==
    /\ serverChannel' = Set(serverChannel, m, "deleted")
    /\ associated' = Set(associated, m, FALSE)
    /\ read' = Set(read, m, 0) /\ freed' = Set(freed, m, 0)
    /\ handler' = Set(handler, m, IF hasHandler THEN "active" ELSE "none")

\* The buffer holds the parts freed+1..n.  A first chunk without the whole
\* tag is not identified.
identify(m, n) == freed[m] = 0 /\ n >= TagParts

Stay(m, n, state) ==
    /\ serverChannel' = Set(serverChannel, m, state)
    /\ associated' = Set(associated, m, TRUE)
    /\ read' = Set(read, m, n)
    /\ handler' = Set(handler, m, "idle")

\* A complete message is delivered; the inbox says whether the connection is
\* kept.  One that cannot be delivered takes its channel along.
HandleRequest(m, n, state) ==
    \/ /\ freed[m] = 0 /\ n = Parts
       /\ inbox' = Set(inbox, m, inbox[m] + 1)
       /\ Delete(m, TRUE) \/ (Stay(m, n, state) /\ UNCHANGED freed)
       /\ UNCHANGED disturbed
    \/ /\ freed[m] = 0 /\ n = Parts
       /\ Delete(m, TRUE) /\ Disturb(m)
       /\ UNCHANGED inbox
    \/ /\ freed[m] = 0 /\ n < Parts
       /\ Stay(m, n, state)
       /\ UNCHANGED <<freed, inbox, disturbed>>
    \/ /\ freed[m] > 0
       /\ Stay(m, n, state)
       /\ freed' = IF n - freed[m] < TagParts THEN freed ELSE Set(freed, m, n)
       /\ UNCHANGED <<inbox, disturbed>>

\* The typemethod reads all there is.  Without a handler for the data, or
\* without data when the peer has closed, the channel is deleted.
Receive(m) ==
    /\ serverChannel[m] = "OPEN" /\ connection[m] # "reset"
    /\ \E n \in read[m]..sent[m], fin \in BOOLEAN :
        /\ fin => n = sent[m] /\ connection[m] = "fin"
        /\ n > read[m] \/ fin
        /\ LET state == IF fin THEN "CLOSED" ELSE "OPEN" IN
           \/ /\ n > read[m] /\ (associated[m] \/ identify(m, n))
              /\ HandleRequest(m, n, state)
           \/ /\ n > read[m] /\ ~associated[m] /\ ~identify(m, n)
              /\ Delete(m, FALSE) /\ Disturb(m)
              /\ UNCHANGED inbox
           \/ /\ n = read[m] /\ read[m] = freed[m]
              /\ Delete(m, associated[m])
              /\ UNCHANGED <<inbox, disturbed>>
           \/ /\ n = read[m] /\ read[m] > freed[m]
              /\ serverChannel' = Set(serverChannel, m, state)
              /\ UNCHANGED <<associated, read, freed, handler, inbox, disturbed>>
    /\ UNCHANGED <<messageVars, recent, crashed, senderVars, ksVars, timedOut>>

\* On an error what was read before it in the same execution is only kept.
ReceiveFails(m) ==
    /\ serverChannel[m] = "OPEN" /\ connection[m] = "reset"
    /\ \E n \in read[m]..sent[m] :
        \/ n = freed[m] /\ Delete(m, associated[m])
        \/ /\ n > freed[m]
           /\ serverChannel' = Set(serverChannel, m, "CLOSED")
           /\ read' = Set(read, m, n)
           /\ UNCHANGED <<associated, freed, handler>>
    /\ UNCHANGED <<messageVars, recent, crashed, senderVars, inbox, ksVars, history>>

\* Nothing was received for ConnectionTimeOut seconds, or the connection is
\* closed and there are no data.
TimeOut(m) ==
    /\ serverChannel[m] \in {"OPEN", "CLOSED"}
    /\ Delete(m, associated[m])
    /\ disturbed' = IF inbox[m] = 0 THEN disturbed \cup {m} ELSE disturbed
    /\ UNCHANGED <<messageVars, recent, crashed, senderVars, inbox, ksVars, timedOut>>

\* Nothing was received for UnusedDataTimeOut seconds.
UnusedDataTimeOut(m) ==
    /\ serverChannel[m] = "OPEN" /\ freed[m] < read[m]
    /\ freed' = Set(freed, m, read[m])
    /\ disturbed' = IF inbox[m] = 0 THEN disturbed \cup {m} ELSE disturbed
    /\ UNCHANGED <<messageVars, recent, crashed, senderVars, serverChannel, associated, read,
                   handler, inbox, ksVars, timedOut>>

\* The typemethod of ClientHandler; only an active one is executed.
HandlerGoes(m) ==
    /\ handler[m] = "active" /\ serverChannel[m] = "deleted"
    /\ handler' = Set(handler, m, "none")
    /\ UNCHANGED <<messageVars, recent, crashed, senderVars, serverChannel, associated, read,
                   freed, inbox, ksVars, history>>

---------------------------------------------------------------------------
(* Sending by ksapi: the client and the receiver's retrieveMessage.        *)

\* retrieveMessage answers whether the message could be delivered or not.
retrieveMessage(m) ==
    /\ flight[m] = "request"
    /\ \/ /\ flight' = Set(flight, m, "answer")
          /\ inbox' = Set(inbox, m, inbox[m] + 1)
          /\ UNCHANGED disturbed
       \/ /\ flight' \in {Set(flight, m, "answer"), Set(flight, m, "none")}
          /\ Disturb(m)
          /\ UNCHANGED inbox
    /\ UNCHANGED <<messageVars, recent, crashed, senderVars, serverChannel, associated, read,
                   freed, handler, ksStatus, client, running, timedOut>>

\* An answer to the request of the client is taken even after its time-out;
\* the client calls back, unless the answer is a refusal.
Answer(m) ==
    /\ ~crashed /\ flight[m] = "answer"
    /\ flight' = Set(flight, m, "none")
    /\ IF running # m THEN UNCHANGED <<ksStatus, client, running, disturbed>>
       ELSE /\ running' = Null
            /\ \/ /\ client' = "idle" /\ ksStatus' = "REQUESTCOMPLETED"
                  /\ UNCHANGED disturbed
               \/ /\ client' = "idle" /\ ksStatus' \in {"INTERNALERROR", "EXTERNALERROR"}
                  /\ Disturb(m)
               \/ /\ client' = "error" /\ Disturb(m)
                  /\ UNCHANGED ksStatus
    /\ UNCHANGED <<messageVars, recent, crashed, senderVars, serverVars, timedOut>>

ClientTimeOut ==
    /\ ~crashed /\ client = "busy"
    /\ client' = "error"
    /\ UNCHANGED <<messageVars, recent, crashed, senderVars, serverVars, ksStatus, running,
                   flight, history>>

---------------------------------------------------------------------------
Kinds == {<<"DIRECTLY", FALSE>>, <<"DIRECTLY", TRUE>>, <<"KSSETVAR", FALSE>>,
          <<"EXTENSION", FALSE>>}

Delivery(m) ==
    \/ TakeFails(m) \/ TakeDirectly(m) \/ TakeSetVar(m) \/ TakeExtension(m)
    \/ CheckFailed(m) \/ CheckDirectlyDies(m) \/ CheckDirectly(m)
    \/ CheckSetVar(m) \/ CheckExtension(m)

SenderChannel(m) == Resolve(m) \/ ChannelOpening(m) \/ ChannelOpen(m) \/ ChannelGone(m)

Receiver(m) ==
    Accept(m) \/ Receive(m) \/ ReceiveFails(m) \/ TimeOut(m) \/ HandlerGoes(m)

KsApi(m) == retrieveMessage(m) \/ Answer(m)

Next ==
    \/ \E m \in Msgs, k \in Kinds : sendMessage(m, k[1], k[2])
    \/ \E m \in Msgs : Delivery(m) \/ SenderChannel(m) \/ Receiver(m) \/ KsApi(m)
    \/ \E m \in Msgs : Break(m) \/ UnusedDataTimeOut(m)
    \/ ClientTimeOut \/ Expire

\* Both communication tasks execute their objects again and again, the worker
\* thread and the network go on, and time passes.
Fairness ==
    /\ WF_vars((\E m \in Msgs : Delivery(m)) \/ Expire)
    /\ \A m \in Msgs :
        WF_vars(SenderChannel(m)) /\ WF_vars(Receiver(m)) /\ WF_vars(KsApi(m))

Spec == Init /\ [][Next]_vars
FairSpec == Spec /\ Fairness

---------------------------------------------------------------------------
(* Properties.                                                             *)

\* Every message, channel, handler and client is in one of its states, and
\* nothing is read that was not sent.
TypeOK ==
    /\ v_msgStatus \in [Msgs -> {"READYFORSENDING", "WAITING", "FATALERROR", "deleted"}]
    /\ \A m \in Msgs : <<v_sendBy[m], v_expectAnswer[m]>> \in Kinds
    /\ messages \in Seq(Msgs) /\ current \in Msgs \cup {Null}
    /\ {recent, crashed} \subseteq BOOLEAN
    /\ channel \in [Msgs -> {"none", "OPENING", "OPEN", "COULDNOTOPEN", "SENDERROR", "CLOSED"}]
    /\ {active, associated} \subseteq [Msgs -> BOOLEAN]
    /\ request \in [Msgs -> {"none", "waiting", "connected", "refused", "unresolved"}]
    /\ connection \in [Msgs -> {"none", "up", "fin", "reset"}]
    /\ sent \in [Msgs -> 0..Parts]
    /\ serverChannel \in [Msgs -> {"none", "OPEN", "CLOSED", "deleted"}]
    /\ \A m \in Msgs : read[m] \in 0..sent[m] /\ freed[m] \in 0..read[m]
    /\ handler \in [Msgs -> {"none", "idle", "active"}]
    /\ inbox \in [Msgs -> Nat]
    /\ ksStatus \in {"INITIAL", "WAITINGFORANSWER", "REQUESTCOMPLETED", "INTERNALERROR",
                     "EXTERNALERROR"}
    /\ client \in {"idle", "busy", "error"} /\ running \in Msgs \cup {Null}
    /\ flight \in [Msgs -> {"none", "request", "answer"}]
    /\ disturbed \subseteq Msgs /\ timedOut \subseteq Msgs

\* No message is delivered twice, although a time-out takes messages off the
\* queue that are still being sent.
AtMostOnce == \A m \in Msgs : inbox[m] <= 1

\* Nothing is read that was not sent, and nothing is delivered twice.
DeliveryInv == TypeOK /\ AtMostOnce

\* The sender only dies of a channel that has disappeared when that channel
\* had sent the whole message, or was to wait for an answer.
SenderDiesAfterSending ==
    crashed => current # Null /\ (sent[current] = Parts \/ v_expectAnswer[current])

\* A message taken off the queue as sent by ksapi has been put into its inbox,
\* unless it was disturbed or an earlier message has run into the time-out:
\* then the late answer to that one is taken for its answer.
CompletedIsDelivered ==
    [][\A m \in Msgs :
        (/\ current = m /\ current' = Null
         /\ v_sendBy[m] = "KSSETVAR" /\ ksStatus = "REQUESTCOMPLETED")
        => inbox[m] = 1 \/ m \in disturbed \/ timedOut # {}]_vars

\* No message blocks the queue for ever: again and again it is empty, unless
\* the sender has died.
QueueMoves == []<>(messages = <<>> \/ crashed)

\* Excuses: a fault that hit the message, the death of the sender, and what
\* the code does not deliver: a late answer completes the next message, and a
\* channel that is to wait for an answer may delete itself while it opens.
Excused(m) ==
    \/ crashed \/ m \in disturbed
    \/ v_sendBy[m] = "EXTENSION" \/ v_expectAnswer[m]
    \/ timedOut # {}

\* Every message given to sendMessage is delivered and its channel is deleted,
\* although MsgDelivery deletes a message sent directly before its connection
\* is open.
SentIsDelivered ==
    []<>(\A m \in Msgs :
            \/ v_msgStatus[m] = "READYFORSENDING"
            \/ inbox[m] = 1 /\ channel[m] = "none"
            \/ Excused(m))

\* No channel and no client handler stays behind on the receiver's side, not
\* even when the sender dies.
ServerSideGoes ==
    []<>(\A m \in Msgs : serverChannel[m] \in {"none", "deleted"} /\ handler[m] = "none")

===========================================================================
