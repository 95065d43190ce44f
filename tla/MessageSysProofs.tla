------------------------- MODULE MessageSysProofs -------------------------
(***************************************************************************)
(* The safety properties of the message system, for any set of messages    *)
(* and any number of pieces; the lemmas on lists are those of              *)
(* EventQueueProofs.                                                       *)
(***************************************************************************)
EXTENDS MessageSys, EventQueueProofs

\* The types of the variables but for the list of messages.
VarsOK ==
    /\ v_msgStatus \in [Msgs -> {"READYFORSENDING", "WAITING", "FATALERROR", "deleted"}]
    /\ v_sendBy \in [Msgs -> {"DIRECTLY", "KSSETVAR", "EXTENSION"}]
    /\ v_expectAnswer \in [Msgs -> BOOLEAN]
    /\ \A m \in Msgs : v_expectAnswer[m] => v_sendBy[m] = "DIRECTLY"
    /\ recent \in BOOLEAN /\ crashed \in BOOLEAN
    /\ channel \in [Msgs -> {"none", "OPENING", "OPEN", "COULDNOTOPEN", "SENDERROR", "CLOSED"}]
    /\ active \in [Msgs -> BOOLEAN] /\ associated \in [Msgs -> BOOLEAN]
    /\ request \in [Msgs -> {"none", "waiting", "connected", "refused", "unresolved"}]
    /\ connection \in [Msgs -> {"none", "up", "fin", "reset"}]
    /\ sent \in [Msgs -> 0..Parts] /\ read \in [Msgs -> Nat] /\ freed \in [Msgs -> Nat]
    /\ serverChannel \in [Msgs -> {"none", "OPEN", "CLOSED", "deleted"}]
    /\ handler \in [Msgs -> {"none", "idle", "active"}]
    /\ inbox \in [Msgs -> Nat]
    /\ ksStatus \in {"INITIAL", "WAITINGFORANSWER", "REQUESTCOMPLETED", "INTERNALERROR",
                     "EXTERNALERROR"}
    /\ client \in {"idle", "busy", "error"} /\ running \in Msgs \cup {Null}
    /\ flight \in [Msgs -> {"none", "request", "answer"}]
    /\ disturbed \subseteq Msgs /\ timedOut \subseteq Msgs

Queue == ToSet(messages)

\* The queue holds each message that waits or has failed once, and the current
\* message is in it; only the current one can have failed.
QueueInv ==
    /\ IsListOf(messages, Msgs) /\ current \in Queue \cup {Null}
    /\ \A m \in Queue : v_msgStatus[m] \in {"WAITING", "FATALERROR"}
    /\ \A m \in Msgs : v_msgStatus[m] = "FATALERROR" => current = m /\ m \in disturbed

\* A message that has not yet been taken off the queue.
Fresh(m) == m \in Queue \ {current} \/ v_msgStatus[m] = "READYFORSENDING"

NoConnection(m) ==
    /\ channel[m] = "none" /\ ~active[m] /\ request[m] = "none"
    /\ connection[m] = "none" /\ serverChannel[m] = "none"

\* Nothing was done for a message that has not been taken; only a message sent
\* directly has a connection, and only one sent by ksapi a request.
FreshInv(m) ==
    Fresh(m) => NoConnection(m) /\ sent[m] = 0 /\ inbox[m] = 0 /\ flight[m] = "none"
ByInv(m) ==
    /\ v_sendBy[m] # "DIRECTLY" => NoConnection(m)
    /\ v_sendBy[m] # "KSSETVAR" => flight[m] = "none"

\* What is read was sent.
ReadInv(m) == read[m] <= sent[m] /\ freed[m] <= read[m]

\* As long as a channel or a request can still deliver the message, it has not
\* been delivered.
OnceInv(m) ==
    /\ inbox[m] <= 1
    /\ flight[m] = "request" => inbox[m] = 0
    /\ flight[m] = "answer" => inbox[m] = 1 \/ m \in disturbed
    /\ v_sendBy[m] = "DIRECTLY" /\ serverChannel[m] # "deleted" /\ read[m] < Parts
            => inbox[m] = 0

MsgInv(m) == FreshInv(m) /\ ByInv(m) /\ ReadInv(m) /\ OnceInv(m)

MsgsInv == \A m \in Msgs : MsgInv(m)

\* The channel of the current message goes only after it has sent everything, or
\* when it was to wait for an answer.
GoneInv ==
    /\ current # Null /\ v_sendBy[current] = "DIRECTLY"
       /\ v_msgStatus[current] = "WAITING" /\ channel[current] = "none"
            => sent[current] = Parts \/ v_expectAnswer[current]
    /\ SenderDiesAfterSending

\* Before the first time-out the client of the setVar object works for the
\* current message only, and what it has completed was delivered.
KsInv ==
    timedOut = {} =>
        /\ running # Null =>
            /\ running = current /\ ksStatus = "WAITINGFORANSWER"
            /\ v_sendBy[current] = "KSSETVAR" /\ v_msgStatus[current] = "WAITING"
        /\ current # Null /\ v_sendBy[current] = "KSSETVAR" /\ ksStatus = "REQUESTCOMPLETED"
            => inbox[current] = 1 \/ current \in disturbed

MsgSysInv == VarsOK /\ QueueInv /\ MsgsInv /\ GoneInv /\ KsInv

---------------------------------------------------------------------------
\* The inductive invariant gives the two invariants of the specification.
LEMMA MsgSysInvImplies == MsgSysInv => DeliveryInv /\ SenderDiesAfterSending
  <1> SUFFICES ASSUME MsgSysInv PROVE DeliveryInv /\ SenderDiesAfterSending
    OBVIOUS
  <1>1. VarsOK /\ QueueInv /\ MsgsInv
    BY DEF MsgSysInv
  <1>2. ASSUME NEW m \in Msgs PROVE <<v_sendBy[m], v_expectAnswer[m]>> \in Kinds
    <2>1. v_sendBy[m] \in {"DIRECTLY", "KSSETVAR", "EXTENSION"}
      BY <1>1 DEF VarsOK
    <2>2. v_expectAnswer[m] = TRUE \/ v_expectAnswer[m] = FALSE
      BY <1>1 DEF VarsOK
    <2>3. CASE v_expectAnswer[m] = TRUE
      <3>1. v_sendBy[m] = "DIRECTLY"
        BY <1>1, <2>3 DEF VarsOK
      <3> QED BY <2>3, <3>1, Zenon DEF Kinds
    <2>4. CASE v_expectAnswer[m] = FALSE
      BY <2>1, <2>4, Zenon DEF Kinds
    <2> QED BY <2>2, <2>3, <2>4
  <1>3. messages \in Seq(Msgs) /\ current \in Msgs \cup {Null}
    BY <1>1, ListPlaces DEF QueueInv, IsListOf, Queue
  <1>4. ASSUME NEW m \in Msgs
        PROVE  read[m] \in 0..sent[m] /\ freed[m] \in 0..read[m] /\ inbox[m] <= 1
    <2>1. read[m] \in Nat /\ freed[m] \in Nat /\ sent[m] \in Nat
      BY <1>1, PartsAssumption DEF VarsOK
    <2> QED BY <1>1, <2>1 DEF MsgsInv, MsgInv, ReadInv, OnceInv
  <1>5. {recent, crashed} \subseteq BOOLEAN /\ {active, associated} \subseteq [Msgs -> BOOLEAN]
    <2>1. /\ recent \in BOOLEAN /\ crashed \in BOOLEAN
          /\ active \in [Msgs -> BOOLEAN] /\ associated \in [Msgs -> BOOLEAN]
      BY <1>1 DEF VarsOK
    <2> QED BY <2>1, Zenon
  <1>6. TypeOK
    <2>1. /\ v_msgStatus \in [Msgs -> {"READYFORSENDING", "WAITING", "FATALERROR", "deleted"}]
          /\ channel \in
               [Msgs -> {"none", "OPENING", "OPEN", "COULDNOTOPEN", "SENDERROR", "CLOSED"}]
          /\ request \in [Msgs -> {"none", "waiting", "connected", "refused", "unresolved"}]
          /\ connection \in [Msgs -> {"none", "up", "fin", "reset"}]
          /\ sent \in [Msgs -> 0..Parts] /\ inbox \in [Msgs -> Nat]
          /\ serverChannel \in [Msgs -> {"none", "OPEN", "CLOSED", "deleted"}]
          /\ handler \in [Msgs -> {"none", "idle", "active"}]
          /\ ksStatus \in {"INITIAL", "WAITINGFORANSWER", "REQUESTCOMPLETED",
                           "INTERNALERROR", "EXTERNALERROR"}
          /\ client \in {"idle", "busy", "error"} /\ running \in Msgs \cup {Null}
          /\ flight \in [Msgs -> {"none", "request", "answer"}]
          /\ disturbed \subseteq Msgs /\ timedOut \subseteq Msgs
      BY <1>1 DEF VarsOK
    <2> QED BY <1>2, <1>3, <1>4, <1>5, <2>1, Zenon DEF TypeOK
  <1> QED BY <1>4, <1>6 DEF DeliveryInv, AtMostOnce, MsgSysInv, GoneInv

\* No message has been given to sendMessage.
LEMMA MsgSysInit == Init => MsgSysInv
  <1> SUFFICES ASSUME Init PROVE MsgSysInv
    OBVIOUS
  <1>1. VarsOK
    <2>1. /\ recent \in BOOLEAN /\ crashed \in BOOLEAN
          /\ active \in [Msgs -> BOOLEAN] /\ associated \in [Msgs -> BOOLEAN]
          /\ v_expectAnswer \in [Msgs -> BOOLEAN]
          /\ \A m \in Msgs : ~v_expectAnswer[m]
      BY DEF Init
    <2>2. /\ sent \in [Msgs -> 0..Parts] /\ read \in [Msgs -> Nat] /\ freed \in [Msgs -> Nat]
          /\ inbox \in [Msgs -> Nat]
      BY PartsAssumption DEF Init
    <2> QED BY <2>1, <2>2 DEF Init, VarsOK
  <1>2. IsListOf(messages, Msgs) /\ Queue = {}
    BY EmptyList DEF Init, Queue
  <1>3. QueueInv
    BY <1>2 DEF Init, QueueInv
  <1>4. MsgsInv
    BY PartsAssumption DEF Init, MsgsInv, MsgInv, FreshInv, ByInv, ReadInv, OnceInv,
       NoConnection
  <1>5. GoneInv /\ KsInv
    BY DEF Init, GoneInv, SenderDiesAfterSending, KsInv
  <1> QED BY <1>1, <1>3, <1>4, <1>5 DEF MsgSysInv

---------------------------------------------------------------------------
\* What belongs to a message does not change.
Same(q) ==
    /\ channel'[q] = channel[q] /\ active'[q] = active[q] /\ request'[q] = request[q]
    /\ connection'[q] = connection[q] /\ sent'[q] = sent[q]
    /\ serverChannel'[q] = serverChannel[q] /\ read'[q] = read[q] /\ freed'[q] = freed[q]
    /\ inbox'[q] = inbox[q] /\ flight'[q] = flight[q]

\* A step that does nothing for a message and does not put it on the queue again
\* keeps what holds of the message.
LEMMA OthersKeep ==
    ASSUME MsgSysInv, NEW q \in Msgs, Same(q), Fresh(q)' => Fresh(q),
           v_sendBy'[q] = v_sendBy[q], disturbed \subseteq disturbed'
    PROVE  MsgInv(q)'
  <1>1. FreshInv(q) /\ ByInv(q) /\ ReadInv(q) /\ OnceInv(q)
    BY DEF MsgSysInv, MsgsInv, MsgInv
  <1>2. FreshInv(q)' /\ ByInv(q)'
    BY <1>1 DEF Same, FreshInv, ByInv, NoConnection
  <1>3. ReadInv(q)' /\ OnceInv(q)'
    BY <1>1 DEF Same, ReadInv, OnceInv
  <1> QED BY <1>2, <1>3 DEF MsgInv

\* A message with a channel or a connection has been taken, and is sent directly.
LEMMA ConnectedIsTaken ==
    ASSUME MsgSysInv, NEW m \in Msgs, ~NoConnection(m)
    PROVE  v_sendBy[m] = "DIRECTLY" /\ ~Fresh(m)
  BY DEF MsgSysInv, MsgsInv, MsgInv, FreshInv, ByInv

---------------------------------------------------------------------------
(* The sender's channels.                                                  *)

\* Types of the variables that belong to the sender's channels.
ChannelsOK ==
    /\ channel \in [Msgs -> {"none", "OPENING", "OPEN", "COULDNOTOPEN", "SENDERROR", "CLOSED"}]
    /\ active \in [Msgs -> BOOLEAN]
    /\ request \in [Msgs -> {"none", "waiting", "connected", "refused", "unresolved"}]
    /\ connection \in [Msgs -> {"none", "up", "fin", "reset"}]
    /\ sent \in [Msgs -> 0..Parts]

\* What a step of a channel has to show: it sends no less than before, and it
\* goes only after it has sent everything or when it was to wait for an answer.
ChannelStep(m) ==
    /\ ChannelsOK'
    /\ \A q \in Msgs : q # m =>
        /\ channel'[q] = channel[q] /\ active'[q] = active[q] /\ request'[q] = request[q]
        /\ connection'[q] = connection[q] /\ sent'[q] = sent[q]
    /\ sent[m] <= sent'[m]
    /\ channel'[m] = "none" => channel[m] = "none" \/ sent'[m] = Parts \/ v_expectAnswer[m]
    /\ disturbed \subseteq disturbed' /\ disturbed' \subseteq disturbed \cup {m}

\* Such a step keeps the invariant when it leaves everything else alone.
LEMMA ChannelStepKeeps ==
    ASSUME MsgSysInv, NEW m \in Msgs, ~NoConnection(m), ChannelStep(m),
           crashed => sent' = sent,
           UNCHANGED <<v_msgStatus, v_sendBy, v_expectAnswer, messages, current, recent,
                       crashed, serverChannel, associated, read, freed, handler, inbox,
                       ksStatus, client, running, flight, timedOut>>
    PROVE  MsgSysInv'
  <1>0. VarsOK /\ QueueInv /\ MsgsInv /\ GoneInv /\ KsInv
    BY DEF MsgSysInv
  <1>v. VarsOK'
    <2>1. ChannelsOK' /\ disturbed' \subseteq Msgs
      BY <1>0 DEF ChannelStep, VarsOK
    <2> QED BY <1>0, <2>1 DEF VarsOK, ChannelsOK
  <1>1. Queue' = Queue /\ \A q \in Msgs : Fresh(q)' <=> Fresh(q)
    BY DEF Queue, Fresh
  <1>2. QueueInv'
    BY <1>0, <1>1 DEF QueueInv, ChannelStep
  <1>3. ASSUME NEW q \in Msgs PROVE MsgInv(q)'
    <2>1. CASE q # m
      <3>1. Same(q)
        BY <2>1 DEF Same, ChannelStep
      <3> QED BY <1>1, <3>1, OthersKeep DEF ChannelStep
    <2>2. CASE q = m
      <3>1. v_sendBy[m] = "DIRECTLY" /\ ~Fresh(m)
        BY ConnectedIsTaken
      <3>2. ByInv(m) /\ ReadInv(m) /\ OnceInv(m)
        BY <1>0 DEF MsgsInv, MsgInv
      <3>3. FreshInv(m)' /\ ByInv(m)'
        BY <1>1, <3>1, <3>2 DEF FreshInv, ByInv
      <3>4. OnceInv(m)'
        BY <3>2 DEF OnceInv, ChannelStep
      <3>5. ReadInv(m)'
        <4>1. read[m] \in Nat /\ sent[m] \in 0..Parts /\ sent'[m] \in 0..Parts
          BY <1>0, <1>v DEF VarsOK
        <4>2. read[m] <= sent[m] /\ freed[m] <= read[m] /\ sent[m] <= sent'[m]
          BY <3>2 DEF ReadInv, ChannelStep
        <4> QED BY <4>1, <4>2, PartsAssumption DEF ReadInv
      <3> QED BY <2>2, <3>3, <3>4, <3>5 DEF MsgInv
    <2> QED BY <2>1, <2>2
  <1>4. GoneInv'
    <2>1. current \in Msgs \cup {Null}
      BY <1>0, ListPlaces DEF QueueInv, Queue
    <2>2. ASSUME current # Null, v_sendBy[current] = "DIRECTLY",
                 v_msgStatus[current] = "WAITING", channel'[current] = "none"
          PROVE  sent'[current] = Parts \/ v_expectAnswer[current]
      <3>1. CASE current # m
        BY <1>0, <2>1, <2>2, <3>1 DEF GoneInv, ChannelStep
      <3>2. CASE current = m
        <4>1. CASE channel[m] = "none"
          <5>1. sent[m] = Parts \/ v_expectAnswer[m]
            BY <1>0, <2>2, <3>2, <4>1 DEF GoneInv
          <5>2. sent[m] = Parts => sent'[m] = Parts
            <6>1. sent'[m] \in 0..Parts /\ sent[m] <= sent'[m]
              BY <1>v DEF VarsOK, ChannelStep
            <6> QED BY <6>1, PartsAssumption
          <5> QED BY <3>2, <5>1, <5>2
        <4>2. CASE channel[m] # "none"
          BY <2>2, <3>2, <4>2 DEF ChannelStep
        <4> QED BY <4>1, <4>2
      <3> QED BY <3>1, <3>2
    <2>3. SenderDiesAfterSending'
      BY <1>0 DEF GoneInv, SenderDiesAfterSending, ChannelStep
    <2> QED BY <2>2, <2>3 DEF GoneInv
  <1>5. KsInv'
    BY <1>0 DEF KsInv, ChannelStep
  <1> QED BY <1>v, <1>2, <1>3, <1>4, <1>5 DEF MsgSysInv, MsgsInv

\* The types are part of those of the invariant.
LEMMA ChannelTypes == MsgSysInv => ChannelsOK
  BY DEF MsgSysInv, VarsOK, ChannelsOK

\* A channel is deleted that may be.
LEMMA DeleteChannelStep ==
    ASSUME ChannelsOK, NEW m \in Msgs, DeleteChannel(m), UNCHANGED <<sent, disturbed>>,
           v_expectAnswer[m] \/ sent[m] = Parts
    PROVE  ChannelStep(m)
  <1>1. /\ channel' = [channel EXCEPT ![m] = "none"]
        /\ request' = [request EXCEPT ![m] = "none"]
        /\ connection' = [connection EXCEPT ![m] =
                              IF connection[m] = "up" THEN "fin" ELSE connection[m]]
    BY DEF DeleteChannel, Set
  <1>2. active' = [active EXCEPT ![m] = FALSE]
    BY DEF DeleteChannel, Set
  <1>3. /\ active' \in [Msgs -> BOOLEAN]
        /\ \A q \in Msgs : q # m => active'[q] = active[q]
    BY <1>2 DEF ChannelsOK
  <1>4. /\ connection' \in [Msgs -> {"none", "up", "fin", "reset"}]
        /\ \A q \in Msgs : q # m => connection'[q] = connection[q]
    <2>1. connection[m] \in {"none", "up", "fin", "reset"}
      BY DEF ChannelsOK
    <2> QED BY <1>1, <2>1 DEF ChannelsOK
  <1>5. ChannelsOK'
    BY <1>1, <1>3, <1>4 DEF ChannelsOK
  <1>6. sent[m] <= sent'[m]
    BY PartsAssumption DEF ChannelsOK
  <1>7. \A q \in Msgs : q # m => channel'[q] = channel[q] /\ request'[q] = request[q]
    BY <1>1 DEF ChannelsOK
  <1> QED BY <1>3, <1>4, <1>5, <1>6, <1>7 DEF ChannelStep

\* The execution of a connected channel: the peer has closed, or data are sent.
LEMMA ConnectedStep ==
    ASSUME ChannelsOK, NEW m \in Msgs, Closed(m) \/ SendData(m),
           request' = Set(request, m, "none")
    PROVE  ChannelStep(m)
  <1>0. /\ request' \in [Msgs -> {"none", "waiting", "connected", "refused", "unresolved"}]
        /\ \A q \in Msgs : q # m => request'[q] = request[q]
    BY DEF ChannelsOK, Set
  <1>s. sent \in [Msgs -> 0..Parts] /\ sent[m] \in 0..Parts /\ sent[m] <= sent[m]
    BY PartsAssumption DEF ChannelsOK
  <1>1. CASE Closed(m) /\ v_expectAnswer[m]
    BY <1>1, DeleteChannelStep DEF Closed
  <1>2. CASE Closed(m) /\ ~v_expectAnswer[m]
    <2>1. /\ channel' = [channel EXCEPT ![m] = "CLOSED"]
          /\ connection' = [connection EXCEPT ![m] =
                                IF connection[m] = "up" THEN "fin" ELSE connection[m]]
          /\ UNCHANGED <<active, sent, disturbed>>
      BY <1>2 DEF Closed, Set
    <2>2. /\ connection' \in [Msgs -> {"none", "up", "fin", "reset"}]
          /\ \A q \in Msgs : q # m => connection'[q] = connection[q]
      <3>1. connection[m] \in {"none", "up", "fin", "reset"}
        BY DEF ChannelsOK
      <3> QED BY <2>1, <3>1 DEF ChannelsOK
    <2>3. ChannelsOK'
      BY <1>0, <2>1, <2>2 DEF ChannelsOK
    <2>4. channel'[m] = "CLOSED" /\ \A q \in Msgs : q # m => channel'[q] = channel[q]
      BY <2>1 DEF ChannelsOK
    <2> QED BY <1>0, <1>s, <2>1, <2>2, <2>3, <2>4 DEF ChannelStep
  <1>3. ASSUME NEW n \in (sent[m] + 1)..Parts, sent' = Set(sent, m, n),
               IF n = Parts /\ ~v_expectAnswer[m]
               THEN DeleteChannel(m)
               ELSE channel' = Set(channel, m, "OPEN") /\ UNCHANGED <<active, connection>>,
               UNCHANGED disturbed
        PROVE  ChannelStep(m)
    <2>1. /\ sent' \in [Msgs -> 0..Parts] /\ sent'[m] = n /\ sent[m] <= n
          /\ \A q \in Msgs : q # m => sent'[q] = sent[q]
      <3>1. n \in 0..Parts /\ sent[m] <= n
        BY <1>s, <1>3, PartsAssumption
      <3> QED BY <1>s, <1>3, <3>1 DEF Set
    <2>2. CASE n = Parts /\ ~v_expectAnswer[m]
      <3>1. /\ channel' = [channel EXCEPT ![m] = "none"]
            /\ connection' = [connection EXCEPT ![m] =
                                  IF connection[m] = "up" THEN "fin" ELSE connection[m]]
        BY <1>3, <2>2 DEF DeleteChannel, Set
      <3>2. active' = [active EXCEPT ![m] = FALSE]
        BY <1>3, <2>2 DEF DeleteChannel, Set
      <3>3. /\ active' \in [Msgs -> BOOLEAN]
            /\ \A q \in Msgs : q # m => active'[q] = active[q]
        BY <3>2 DEF ChannelsOK
      <3>4. /\ connection' \in [Msgs -> {"none", "up", "fin", "reset"}]
            /\ \A q \in Msgs : q # m => connection'[q] = connection[q]
        <4>1. connection[m] \in {"none", "up", "fin", "reset"}
          BY DEF ChannelsOK
        <4> QED BY <3>1, <4>1 DEF ChannelsOK
      <3>5. ChannelsOK'
        BY <1>0, <2>1, <3>1, <3>3, <3>4 DEF ChannelsOK
      <3>6. \A q \in Msgs : q # m => channel'[q] = channel[q]
        BY <3>1 DEF ChannelsOK
      <3> QED BY <1>0, <1>3, <2>1, <2>2, <3>3, <3>4, <3>5, <3>6 DEF ChannelStep
    <2>3. CASE ~(n = Parts /\ ~v_expectAnswer[m])
      <3>1. channel' = [channel EXCEPT ![m] = "OPEN"] /\ UNCHANGED <<active, connection>>
        BY <1>3, <2>3 DEF Set
      <3>2. ChannelsOK'
        BY <1>0, <2>1, <3>1 DEF ChannelsOK
      <3>3. channel'[m] = "OPEN" /\ \A q \in Msgs : q # m => channel'[q] = channel[q]
        BY <3>1 DEF ChannelsOK
      <3> QED BY <1>0, <1>3, <2>1, <3>1, <3>2, <3>3 DEF ChannelStep
    <2> QED BY <2>2, <2>3
  <1>4. ASSUME channel' \in {Set(channel, m, "SENDERROR"), Set(channel, m, "CLOSED")},
               Disturb(m), UNCHANGED <<active, connection, sent>>
        PROVE  ChannelStep(m)
    <2>1. /\ channel' = [channel EXCEPT ![m] = "SENDERROR"]
             \/ channel' = [channel EXCEPT ![m] = "CLOSED"]
          /\ disturbed' = disturbed \cup {m}
      BY <1>4 DEF Set, Disturb
    <2>2. ChannelsOK'
      BY <1>0, <1>4, <2>1 DEF ChannelsOK
    <2>3. channel'[m] # "none" /\ \A q \in Msgs : q # m => channel'[q] = channel[q]
      BY <2>1 DEF ChannelsOK
    <2> QED BY <1>0, <1>s, <1>4, <2>1, <2>2, <2>3 DEF ChannelStep
  <1> QED BY <1>1, <1>2, <1>3, <1>4 DEF SendData

\* Steps of the sender's channels, the worker thread and the network.
LEMMA SenderChannelKeeps ==
    ASSUME MsgSysInv, NEW m \in Msgs, SenderChannel(m) \/ Break(m)
    PROVE  MsgSysInv'
  <1>0. ChannelsOK /\ sent[m] <= sent[m]
    BY ChannelTypes, PartsAssumption DEF ChannelsOK
  <1>u. UNCHANGED <<v_msgStatus, v_sendBy, v_expectAnswer, messages, current, recent, crashed,
                    serverChannel, associated, read, freed, handler, inbox,
                    ksStatus, client, running, flight, timedOut>>
    BY DEF SenderChannel, Resolve, ChannelOpening, ChannelOpen, ChannelGone, Break,
           messageVars, serverVars, ksVars, history
  <1>1. ASSUME Resolve(m) PROVE MsgSysInv'
    <2>1. ~NoConnection(m) /\ UNCHANGED <<channel, active, sent>>
      BY <1>1 DEF Resolve, NoConnection
    <2>2. /\ request' \in {Set(request, m, "connected"), Set(request, m, "refused"),
                           Set(request, m, "unresolved")}
          /\ connection' \in {connection, Set(connection, m, "up")}
          /\ disturbed' \in {disturbed, disturbed \cup {m}}
      BY <1>1 DEF Resolve, Disturb
    <2>3. ChannelStep(m)
      <3>1. ChannelsOK'
        BY <1>0, <2>1, <2>2 DEF ChannelsOK, Set
      <3>2. \A q \in Msgs : q # m => request'[q] = request[q] /\ connection'[q] = connection[q]
        BY <1>0, <2>2 DEF ChannelsOK, Set
      <3> QED BY <1>0, <2>1, <2>2, <3>1, <3>2 DEF ChannelStep
    <2> QED BY <1>u, <2>1, <2>3, ChannelStepKeeps
  <1>2. ASSUME ChannelOpening(m) PROVE MsgSysInv'
    <2>1. ~NoConnection(m) /\ ~crashed
      BY <1>2 DEF ChannelOpening, ChannelRuns, NoConnection
    <2>2. ChannelStep(m)
      <3>1. CASE v_expectAnswer[m] /\ DeleteChannel(m) /\ UNCHANGED <<sent, disturbed>>
        BY <1>0, <3>1, DeleteChannelStep
      <3>2. CASE /\ active' = Set(active, m, FALSE)
                 /\ UNCHANGED <<channel, request, connection, sent, disturbed>>
        <4>1. active' \in [Msgs -> BOOLEAN] /\ \A q \in Msgs : q # m => active'[q] = active[q]
          BY <1>0, <3>2 DEF ChannelsOK, Set
        <4>2. ChannelsOK'
          BY <1>0, <3>2, <4>1 DEF ChannelsOK
        <4> QED BY <1>0, <3>2, <4>1, <4>2 DEF ChannelStep
      <3>3. CASE /\ active' = Set(active, m, FALSE)
                 /\ channel' = Set(channel, m, "COULDNOTOPEN")
                 /\ request' = Set(request, m, "none")
                 /\ UNCHANGED <<connection, sent, disturbed>>
        <4>1. active' \in [Msgs -> BOOLEAN] /\ \A q \in Msgs : q # m => active'[q] = active[q]
          BY <1>0, <3>3 DEF ChannelsOK, Set
        <4>2. ChannelsOK'
          BY <1>0, <3>3, <4>1 DEF ChannelsOK, Set
        <4>3. /\ channel'[m] = "COULDNOTOPEN"
              /\ \A q \in Msgs : q # m => channel'[q] = channel[q] /\ request'[q] = request[q]
          BY <1>0, <3>3 DEF ChannelsOK, Set
        <4> QED BY <1>0, <3>3, <4>1, <4>2, <4>3 DEF ChannelStep
      <3>4. CASE request' = Set(request, m, "none") /\ (Closed(m) \/ SendData(m))
        BY <1>0, <3>4, ConnectedStep
      <3> QED BY <1>2, <3>1, <3>2, <3>3, <3>4 DEF ChannelOpening
    <2> QED BY <1>u, <2>1, <2>2, ChannelStepKeeps
  <1>3. ASSUME ChannelOpen(m) PROVE MsgSysInv'
    <2>1. ~NoConnection(m) /\ ~crashed
      BY <1>3 DEF ChannelOpen, ChannelRuns, NoConnection
    <2>2. ChannelStep(m)
      BY <1>0, <1>3, ConnectedStep DEF ChannelOpen
    <2> QED BY <1>u, <2>1, <2>2, ChannelStepKeeps
  <1>4. ASSUME ChannelGone(m) PROVE MsgSysInv'
    <2>1. ~NoConnection(m) /\ ~crashed
      BY <1>4 DEF ChannelGone, ChannelRuns, NoConnection
    <2>2. ChannelStep(m)
      BY <1>0, <1>4, DeleteChannelStep DEF ChannelGone, history
    <2> QED BY <1>u, <2>1, <2>2, ChannelStepKeeps
  <1>5. ASSUME Break(m) PROVE MsgSysInv'
    <2>1. /\ ~NoConnection(m) /\ connection' = Set(connection, m, "reset")
          /\ disturbed' = disturbed \cup {m} /\ UNCHANGED <<channel, active, request, sent>>
      BY <1>5 DEF Break, NoConnection, Disturb
    <2>2. ChannelsOK' /\ \A q \in Msgs : q # m => connection'[q] = connection[q]
      BY <1>0, <2>1 DEF ChannelsOK, Set
    <2>3. ChannelStep(m)
      BY <1>0, <2>1, <2>2 DEF ChannelStep
    <2> QED BY <1>u, <2>1, <2>3, ChannelStepKeeps
  <1> QED BY <1>1, <1>2, <1>3, <1>4, <1>5 DEF SenderChannel

---------------------------------------------------------------------------
(* The receiver.                                                           *)

\* Types of the variables that belong to the receiver's channels.
ReceiverOK ==
    /\ serverChannel \in [Msgs -> {"none", "OPEN", "CLOSED", "deleted"}]
    /\ associated \in [Msgs -> BOOLEAN]
    /\ read \in [Msgs -> Nat] /\ freed \in [Msgs -> Nat]
    /\ handler \in [Msgs -> {"none", "idle", "active"}]
    /\ inbox \in [Msgs -> Nat]

\* What a step of the receiver has to show: it reads no more than was sent, and
\* a message that was delivered has been read completely or has no channel.
ReceiverStep(m) ==
    /\ ReceiverOK'
    /\ \A q \in Msgs : q # m =>
        /\ serverChannel'[q] = serverChannel[q]
        /\ read'[q] = read[q] /\ freed'[q] = freed[q] /\ inbox'[q] = inbox[q]
    /\ read'[m] <= sent[m] /\ freed'[m] <= read'[m]
    /\ inbox'[m] <= 1
    /\ serverChannel'[m] # "deleted" /\ read'[m] < Parts => inbox'[m] = 0
    /\ disturbed \subseteq disturbed' /\ disturbed' \subseteq disturbed \cup {m}

\* Such a step keeps the invariant when it leaves everything else alone.
LEMMA ReceiverStepKeeps ==
    ASSUME MsgSysInv, NEW m \in Msgs, ~NoConnection(m), ReceiverStep(m),
           UNCHANGED <<v_msgStatus, v_sendBy, v_expectAnswer, messages, current, recent,
                       crashed, channel, active, request, connection, sent,
                       ksStatus, client, running, flight, timedOut>>
    PROVE  MsgSysInv'
  <1>0. VarsOK /\ QueueInv /\ MsgsInv /\ GoneInv /\ KsInv
    BY DEF MsgSysInv
  <1>v. VarsOK'
    <2>1. ReceiverOK' /\ disturbed' \subseteq Msgs
      BY <1>0 DEF ReceiverStep, VarsOK
    <2> QED BY <1>0, <2>1 DEF VarsOK, ReceiverOK
  <1>1. Queue' = Queue /\ \A q \in Msgs : Fresh(q)' <=> Fresh(q)
    BY DEF Queue, Fresh
  <1>2. QueueInv'
    BY <1>0, <1>1 DEF QueueInv, ReceiverStep
  <1>d. v_sendBy[m] = "DIRECTLY" /\ ~Fresh(m)
    BY ConnectedIsTaken
  <1>3. ASSUME NEW q \in Msgs PROVE MsgInv(q)'
    <2>1. CASE q # m
      <3>1. Same(q)
        BY <2>1 DEF Same, ReceiverStep
      <3> QED BY <1>1, <3>1, OthersKeep DEF ReceiverStep
    <2>2. CASE q = m
      <3>2. flight[m] = "none"
        BY <1>0, <1>d DEF MsgsInv, MsgInv, ByInv
      <3>3. FreshInv(m)' /\ ByInv(m)'
        BY <1>1, <1>d, <3>2 DEF FreshInv, ByInv
      <3>4. OnceInv(m)' /\ ReadInv(m)'
        BY <3>2 DEF OnceInv, ReadInv, ReceiverStep
      <3> QED BY <2>2, <3>3, <3>4 DEF MsgInv
    <2> QED BY <2>1, <2>2
  <1>4. GoneInv'
    BY <1>0 DEF GoneInv, SenderDiesAfterSending
  <1>5. KsInv'
    <2>1. current \in Msgs \cup {Null}
      BY <1>0, ListPlaces DEF QueueInv, Queue
    <2>2. current # Null /\ v_sendBy[current] = "KSSETVAR" => inbox'[current] = inbox[current]
      BY <1>d, <2>1 DEF ReceiverStep
    <2> QED BY <1>0, <2>2 DEF KsInv, ReceiverStep
  <1> QED BY <1>v, <1>2, <1>3, <1>4, <1>5 DEF MsgSysInv, MsgsInv

\* A channel of the receiver is deleted, whatever has become of its message.
LEMMA DeleteStep ==
    ASSUME ReceiverOK, ChannelsOK, NEW m \in Msgs, NEW h \in BOOLEAN, Delete(m, h),
           inbox' = inbox \/ inbox' = Set(inbox, m, 1), inbox[m] <= 1,
           disturbed' \in {disturbed, disturbed \cup {m}}
    PROVE  ReceiverStep(m)
  <1>1. /\ serverChannel' = [serverChannel EXCEPT ![m] = "deleted"]
        /\ read' = [read EXCEPT ![m] = 0] /\ freed' = [freed EXCEPT ![m] = 0]
    BY DEF Delete, Set
  <1>2. handler' \in [Msgs -> {"none", "idle", "active"}]
    BY DEF Delete, Set, ReceiverOK
  <1>3. associated' \in [Msgs -> BOOLEAN]
    <2>1. associated' = [associated EXCEPT ![m] = FALSE]
      BY DEF Delete, Set
    <2> QED BY <2>1 DEF ReceiverOK
  <1>4. /\ inbox' \in [Msgs -> Nat] /\ inbox'[m] <= 1
        /\ \A q \in Msgs : q # m => inbox'[q] = inbox[q]
    BY DEF ReceiverOK, Set
  <1>5. ReceiverOK'
    BY <1>1, <1>2, <1>3, <1>4 DEF ReceiverOK
  <1>6. 0 <= sent[m] /\ read'[m] = 0 /\ freed'[m] = 0 /\ serverChannel'[m] = "deleted"
    BY <1>1, PartsAssumption DEF ReceiverOK, ChannelsOK
  <1>7. \A q \in Msgs : q # m => /\ serverChannel'[q] = serverChannel[q]
                                 /\ read'[q] = read[q] /\ freed'[q] = freed[q]
    BY <1>1 DEF ReceiverOK
  <1> QED BY <1>4, <1>5, <1>6, <1>7 DEF ReceiverStep

\* A channel that stays has read no more than was sent.
LEMMA StayStep ==
    ASSUME ReceiverOK, NEW m \in Msgs, NEW n \in Nat, NEW state \in {"OPEN", "CLOSED"},
           Stay(m, n, state), n <= sent[m],
           freed' = freed \/ freed' = Set(freed, m, n), freed[m] <= n,
           inbox' = inbox \/ inbox' = Set(inbox, m, 1), inbox'[m] <= 1,
           n < Parts => inbox'[m] = 0, UNCHANGED disturbed
    PROVE  ReceiverStep(m)
  <1>1. /\ serverChannel' = [serverChannel EXCEPT ![m] = state]
        /\ read' = [read EXCEPT ![m] = n] /\ handler' = [handler EXCEPT ![m] = "idle"]
    BY DEF Stay, Set
  <1>2. associated' \in [Msgs -> BOOLEAN]
    <2>1. associated' = [associated EXCEPT ![m] = TRUE]
      BY DEF Stay, Set
    <2> QED BY <2>1 DEF ReceiverOK
  <1>3. /\ inbox' \in [Msgs -> Nat]
        /\ \A q \in Msgs : q # m => inbox'[q] = inbox[q]
    BY DEF ReceiverOK, Set
  <1>4. /\ freed' \in [Msgs -> Nat] /\ freed'[m] <= n
        /\ \A q \in Msgs : q # m => freed'[q] = freed[q]
    BY DEF ReceiverOK, Set
  <1>5. ReceiverOK'
    BY <1>1, <1>2, <1>3, <1>4 DEF ReceiverOK
  <1>6. read'[m] = n /\ \A q \in Msgs : q # m => /\ serverChannel'[q] = serverChannel[q]
                                                 /\ read'[q] = read[q]
    BY <1>1 DEF ReceiverOK
  <1> QED BY <1>3, <1>4, <1>5, <1>6 DEF ReceiverStep

\* Steps of the receiver.
LEMMA ReceiverKeeps ==
    ASSUME MsgSysInv, NEW m \in Msgs, Receiver(m) \/ UnusedDataTimeOut(m)
    PROVE  MsgSysInv'
  <1>0. ReceiverOK /\ ChannelsOK /\ MsgsInv
    BY ChannelTypes DEF MsgSysInv, VarsOK, ReceiverOK
  <1>t. /\ read[m] \in Nat /\ freed[m] \in Nat /\ sent[m] \in 0..Parts /\ inbox[m] \in Nat
        /\ associated[m] \in BOOLEAN
    BY <1>0 DEF ReceiverOK, ChannelsOK
  <1>i. read[m] <= sent[m] /\ freed[m] <= read[m] /\ inbox[m] <= 1
    BY <1>0 DEF MsgsInv, MsgInv, ReadInv, OnceInv
  <1>u. UNCHANGED <<v_msgStatus, v_sendBy, v_expectAnswer, messages, current, recent, crashed,
                    channel, active, request, connection, sent,
                    ksStatus, client, running, flight, timedOut>>
    BY DEF Receiver, Accept, Receive, ReceiveFails, TimeOut, HandlerGoes, UnusedDataTimeOut,
           messageVars, senderVars, ksVars, history
  <1>n. ~NoConnection(m)
    BY DEF Receiver, Accept, Receive, ReceiveFails, TimeOut, HandlerGoes, UnusedDataTimeOut,
           NoConnection
  <1>o. serverChannel[m] # "deleted" /\ read[m] < Parts => inbox[m] = 0
    BY <1>0, <1>n, ConnectedIsTaken DEF MsgsInv, MsgInv, OnceInv
  <1> SUFFICES ReceiverStep(m)
    BY <1>n, <1>u, ReceiverStepKeeps
  <1>1. CASE Accept(m)
    <2>1. /\ serverChannel' = [serverChannel EXCEPT ![m] = "OPEN"] /\ serverChannel[m] = "none"
          /\ UNCHANGED <<associated, read, freed, handler, inbox, disturbed>>
      BY <1>1 DEF Accept, Set, history
    <2>2. ReceiverOK'
      BY <1>0, <2>1 DEF ReceiverOK
    <2>3. \A q \in Msgs : q # m => serverChannel'[q] = serverChannel[q]
      BY <1>0, <2>1 DEF ReceiverOK
    <2> QED BY <1>i, <1>o, <2>1, <2>2, <2>3 DEF ReceiverStep
  <1>2. CASE Receive(m)
    <2>0. serverChannel[m] = "OPEN"
      BY <1>2 DEF Receive
    <2>1. PICK n \in read[m]..sent[m], fin \in BOOLEAN :
            /\ n > read[m] \/ fin
            /\ LET state == IF fin THEN "CLOSED" ELSE "OPEN" IN
               \/ /\ n > read[m] /\ (associated[m] \/ identify(m, n))
                  /\ HandleRequest(m, n, state)
               \/ /\ n > read[m] /\ ~associated[m] /\ ~identify(m, n)
                  /\ Delete(m, FALSE) /\ Disturb(m)
                  /\ UNCHANGED inbox
               \/ /\ n = read[m] /\ read[m] = freed[m]
                  /\ Delete(m, associated[m])
                  /\ UNCHANGED <<inbox, disturbed>>
               \/ /\ n = read[m] /\ read[m] > freed[m]
                  /\ serverChannel' = Set(serverChannel, m, state)
                  /\ UNCHANGED <<associated, read, freed, handler, inbox, disturbed>>
      BY <1>2 DEF Receive
    <2>2. PICK state \in {"OPEN", "CLOSED"} : state = IF fin THEN "CLOSED" ELSE "OPEN"
      OBVIOUS
    <2>n. n \in Nat /\ n <= sent[m] /\ n <= Parts
      BY <1>t, PartsAssumption
    <2>3. CASE n > read[m] /\ HandleRequest(m, n, state)
      <3>0. read[m] < Parts
        BY <1>t, <2>3, <2>n, PartsAssumption
      <3>1. inbox[m] = 0
        BY <1>o, <2>0, <3>0
      <3>2. CASE /\ n = Parts /\ inbox' = Set(inbox, m, inbox[m] + 1)
                 /\ Delete(m, TRUE) \/ (Stay(m, n, state) /\ UNCHANGED freed)
                 /\ UNCHANGED disturbed
        <4>1. inbox' = Set(inbox, m, 1) /\ inbox'[m] = 1
          BY <1>0, <3>1, <3>2 DEF ReceiverOK, Set
        <4>2. CASE Delete(m, TRUE)
          BY <1>0, <1>i, <3>2, <4>1, <4>2, DeleteStep
        <4>3. CASE Stay(m, n, state) /\ UNCHANGED freed
          <5>1. freed[m] <= n /\ ~(n < Parts)
            BY <1>i, <1>t, <2>n, <3>2, PartsAssumption
          <5> QED BY <1>0, <2>n, <3>2, <4>1, <4>3, <5>1, StayStep
        <4> QED BY <3>2, <4>2, <4>3
      <3>3. CASE Delete(m, TRUE) /\ Disturb(m) /\ UNCHANGED inbox
        BY <1>0, <1>i, <3>3, DeleteStep DEF Disturb
      <3>4. CASE Stay(m, n, state) /\ UNCHANGED <<freed, inbox, disturbed>>
        <4>1. freed[m] <= n
          BY <1>i, <1>t, <2>3
        <4> QED BY <1>0, <1>i, <2>n, <3>1, <3>4, <4>1, StayStep
      <3>5. CASE /\ Stay(m, n, state)
                 /\ freed' = IF n - freed[m] < TagParts THEN freed ELSE Set(freed, m, n)
                 /\ UNCHANGED <<inbox, disturbed>>
        <4>1. freed[m] <= n
          BY <1>i, <1>t, <2>3
        <4> QED BY <1>0, <1>i, <2>n, <3>1, <3>5, <4>1, StayStep
      <3> QED BY <2>3, <3>2, <3>3, <3>4, <3>5 DEF HandleRequest
    <2>4. CASE Delete(m, FALSE) /\ Disturb(m) /\ UNCHANGED inbox
      BY <1>0, <1>i, <2>4, DeleteStep DEF Disturb
    <2>5. CASE Delete(m, associated[m]) /\ UNCHANGED <<inbox, disturbed>>
      BY <1>0, <1>i, <1>t, <2>5, DeleteStep
    <2>6. CASE /\ serverChannel' = Set(serverChannel, m, state)
               /\ UNCHANGED <<associated, read, freed, handler, inbox, disturbed>>
      <3>1. ReceiverOK' /\ \A q \in Msgs : q # m => serverChannel'[q] = serverChannel[q]
        BY <1>0, <2>6 DEF ReceiverOK, Set
      <3> QED BY <1>i, <1>o, <2>0, <2>6, <3>1 DEF ReceiverStep
    <2> QED BY <2>1, <2>2, <2>3, <2>4, <2>5, <2>6
  <1>3. CASE ReceiveFails(m)
    <2>0. serverChannel[m] = "OPEN" /\ UNCHANGED <<inbox, disturbed>>
      BY <1>3 DEF ReceiveFails, history
    <2>1. PICK n \in read[m]..sent[m] :
            \/ Delete(m, associated[m])
            \/ /\ serverChannel' = Set(serverChannel, m, "CLOSED")
               /\ read' = Set(read, m, n)
               /\ UNCHANGED <<associated, freed, handler>>
      BY <1>3 DEF ReceiveFails
    <2>2. CASE Delete(m, associated[m])
      BY <1>0, <1>i, <1>t, <2>0, <2>2, DeleteStep
    <2>3. CASE /\ serverChannel' = Set(serverChannel, m, "CLOSED")
               /\ read' = Set(read, m, n)
               /\ UNCHANGED <<associated, freed, handler>>
      <3>1. n \in Nat /\ n <= sent[m] /\ freed[m] <= n /\ (n < Parts => read[m] < Parts)
        BY <1>i, <1>t, PartsAssumption
      <3>2. ReceiverOK'
        BY <1>0, <2>0, <2>3, <3>1 DEF ReceiverOK, Set
      <3>3. read'[m] = n /\ \A q \in Msgs : q # m => serverChannel'[q] = serverChannel[q]
                                                     /\ read'[q] = read[q]
        BY <1>0, <2>3 DEF ReceiverOK, Set
      <3> QED BY <1>i, <1>o, <2>0, <2>3, <3>1, <3>2, <3>3 DEF ReceiverStep
    <2> QED BY <2>1, <2>2, <2>3
  <1>4. CASE TimeOut(m)
    <2>1. /\ Delete(m, associated[m]) /\ UNCHANGED inbox
          /\ disturbed' \in {disturbed, disturbed \cup {m}}
      BY <1>4 DEF TimeOut
    <2> QED BY <1>0, <1>i, <1>t, <2>1, DeleteStep
  <1>5. CASE HandlerGoes(m)
    <2>1. /\ handler' = [handler EXCEPT ![m] = "none"]
          /\ UNCHANGED <<serverChannel, associated, read, freed, inbox, disturbed>>
      BY <1>5 DEF HandlerGoes, Set, history
    <2>2. ReceiverOK'
      BY <1>0, <2>1 DEF ReceiverOK
    <2> QED BY <1>i, <1>o, <2>1, <2>2 DEF ReceiverStep
  <1>6. CASE UnusedDataTimeOut(m)
    <2>1. /\ freed' = [freed EXCEPT ![m] = read[m]]
          /\ UNCHANGED <<serverChannel, associated, read, handler, inbox>>
          /\ disturbed' \in {disturbed, disturbed \cup {m}}
      BY <1>6 DEF UnusedDataTimeOut, Set
    <2>2. ReceiverOK'
      BY <1>0, <1>t, <2>1 DEF ReceiverOK
    <2>3. freed'[m] = read[m] /\ \A q \in Msgs : q # m => freed'[q] = freed[q]
      BY <1>0, <2>1 DEF ReceiverOK
    <2>4. freed'[m] <= read'[m]
      BY <1>t, <2>1, <2>3
    <2> QED BY <1>i, <1>o, <2>1, <2>2, <2>3, <2>4 DEF ReceiverStep
  <1> QED BY <1>1, <1>2, <1>3, <1>4, <1>5, <1>6 DEF Receiver

---------------------------------------------------------------------------
(* The ksapi client and its requests.                                      *)

\* A step that leaves the queue and the channels alone.
LEMMA QueueKept ==
    ASSUME MsgSysInv, disturbed \subseteq disturbed',
           UNCHANGED <<v_msgStatus, v_sendBy, v_expectAnswer, messages, current, crashed,
                       channel, sent>>
    PROVE  QueueInv' /\ GoneInv' /\ \A q \in Msgs : Fresh(q)' <=> Fresh(q)
  <1>0. QueueInv /\ GoneInv /\ Queue' = Queue
    BY DEF MsgSysInv, Queue
  <1>1. QueueInv'
    BY <1>0 DEF QueueInv
  <1>2. GoneInv'
    BY <1>0 DEF GoneInv, SenderDiesAfterSending
  <1> QED BY <1>0, <1>1, <1>2 DEF Fresh

\* The receiver answers a request.
LEMMA RetrieveKeeps ==
    ASSUME MsgSysInv, NEW m \in Msgs, retrieveMessage(m)
    PROVE  MsgSysInv'
  <1>0. VarsOK /\ MsgInv(m) /\ KsInv
    BY DEF MsgSysInv, MsgsInv
  <1>1. /\ flight[m] = "request" /\ inbox[m] = 0 /\ v_sendBy[m] = "KSSETVAR" /\ ~Fresh(m)
        /\ NoConnection(m) /\ ReadInv(m)
    BY <1>0 DEF retrieveMessage, MsgInv, OnceInv, ByInv, FreshInv
  <1>u. UNCHANGED <<v_msgStatus, v_sendBy, v_expectAnswer, messages, current, recent, crashed,
                    channel, active, request, connection, sent, serverChannel, associated,
                    read, freed, handler, ksStatus, client, running, timedOut>>
    BY DEF retrieveMessage, messageVars, senderVars
  <1>2. /\ \/ flight' = Set(flight, m, "answer") /\ inbox' = Set(inbox, m, 1)
              /\ disturbed' = disturbed
           \/ /\ flight' \in {Set(flight, m, "answer"), Set(flight, m, "none")}
              /\ inbox' = inbox /\ disturbed' = disturbed \cup {m}
    BY <1>1 DEF retrieveMessage, Disturb
  <1>3. /\ flight' \in [Msgs -> {"none", "request", "answer"}] /\ inbox' \in [Msgs -> Nat]
        /\ flight'[m] \in {"none", "answer"} /\ inbox'[m] \in {0, 1}
        /\ inbox'[m] = 1 \/ m \in disturbed'
        /\ \A q \in Msgs : q # m => flight'[q] = flight[q] /\ inbox'[q] = inbox[q]
        /\ disturbed \subseteq disturbed' /\ disturbed' \subseteq disturbed \cup {m}
    BY <1>0, <1>1, <1>2 DEF VarsOK, Set
  <1>4. VarsOK'
    BY <1>0, <1>u, <1>3 DEF VarsOK
  <1>5. QueueInv' /\ GoneInv' /\ \A q \in Msgs : Fresh(q)' <=> Fresh(q)
    BY <1>u, <1>3, QueueKept
  <1>6. ASSUME NEW q \in Msgs PROVE MsgInv(q)'
    <2>1. CASE q # m
      <3>1. Same(q)
        BY <1>u, <1>3, <2>1 DEF Same
      <3> QED BY <1>u, <1>3, <1>5, <3>1, OthersKeep
    <2>2. CASE q = m
      <3>1. NoConnection(m)' /\ v_sendBy'[m] = "KSSETVAR"
        BY <1>1, <1>u DEF NoConnection
      <3>2. FreshInv(m)' /\ ByInv(m)'
        BY <1>1, <1>5, <3>1 DEF FreshInv, ByInv
      <3>3. OnceInv(m)'
        BY <1>3, <3>1 DEF OnceInv
      <3>4. ReadInv(m)'
        BY <1>1, <1>u DEF ReadInv
      <3> QED BY <2>2, <3>2, <3>3, <3>4 DEF MsgInv
    <2> QED BY <2>1, <2>2
  <1>7. KsInv'
    <2>1. current \in Msgs \cup {Null}
      BY ListPlaces DEF MsgSysInv, QueueInv, Queue
    <2>2. current # Null /\ (inbox[current] = 1 \/ current \in disturbed)
            => inbox'[current] = 1 \/ current \in disturbed'
      BY <1>3, <2>1
    <2> QED BY <1>0, <1>u, <2>2 DEF KsInv
  <1> QED BY <1>4, <1>5, <1>6, <1>7 DEF MsgSysInv, MsgsInv

\* The client takes an answer: before the first time-out it is that to the
\* current message.
LEMMA AnswerKeeps ==
    ASSUME MsgSysInv, NEW m \in Msgs, Answer(m)
    PROVE  MsgSysInv'
  <1>0. VarsOK /\ MsgInv(m) /\ KsInv
    BY DEF MsgSysInv, MsgsInv
  <1>1. /\ inbox[m] = 1 \/ m \in disturbed
        /\ v_sendBy[m] = "KSSETVAR" /\ ~Fresh(m)
        /\ NoConnection(m) /\ ReadInv(m) /\ inbox[m] <= 1
    BY <1>0 DEF Answer, MsgInv, OnceInv, ByInv, FreshInv
  <1>u. UNCHANGED <<v_msgStatus, v_sendBy, v_expectAnswer, messages, current, recent, crashed,
                    channel, active, request, connection, sent, serverChannel, associated,
                    read, freed, handler, inbox, timedOut>>
    BY DEF Answer, messageVars, senderVars, serverVars
  <1>2. /\ flight' \in [Msgs -> {"none", "request", "answer"}] /\ flight'[m] = "none"
        /\ \A q \in Msgs : q # m => flight'[q] = flight[q]
        /\ disturbed \subseteq disturbed' /\ disturbed' \subseteq disturbed \cup {m}
    BY <1>0 DEF VarsOK, Answer, Set, Disturb
  <1>3. VarsOK'
    <2>1. /\ ksStatus' \in {"INITIAL", "WAITINGFORANSWER", "REQUESTCOMPLETED", "INTERNALERROR",
                            "EXTERNALERROR"}
          /\ client' \in {"idle", "busy", "error"} /\ running' \in Msgs \cup {Null}
      BY <1>0 DEF VarsOK, Answer
    <2> QED BY <1>0, <1>u, <1>2, <2>1 DEF VarsOK
  <1>4. QueueInv' /\ GoneInv' /\ \A q \in Msgs : Fresh(q)' <=> Fresh(q)
    BY <1>u, <1>2, QueueKept
  <1>5. ASSUME NEW q \in Msgs PROVE MsgInv(q)'
    <2>1. CASE q # m
      <3>1. Same(q)
        BY <1>u, <1>2, <2>1 DEF Same
      <3> QED BY <1>u, <1>2, <1>4, <3>1, OthersKeep
    <2>2. CASE q = m
      <3>1. NoConnection(m)' /\ v_sendBy'[m] = "KSSETVAR"
        BY <1>1, <1>u DEF NoConnection
      <3>2. FreshInv(m)' /\ ByInv(m)'
        BY <1>1, <1>4, <3>1 DEF FreshInv, ByInv
      <3>3. OnceInv(m)' /\ ReadInv(m)'
        BY <1>1, <1>2, <1>u, <3>1 DEF OnceInv, ReadInv
      <3> QED BY <2>2, <3>2, <3>3 DEF MsgInv
    <2> QED BY <2>1, <2>2
  <1>6. KsInv'
    <2>1. CASE running # m
      BY <1>0, <1>u, <1>2, <2>1 DEF Answer, KsInv
    <2>2. CASE running = m
      <3>0. m # Null
        BY NullAssumption
      <3>1. timedOut = {} => current = m /\ ksStatus = "WAITINGFORANSWER"
        BY <1>0, <2>2, <3>0 DEF KsInv
      <3>2. running' = Null
        BY <2>2 DEF Answer
      <3>3. timedOut = {} => inbox'[current] = 1 \/ current \in disturbed'
        BY <1>1, <1>u, <1>2, <3>1
      <3> QED BY <1>u, <3>2, <3>3 DEF KsInv
    <2> QED BY <2>1, <2>2
  <1> QED BY <1>3, <1>4, <1>5, <1>6 DEF MsgSysInv, MsgsInv

\* Time passes for the client and for the queue, or nothing happens.
LEMMA TimeKeeps ==
    ASSUME MsgSysInv, ClientTimeOut \/ Expire \/ UNCHANGED vars
    PROVE  MsgSysInv'
  <1>0. VarsOK /\ KsInv
    BY DEF MsgSysInv
  <1>u. UNCHANGED <<v_msgStatus, v_sendBy, v_expectAnswer, messages, current, crashed,
                    channel, active, request, connection, sent, serverChannel, associated,
                    read, freed, handler, inbox, ksStatus, running, flight, disturbed,
                    timedOut>>
    BY DEF ClientTimeOut, Expire, vars, messageVars, senderVars, serverVars, ksVars, history
  <1>1. recent' \in BOOLEAN
    BY <1>0 DEF ClientTimeOut, Expire, vars, VarsOK
  <1>2. client' \in {"idle", "busy", "error"}
    BY <1>0 DEF ClientTimeOut, Expire, vars, ksVars, VarsOK
  <1>3. VarsOK'
    BY <1>0, <1>u, <1>1, <1>2 DEF VarsOK
  <1>4. QueueInv' /\ GoneInv' /\ \A q \in Msgs : Fresh(q)' <=> Fresh(q)
    BY <1>u, QueueKept
  <1>5. MsgsInv'
    <2>1. \A q \in Msgs : Same(q)
      BY <1>u DEF Same
    <2> QED BY <1>u, <1>4, <2>1, OthersKeep DEF MsgsInv
  <1>6. KsInv'
    BY <1>0, <1>u DEF KsInv
  <1> QED BY <1>3, <1>4, <1>5, <1>6 DEF MsgSysInv

---------------------------------------------------------------------------
(* MsgDelivery.                                                            *)

\* A message is put on the queue for the first time.
LEMMA SendMessageKeeps ==
    ASSUME MsgSysInv, NEW m \in Msgs, NEW k \in Kinds, sendMessage(m, k[1], k[2])
    PROVE  MsgSysInv'
  <1>0. VarsOK /\ QueueInv /\ MsgsInv /\ GoneInv /\ KsInv
    BY DEF MsgSysInv
  <1>u. UNCHANGED <<current, recent, crashed, channel, active, request, connection, sent,
                    serverChannel, associated, read, freed, handler, inbox, ksStatus, client,
                    running, flight, disturbed, timedOut>>
    BY DEF sendMessage, senderVars, serverVars, ksVars, history
  <1>1. /\ ~crashed /\ v_msgStatus[m] = "READYFORSENDING"
        /\ v_msgStatus' = [v_msgStatus EXCEPT ![m] = "WAITING"]
        /\ v_sendBy' = [v_sendBy EXCEPT ![m] = k[1]]
        /\ messages' = Append(messages, m)
    BY DEF sendMessage, Set
  <1>2. v_expectAnswer' = [v_expectAnswer EXCEPT ![m] = k[2]]
    BY DEF sendMessage, Set
  <1>k. /\ k[1] \in {"DIRECTLY", "KSSETVAR", "EXTENSION"} /\ k[2] \in BOOLEAN
        /\ k[2] => k[1] = "DIRECTLY"
    <2>1. ASSUME NEW a, NEW b, k = <<a, b>> PROVE k[1] = a /\ k[2] = b
      BY <2>1
    <2>2. CASE k = <<"DIRECTLY", TRUE>>
      <3>1. k[1] = "DIRECTLY" /\ k[2] = TRUE
        BY <2>1, <2>2
      <3> QED BY <3>1
    <2>3. ASSUME NEW a \in {"DIRECTLY", "KSSETVAR", "EXTENSION"}, k = <<a, FALSE>>
          PROVE  k[1] \in {"DIRECTLY", "KSSETVAR", "EXTENSION"} /\ k[2] = FALSE
      BY <2>1, <2>3
    <2> QED BY <2>2, <2>3, Zenon DEF Kinds
  <1>3. m \notin Queue /\ IsListOf(messages', Msgs) /\ Queue' = Queue \cup {m}
    <2>1. m \notin Queue
      BY <1>0, <1>1 DEF QueueInv
    <2> QED BY <1>0, <1>1, <2>1, AppendKeepsList DEF QueueInv, Queue
  <1>4. current # m /\ current \in Queue \cup {Null} /\ current \in Msgs \cup {Null}
    BY <1>0, <1>3, NullAssumption, ListPlaces DEF QueueInv, Queue
  <1>5. VarsOK'
    <2>1. /\ v_msgStatus' \in [Msgs -> {"READYFORSENDING", "WAITING", "FATALERROR", "deleted"}]
          /\ v_sendBy' \in [Msgs -> {"DIRECTLY", "KSSETVAR", "EXTENSION"}]
      BY <1>0, <1>1, <1>k DEF VarsOK
    <2>2. v_expectAnswer' \in [Msgs -> BOOLEAN]
      BY <1>0, <1>2, <1>k DEF VarsOK
    <2>3. \A q \in Msgs : v_expectAnswer'[q] => v_sendBy'[q] = "DIRECTLY"
      <3> SUFFICES ASSUME NEW q \in Msgs, v_expectAnswer'[q] PROVE v_sendBy'[q] = "DIRECTLY"
        OBVIOUS
      <3>1. CASE q = m
        <4>1. v_expectAnswer'[m] = k[2]
          BY <1>0, <1>2 DEF VarsOK
        <4>2. v_sendBy'[m] = k[1]
          BY <1>0, <1>1 DEF VarsOK
        <4> QED BY <1>k, <3>1, <4>1, <4>2
      <3>2. CASE q # m
        <4>1. v_expectAnswer'[q] = v_expectAnswer[q]
          BY <1>0, <1>2, <3>2 DEF VarsOK
        <4>2. v_sendBy'[q] = v_sendBy[q]
          BY <1>0, <1>1, <3>2 DEF VarsOK
        <4> QED BY <1>0, <4>1, <4>2 DEF VarsOK
      <3> QED BY <3>1, <3>2
    <2> QED BY <1>0, <1>u, <2>1, <2>2, <2>3 DEF VarsOK
  <1>s. /\ v_msgStatus'[m] = "WAITING"
        /\ \A q \in Msgs : q # m => /\ v_msgStatus'[q] = v_msgStatus[q]
                                    /\ v_sendBy'[q] = v_sendBy[q]
    BY <1>0, <1>1 DEF VarsOK
  <1>6. QueueInv'
    <2>1. Queue \subseteq Msgs
      BY <1>0, ListPlaces DEF QueueInv, Queue
    <2> QED BY <1>0, <1>3, <1>4, <1>s, <1>u, <2>1 DEF QueueInv
  <1>7. ASSUME NEW q \in Msgs PROVE MsgInv(q)'
    <2>0. Same(q)
      BY <1>u DEF Same
    <2>1. CASE q # m
      <3>1. Fresh(q)' => Fresh(q)
        BY <1>3, <1>s, <1>u, <2>1 DEF Fresh
      <3> QED BY <1>s, <1>u, <2>0, <2>1, <3>1, OthersKeep
    <2>2. CASE q = m
      <3>1. NoConnection(m) /\ sent[m] = 0 /\ inbox[m] = 0 /\ flight[m] = "none" /\ ReadInv(m)
        BY <1>0, <1>1 DEF MsgsInv, MsgInv, FreshInv, Fresh
      <3>2. NoConnection(m)'
        BY <1>u, <3>1 DEF NoConnection
      <3>3. FreshInv(m)' /\ ByInv(m)'
        BY <1>u, <3>1, <3>2 DEF FreshInv, ByInv
      <3>4. OnceInv(m)' /\ ReadInv(m)'
        BY <1>u, <3>1 DEF OnceInv, ReadInv
      <3> QED BY <2>2, <3>3, <3>4 DEF MsgInv
    <2> QED BY <2>1, <2>2
  <1>8. GoneInv'
    <2>1. current # Null => /\ v_sendBy'[current] = v_sendBy[current]
                            /\ v_msgStatus'[current] = v_msgStatus[current]
      BY <1>4, <1>s
    <2>2. current # Null => v_expectAnswer'[current] = v_expectAnswer[current]
      BY <1>0, <1>2, <1>4 DEF VarsOK
    <2> QED BY <1>0, <1>1, <1>u, <2>1, <2>2 DEF GoneInv, SenderDiesAfterSending
  <1>9. KsInv'
    <2>1. current # Null => /\ v_sendBy'[current] = v_sendBy[current]
                            /\ v_msgStatus'[current] = v_msgStatus[current]
      BY <1>4, <1>s
    <2>2. timedOut = {} /\ running # Null => current # Null
      BY <1>0 DEF KsInv
    <2> QED BY <1>0, <1>u, <2>1, <2>2 DEF KsInv
  <1> QED BY <1>5, <1>6, <1>7, <1>8, <1>9 DEF MsgSysInv, MsgsInv

\* The message that may be taken.
LEMMA TakeFacts ==
    ASSUME MsgSysInv, NEW m \in Msgs, NEW by, MayTake(m, by)
    PROVE  /\ ~crashed /\ current = Null /\ m \in Queue /\ v_sendBy[m] = by
           /\ v_msgStatus[m] = "WAITING" /\ m # Null
           /\ NoConnection(m) /\ sent[m] = 0 /\ inbox[m] = 0 /\ flight[m] = "none"
           /\ read[m] = 0 /\ freed[m] = 0
           /\ timedOut = {} => running = Null
           /\ \A q \in Queue : q \in Msgs /\ (q # m => Fresh(q))
  <1>0. QueueInv /\ MsgInv(m) /\ KsInv /\ VarsOK
    BY DEF MsgSysInv, MsgsInv
  <1>1. ~crashed /\ current = Null /\ messages # <<>> /\ m = Head(messages) /\ v_sendBy[m] = by
    BY DEF MayTake
  <1>2. m \in Queue /\ m # Null /\ Queue \subseteq Msgs
    BY <1>0, <1>1, HeadOfList, NullAssumption, ListPlaces DEF QueueInv, Queue
  <1>3. v_msgStatus[m] = "WAITING"
    BY <1>0, <1>1, <1>2 DEF QueueInv
  <1>4. Fresh(m) /\ \A q \in Queue : Fresh(q)
    BY <1>1, <1>2, NullAssumption DEF Fresh
  <1>5. NoConnection(m) /\ sent[m] = 0 /\ inbox[m] = 0 /\ flight[m] = "none" /\ ReadInv(m)
    BY <1>0, <1>4 DEF MsgInv, FreshInv
  <1>6. read[m] = 0 /\ freed[m] = 0
    <2>1. read[m] \in Nat /\ freed[m] \in Nat
      BY <1>0 DEF VarsOK
    <2> QED BY <1>5, <2>1 DEF ReadInv
  <1>7. timedOut = {} => running = Null
    BY <1>0, <1>1 DEF KsInv
  <1> QED BY <1>1, <1>2, <1>3, <1>4, <1>5, <1>6, <1>7

\* A message that is taken is current, and no longer fresh.
LEMMA TakenIsCurrent ==
    ASSUME MsgSysInv, NEW m \in Msgs, NEW by, MayTake(m, by), current' = m,
           UNCHANGED messages, NEW status \in {"WAITING", "FATALERROR"},
           v_msgStatus' = Set(v_msgStatus, m, status),
           disturbed \subseteq disturbed', status = "FATALERROR" => m \in disturbed'
    PROVE  /\ QueueInv' /\ ~Fresh(m)' /\ v_msgStatus'[m] = status
           /\ v_msgStatus' \in
                [Msgs -> {"READYFORSENDING", "WAITING", "FATALERROR", "deleted"}]
           /\ \A q \in Msgs : q # m => (Fresh(q)' => Fresh(q))
  <1>0. VarsOK /\ QueueInv /\ Queue' = Queue
    BY DEF MsgSysInv, Queue
  <1>1. m \in Queue /\ current = Null /\ m # Null /\ \A q \in Queue : q \in Msgs
    BY TakeFacts
  <1>2. /\ v_msgStatus'[m] = status
        /\ v_msgStatus' \in [Msgs -> {"READYFORSENDING", "WAITING", "FATALERROR", "deleted"}]
        /\ \A q \in Msgs : q # m => v_msgStatus'[q] = v_msgStatus[q]
    BY <1>0 DEF VarsOK, Set
  <1>3. QueueInv'
    <2>1. IsListOf(messages', Msgs)
      BY <1>0 DEF QueueInv
    <2>2. \A q \in Queue : v_msgStatus'[q] \in {"WAITING", "FATALERROR"}
      BY <1>0, <1>1, <1>2 DEF QueueInv
    <2>3. \A q \in Msgs : v_msgStatus'[q] = "FATALERROR" => q = m /\ q \in disturbed'
      BY <1>0, <1>1, <1>2, NullAssumption DEF QueueInv
    <2> QED BY <1>0, <1>1, <2>1, <2>2, <2>3 DEF QueueInv
  <1>4. ~Fresh(m)'
    BY <1>2 DEF Fresh
  <1>5. \A q \in Msgs : q # m => (Fresh(q)' => Fresh(q))
    BY <1>0, <1>1, <1>2, NullAssumption DEF Fresh
  <1> QED BY <1>2, <1>3, <1>4, <1>5

\* A message that fails when it is taken has been disturbed.
LEMMA TakeFailsKeeps ==
    ASSUME MsgSysInv, NEW m \in Msgs, TakeFails(m)
    PROVE  MsgSysInv'
  <1>0. VarsOK
    BY DEF MsgSysInv
  <1>1. PICK by : MayTake(m, by)
    BY DEF TakeFails
  <1>u. UNCHANGED <<v_sendBy, v_expectAnswer, messages, recent, crashed, channel, active,
                    request, connection, sent, serverChannel, associated, read, freed, handler,
                    inbox, ksStatus, client, running, flight, timedOut>>
    BY DEF TakeFails, senderVars, serverVars, ksVars
  <1>2. /\ current' = m /\ v_msgStatus' = Set(v_msgStatus, m, "FATALERROR")
        /\ disturbed' = disturbed \cup {m}
    BY DEF TakeFails, Disturb
  <1>3. /\ QueueInv' /\ ~Fresh(m)' /\ v_msgStatus'[m] = "FATALERROR"
        /\ v_msgStatus' \in [Msgs -> {"READYFORSENDING", "WAITING", "FATALERROR", "deleted"}]
        /\ \A q \in Msgs : q # m => (Fresh(q)' => Fresh(q))
    BY <1>1, <1>2, <1>u, TakenIsCurrent
  <1>4. VarsOK'
    BY <1>0, <1>2, <1>3, <1>u DEF VarsOK
  <1>5. MsgsInv'
    <2>1. \A q \in Msgs : Same(q) /\ (Fresh(q)' => Fresh(q))
      BY <1>3, <1>u DEF Same
    <2> QED BY <1>2, <1>u, <2>1, OthersKeep DEF MsgsInv
  <1>6. ~crashed /\ (timedOut = {} => running = Null)
    BY <1>1, TakeFacts
  <1>7. GoneInv'
    BY <1>2, <1>3, <1>6, <1>u DEF GoneInv, SenderDiesAfterSending
  <1>8. KsInv'
    BY <1>2, <1>6, <1>u DEF KsInv
  <1> QED BY <1>3, <1>4, <1>5, <1>7, <1>8 DEF MsgSysInv

\* A channel is created for a message, or is not.
LEMMA TakeDirectlyKeeps ==
    ASSUME MsgSysInv, NEW m \in Msgs, TakeDirectly(m)
    PROVE  MsgSysInv'
  <1>0. VarsOK /\ ChannelsOK
    BY ChannelTypes DEF MsgSysInv
  <1>1. MayTake(m, "DIRECTLY")
    BY DEF TakeDirectly
  <1>t. /\ ~crashed /\ v_sendBy[m] = "DIRECTLY" /\ sent[m] = 0 /\ inbox[m] = 0
        /\ flight[m] = "none" /\ read[m] = 0 /\ freed[m] = 0 /\ v_msgStatus[m] = "WAITING"
        /\ timedOut = {} => running = Null
    BY <1>1, TakeFacts
  <1>u. UNCHANGED <<v_sendBy, v_expectAnswer, messages, recent, crashed, connection,
                    serverChannel, associated, read, freed, handler,
                    inbox, ksStatus, client, running, flight, timedOut>>
    BY DEF TakeDirectly, serverVars, ksVars
  <1>2. current' = m /\ sent' = [sent EXCEPT ![m] = 0]
    BY DEF TakeDirectly, Set
  <1>3. PICK status \in {"WAITING", "FATALERROR"}, state \in {"OPENING", "COULDNOTOPEN"} :
          /\ channel' = Set(channel, m, state) /\ v_msgStatus' = Set(v_msgStatus, m, status)
          /\ disturbed \subseteq disturbed' /\ disturbed' \subseteq disturbed \cup {m}
          /\ status = "FATALERROR" => m \in disturbed'
    <2>1. CASE /\ channel' = Set(channel, m, "OPENING")
               /\ UNCHANGED <<v_msgStatus, disturbed>>
      <3>1. v_msgStatus' = Set(v_msgStatus, m, "WAITING")
        BY <1>0, <1>t, <2>1 DEF VarsOK, Set
      <3> QED BY <2>1, <3>1
    <2>2. CASE /\ channel' = Set(channel, m, "COULDNOTOPEN")
               /\ v_msgStatus' = Set(v_msgStatus, m, "FATALERROR")
               /\ Disturb(m)
      BY <2>2 DEF Disturb
    <2> QED BY <2>1, <2>2 DEF TakeDirectly
  <1>4. /\ QueueInv' /\ ~Fresh(m)'
        /\ v_msgStatus' \in [Msgs -> {"READYFORSENDING", "WAITING", "FATALERROR", "deleted"}]
        /\ \A q \in Msgs : q # m => (Fresh(q)' => Fresh(q))
    BY <1>1, <1>2, <1>3, <1>u, TakenIsCurrent
  <1>a. /\ active' \in [Msgs -> BOOLEAN]
        /\ \A q \in Msgs : q # m => active'[q] = active[q]
    <2>1. active' = active \/ active' = [active EXCEPT ![m] = TRUE]
      BY DEF TakeDirectly, Set
    <2> QED BY <1>0, <2>1 DEF ChannelsOK
  <1>r. /\ request' \in [Msgs -> {"none", "waiting", "connected", "refused", "unresolved"}]
        /\ \A q \in Msgs : q # m => request'[q] = request[q]
    <2>1. request' = request \/ request' = [request EXCEPT ![m] = "waiting"]
      BY DEF TakeDirectly, Set
    <2> QED BY <1>0, <2>1 DEF ChannelsOK
  <1>s. /\ sent' \in [Msgs -> 0..Parts] /\ sent'[m] = 0
        /\ \A q \in Msgs : q # m => sent'[q] = sent[q]
    BY <1>0, <1>2, PartsAssumption DEF ChannelsOK
  <1>c. /\ channel' \in
             [Msgs -> {"none", "OPENING", "OPEN", "COULDNOTOPEN", "SENDERROR", "CLOSED"}]
        /\ channel'[m] # "none"
        /\ \A q \in Msgs : q # m => channel'[q] = channel[q]
    BY <1>0, <1>3 DEF ChannelsOK, Set
  <1>5. VarsOK'
    <2>1. disturbed' \subseteq Msgs
      BY <1>0, <1>3 DEF VarsOK
    <2> QED BY <1>0, <1>4, <1>a, <1>r, <1>s, <1>c, <1>u, <2>1 DEF VarsOK
  <1>6. ASSUME NEW q \in Msgs PROVE MsgInv(q)'
    <2>1. CASE q # m
      <3>1. Same(q)
        BY <1>a, <1>r, <1>s, <1>c, <1>u, <2>1 DEF Same
      <3> QED BY <1>3, <1>4, <1>u, <2>1, <3>1, OthersKeep
    <2>2. CASE q = m
      <3>1. FreshInv(m)' /\ ByInv(m)'
        BY <1>4, <1>t, <1>u DEF FreshInv, ByInv
      <3>2. ReadInv(m)' /\ OnceInv(m)'
        BY <1>s, <1>t, <1>u DEF ReadInv, OnceInv
      <3> QED BY <2>2, <3>1, <3>2 DEF MsgInv
    <2> QED BY <2>1, <2>2
  <1>7. GoneInv'
    BY <1>2, <1>c, <1>t, <1>u DEF GoneInv, SenderDiesAfterSending
  <1>8. KsInv'
    BY <1>2, <1>t, <1>u DEF KsInv
  <1> QED BY <1>4, <1>5, <1>6, <1>7, <1>8 DEF MsgSysInv, MsgsInv

\* The client is given a message, or refuses it.
LEMMA TakeSetVarKeeps ==
    ASSUME MsgSysInv, NEW m \in Msgs, TakeSetVar(m)
    PROVE  MsgSysInv'
  <1>0. VarsOK
    BY DEF MsgSysInv
  <1>1. MayTake(m, "KSSETVAR")
    BY DEF TakeSetVar
  <1>t. /\ ~crashed /\ v_sendBy[m] = "KSSETVAR" /\ sent[m] = 0 /\ inbox[m] = 0
        /\ flight[m] = "none" /\ read[m] = 0 /\ freed[m] = 0 /\ v_msgStatus[m] = "WAITING"
        /\ NoConnection(m)
        /\ timedOut = {} => running = Null
    BY <1>1, TakeFacts
  <1>u. UNCHANGED <<v_msgStatus, v_sendBy, v_expectAnswer, messages, crashed, channel, active,
                    request, connection, sent, serverChannel, associated, read, freed, handler,
                    inbox, timedOut>>
    BY DEF TakeSetVar, senderVars, serverVars
  <1>2. current' = m /\ v_msgStatus' = Set(v_msgStatus, m, "WAITING")
    BY <1>0, <1>t, <1>u DEF TakeSetVar, VarsOK, Set
  <1>3. /\ ksStatus' \in {"WAITINGFORANSWER", "INTERNALERROR"}
        /\ client' \in {"idle", "busy", "error"}
        /\ \/ flight' = flight /\ running' = running
           \/ flight' = [flight EXCEPT ![m] = "request"] /\ running' = m
              /\ ksStatus' = "WAITINGFORANSWER"
        /\ disturbed \subseteq disturbed' /\ disturbed' \subseteq disturbed \cup {m}
    BY <1>0 DEF TakeSetVar, submit, Set, Disturb, VarsOK
  <1>4. /\ QueueInv' /\ ~Fresh(m)'
        /\ v_msgStatus' \in [Msgs -> {"READYFORSENDING", "WAITING", "FATALERROR", "deleted"}]
        /\ \A q \in Msgs : q # m => (Fresh(q)' => Fresh(q))
    BY <1>1, <1>2, <1>3, <1>u, TakenIsCurrent
  <1>f. /\ flight' \in [Msgs -> {"none", "request", "answer"}]
        /\ flight'[m] \in {"none", "request"}
        /\ \A q \in Msgs : q # m => flight'[q] = flight[q]
    BY <1>0, <1>3, <1>t DEF VarsOK
  <1>5. VarsOK'
    <2>1. recent' \in BOOLEAN
      BY DEF TakeSetVar
    <2>2. /\ disturbed' \subseteq Msgs /\ running' \in Msgs \cup {Null}
          /\ ksStatus' \in {"INITIAL", "WAITINGFORANSWER", "REQUESTCOMPLETED",
                            "INTERNALERROR", "EXTERNALERROR"}
      BY <1>0, <1>3 DEF VarsOK
    <2> QED BY <1>0, <1>3, <1>f, <1>u, <2>1, <2>2 DEF VarsOK
  <1>6. ASSUME NEW q \in Msgs PROVE MsgInv(q)'
    <2>1. CASE q # m
      <3>1. Same(q)
        BY <1>f, <1>u, <2>1 DEF Same
      <3> QED BY <1>3, <1>4, <1>u, <2>1, <3>1, OthersKeep
    <2>2. CASE q = m
      <3>1. NoConnection(m)'
        BY <1>t, <1>u DEF NoConnection
      <3>2. FreshInv(m)' /\ ByInv(m)'
        BY <1>4, <1>t, <1>u, <3>1 DEF FreshInv, ByInv
      <3>3. ReadInv(m)' /\ OnceInv(m)'
        BY <1>f, <1>t, <1>u DEF ReadInv, OnceInv
      <3> QED BY <2>2, <3>2, <3>3 DEF MsgInv
    <2> QED BY <2>1, <2>2
  <1>7. GoneInv'
    BY <1>2, <1>t, <1>u DEF GoneInv, SenderDiesAfterSending
  <1>8. KsInv'
    <2>1. timedOut = {} /\ running' # Null => running' = m /\ ksStatus' = "WAITINGFORANSWER"
      BY <1>3, <1>t
    <2> QED BY <1>2, <1>3, <1>t, <1>u, <2>1 DEF KsInv
  <1> QED BY <1>4, <1>5, <1>6, <1>7, <1>8 DEF MsgSysInv, MsgsInv

---------------------------------------------------------------------------
(* Messages leave the queue.                                               *)

\* What a message taken off the queue leaves behind: it is deleted, or waits
\* no longer for MsgDelivery.
Removed(m) ==
    /\ current' = Null /\ messages' = RemoveFirst(messages, m)
    /\ \/ v_msgStatus' = Set(v_msgStatus, m, "deleted")
       \/ v_msgStatus' = v_msgStatus /\ v_msgStatus[m] = "WAITING"

\* The queue without a message that was current or the next one.
LEMMA RemovedFromQueue ==
    ASSUME MsgSysInv, NEW m \in Msgs, m \in Queue, current \in {m, Null}, Removed(m),
           disturbed \subseteq disturbed'
    PROVE  /\ QueueInv' /\ ~Fresh(m)'
           /\ v_msgStatus' \in
                [Msgs -> {"READYFORSENDING", "WAITING", "FATALERROR", "deleted"}]
           /\ \A q \in Msgs : Fresh(q)' => Fresh(q)
  <1>0. VarsOK /\ QueueInv
    BY DEF MsgSysInv
  <1>1. IsListOf(messages', Msgs) /\ Queue' = Queue \ {m} /\ Queue \subseteq Msgs
    BY <1>0, RemoveFirstKeepsList, ListPlaces DEF QueueInv, Queue, Removed
  <1>2. /\ v_msgStatus' \in [Msgs -> {"READYFORSENDING", "WAITING", "FATALERROR", "deleted"}]
        /\ v_msgStatus'[m] \in {"deleted", "WAITING"}
        /\ \A q \in Msgs : q # m => v_msgStatus'[q] = v_msgStatus[q]
    BY <1>0 DEF VarsOK, Removed, Set
  <1>3. current' = Null
    BY DEF Removed
  <1>4. QueueInv'
    <2>1. \A q \in Queue' : v_msgStatus'[q] \in {"WAITING", "FATALERROR"}
      BY <1>0, <1>1, <1>2 DEF QueueInv
    <2>2. \A q \in Msgs : v_msgStatus'[q] # "FATALERROR"
      <3> SUFFICES ASSUME NEW q \in Msgs, v_msgStatus'[q] = "FATALERROR" PROVE FALSE
        OBVIOUS
      <3>1. q # m /\ v_msgStatus[q] = "FATALERROR"
        BY <1>2
      <3>2. current = q
        BY <1>0, <3>1 DEF QueueInv
      <3> QED BY <3>1, <3>2, NullAssumption
    <2> QED BY <1>1, <1>3, <2>1, <2>2 DEF QueueInv
  <1>5. ~Fresh(m)'
    BY <1>1, <1>2 DEF Fresh
  <1>6. ASSUME NEW q \in Msgs, Fresh(q)' PROVE Fresh(q)
    <2>1. q # m
      BY <1>5, <1>6
    <2>2. q # current
      BY <2>1, NullAssumption
    <2> QED BY <1>1, <1>2, <1>6, <2>1, <2>2 DEF Fresh
  <1> QED BY <1>2, <1>4, <1>5, <1>6

\* It keeps the invariant when nothing else happens to any message.
LEMMA RemovedKeeps ==
    ASSUME MsgSysInv, NEW m \in Msgs, m \in Queue, current \in {m, Null}, Removed(m),
           disturbed \subseteq disturbed', disturbed' \subseteq Msgs, timedOut' \subseteq Msgs,
           ksStatus' \in {"INITIAL", "WAITINGFORANSWER", "REQUESTCOMPLETED", "INTERNALERROR",
                          "EXTERNALERROR"},
           client' \in {"idle", "busy", "error"}, running' \in Msgs \cup {Null},
           ~crashed, timedOut' = {} => running' = Null,
           UNCHANGED <<v_sendBy, v_expectAnswer, recent, crashed, channel, active,
                       request, connection, sent, serverChannel, associated, read, freed,
                       handler, inbox, flight>>
    PROVE  MsgSysInv'
  <1>0. VarsOK
    BY DEF MsgSysInv
  <1>1. /\ QueueInv'
        /\ v_msgStatus' \in [Msgs -> {"READYFORSENDING", "WAITING", "FATALERROR", "deleted"}]
        /\ \A q \in Msgs : Fresh(q)' => Fresh(q)
    BY RemovedFromQueue
  <1>2. VarsOK'
    BY <1>0, <1>1 DEF VarsOK
  <1>3. MsgsInv'
    <2>1. \A q \in Msgs : Same(q)
      BY DEF Same
    <2> QED BY <1>1, <2>1, OthersKeep DEF MsgsInv
  <1>4. current' = Null
    BY DEF Removed
  <1>5. GoneInv' /\ KsInv'
    BY <1>4 DEF GoneInv, SenderDiesAfterSending, KsInv
  <1> QED BY <1>1, <1>2, <1>3, <1>5 DEF MsgSysInv

\* The current message is in the queue; the client works for it only when it is
\* sent by ksapi and has not failed.
LEMMA CurrentFacts ==
    ASSUME MsgSysInv, NEW m \in Msgs, current = m
    PROVE  /\ m \in Queue /\ m # Null /\ ~Fresh(m)
           /\ v_msgStatus[m] = "FATALERROR" => m \in disturbed
           /\ (v_sendBy[m] # "KSSETVAR" \/ v_msgStatus[m] # "WAITING" \/
                ksStatus # "WAITINGFORANSWER") /\ timedOut = {} => running = Null
  <1>0. QueueInv /\ KsInv
    BY DEF MsgSysInv
  <1>1. m \in Queue /\ m # Null
    BY <1>0, NullAssumption DEF QueueInv
  <1>2. ~Fresh(m)
    BY <1>0, <1>1 DEF Fresh, QueueInv
  <1> QED BY <1>0, <1>1, <1>2 DEF QueueInv, KsInv

\* The extension takes the message, or it is deleted.
LEMMA TakeExtensionKeeps ==
    ASSUME MsgSysInv, NEW m \in Msgs, TakeExtension(m)
    PROVE  MsgSysInv'
  <1>0. VarsOK
    BY DEF MsgSysInv
  <1>1. MayTake(m, "EXTENSION")
    BY DEF TakeExtension
  <1>t. /\ ~crashed /\ current = Null /\ m \in Queue /\ v_sendBy[m] = "EXTENSION"
        /\ v_msgStatus[m] = "WAITING"
        /\ timedOut = {} => running = Null
    BY <1>1, TakeFacts
  <1>u. UNCHANGED <<v_sendBy, v_expectAnswer, recent, crashed, channel, active,
                    request, connection, sent, serverChannel, associated, read, freed, handler,
                    inbox, ksStatus, client, running, flight, timedOut>>
    BY DEF TakeExtension, senderVars, serverVars, ksVars
  <1>2. CASE current' = m /\ UNCHANGED <<v_msgStatus, messages, disturbed>>
    <2>1. v_msgStatus' = Set(v_msgStatus, m, "WAITING")
      BY <1>0, <1>2, <1>t DEF VarsOK, Set
    <2>2. /\ QueueInv' /\ ~Fresh(m)'
          /\ v_msgStatus' \in
               [Msgs -> {"READYFORSENDING", "WAITING", "FATALERROR", "deleted"}]
          /\ \A q \in Msgs : q # m => (Fresh(q)' => Fresh(q))
      BY <1>1, <1>2, <2>1, TakenIsCurrent
    <2>3. VarsOK'
      BY <1>0, <1>2, <1>u, <2>2 DEF VarsOK
    <2>4. MsgsInv'
      <3>1. \A q \in Msgs : Same(q) /\ (Fresh(q)' => Fresh(q))
        BY <1>u, <2>2 DEF Same
      <3> QED BY <1>2, <1>u, <3>1, OthersKeep DEF MsgsInv
    <2>5. GoneInv' /\ KsInv'
      BY <1>2, <1>t, <1>u DEF GoneInv, SenderDiesAfterSending, KsInv
    <2> QED BY <2>2, <2>3, <2>4, <2>5 DEF MsgSysInv
  <1>3. CASE DeleteMessage(m) /\ Disturb(m)
    <2>1. Removed(m) /\ disturbed' = disturbed \cup {m}
      BY <1>3 DEF DeleteMessage, Removed, Disturb
    <2>2. /\ disturbed' \subseteq Msgs /\ timedOut' \subseteq Msgs
          /\ running' \in Msgs \cup {Null} /\ client' \in {"idle", "busy", "error"}
          /\ ksStatus' \in {"INITIAL", "WAITINGFORANSWER", "REQUESTCOMPLETED",
                            "INTERNALERROR", "EXTERNALERROR"}
      BY <1>0, <1>u, <2>1 DEF VarsOK
    <2> QED BY <1>t, <1>u, <2>1, <2>2, RemovedKeeps
  <1> QED BY <1>2, <1>3 DEF TakeExtension

\* A message that has failed is deleted.
LEMMA CheckFailedKeeps ==
    ASSUME MsgSysInv, NEW m \in Msgs, CheckFailed(m)
    PROVE  MsgSysInv'
  <1>0. VarsOK
    BY DEF MsgSysInv
  <1>u. UNCHANGED <<v_sendBy, v_expectAnswer, recent, crashed, channel, active,
                    request, connection, sent, serverChannel, associated, read, freed, handler,
                    inbox, ksStatus, client, running, flight, disturbed, timedOut>>
    BY DEF CheckFailed, senderVars, serverVars, ksVars, history
  <1>1. ~crashed /\ current = m /\ v_msgStatus[m] = "FATALERROR" /\ Removed(m)
    BY DEF CheckFailed, DeleteMessage, Removed
  <1>2. m \in Queue /\ (timedOut = {} => running = Null)
    BY <1>1, CurrentFacts
  <1>3. /\ disturbed' \subseteq Msgs /\ timedOut' \subseteq Msgs
        /\ running' \in Msgs \cup {Null} /\ client' \in {"idle", "busy", "error"}
        /\ ksStatus' \in {"INITIAL", "WAITINGFORANSWER", "REQUESTCOMPLETED",
                          "INTERNALERROR", "EXTERNALERROR"}
    BY <1>0, <1>u DEF VarsOK
  <1> QED BY <1>1, <1>2, <1>3, <1>u, RemovedKeeps

\* The extension has the message.
LEMMA CheckExtensionKeeps ==
    ASSUME MsgSysInv, NEW m \in Msgs, CheckExtension(m)
    PROVE  MsgSysInv'
  <1>0. VarsOK
    BY DEF MsgSysInv
  <1>u. UNCHANGED <<v_sendBy, v_expectAnswer, recent, crashed, channel, active,
                    request, connection, sent, serverChannel, associated, read, freed, handler,
                    inbox, ksStatus, client, running, flight, disturbed, timedOut>>
    BY DEF CheckExtension, senderVars, serverVars, ksVars, history
  <1>1. ~crashed /\ current = m /\ v_sendBy[m] = "EXTENSION" /\ Removed(m)
    BY DEF CheckExtension, MayCheck, Removed
  <1>2. m \in Queue /\ (timedOut = {} => running = Null)
    BY <1>1, CurrentFacts
  <1>3. /\ disturbed' \subseteq Msgs /\ timedOut' \subseteq Msgs
        /\ running' \in Msgs \cup {Null} /\ client' \in {"idle", "busy", "error"}
        /\ ksStatus' \in {"INITIAL", "WAITINGFORANSWER", "REQUESTCOMPLETED",
                          "INTERNALERROR", "EXTERNALERROR"}
    BY <1>0, <1>u DEF VarsOK
  <1> QED BY <1>1, <1>2, <1>3, <1>u, RemovedKeeps

\* A message sent by ksapi is done with: completed, failed or too late.  In the
\* last case its request may still be under way, and timedOut says so.
LEMMA CheckSetVarKeeps ==
    ASSUME MsgSysInv, NEW m \in Msgs, CheckSetVar(m)
    PROVE  MsgSysInv'
  <1>0. VarsOK
    BY DEF MsgSysInv
  <1>u. UNCHANGED <<v_sendBy, v_expectAnswer, recent, crashed, channel, active,
                    request, connection, sent, serverChannel, associated, read, freed, handler,
                    inbox, flight, disturbed>>
    BY DEF CheckSetVar, senderVars, serverVars
  <1>1. ~crashed /\ current = m /\ Removed(m)
    BY DEF CheckSetVar, MayCheck, DeleteMessage, Removed
  <1>2. m \in Queue /\ (ksStatus # "WAITINGFORANSWER" /\ timedOut = {} => running = Null)
    BY <1>1, CurrentFacts
  <1>3. /\ disturbed' \subseteq Msgs /\ timedOut' \subseteq Msgs
        /\ running' \in Msgs \cup {Null} /\ client' \in {"idle", "busy", "error"}
        /\ ksStatus' \in {"INITIAL", "WAITINGFORANSWER", "REQUESTCOMPLETED",
                          "INTERNALERROR", "EXTERNALERROR"}
    BY <1>0, <1>u DEF VarsOK, CheckSetVar, Reset
  <1>4. timedOut' = {} => running' = Null
    BY <1>2 DEF CheckSetVar, Reset
  <1> QED BY <1>1, <1>2, <1>3, <1>4, <1>u, RemovedKeeps

\* A message sent directly is done with; its channel stays unless it is closed.
LEMMA CheckDirectlyKeeps ==
    ASSUME MsgSysInv, NEW m \in Msgs, CheckDirectly(m)
    PROVE  MsgSysInv'
  <1>0. VarsOK /\ MsgsInv
    BY DEF MsgSysInv
  <1>u. UNCHANGED <<v_sendBy, v_expectAnswer, recent, crashed, sent, serverChannel, associated,
                    read, freed, handler, inbox, ksStatus, client, running, flight, disturbed,
                    timedOut>>
    BY DEF CheckDirectly, serverVars, ksVars, history
  <1>1. ~crashed /\ current = m /\ v_sendBy[m] = "DIRECTLY" /\ Removed(m)
    BY DEF CheckDirectly, MayCheck, DeleteMessage, Removed
  <1>2. m \in Queue /\ (timedOut = {} => running = Null)
    BY <1>1, CurrentFacts
  <1>3. CASE UNCHANGED <<channel, active, request, connection>>
    <2>1. /\ disturbed' \subseteq Msgs /\ timedOut' \subseteq Msgs
          /\ running' \in Msgs \cup {Null} /\ client' \in {"idle", "busy", "error"}
          /\ ksStatus' \in {"INITIAL", "WAITINGFORANSWER", "REQUESTCOMPLETED",
                            "INTERNALERROR", "EXTERNALERROR"}
      BY <1>0, <1>u DEF VarsOK
    <2> QED BY <1>1, <1>2, <1>3, <1>u, <2>1, RemovedKeeps
  <1>4. CASE DeleteChannel(m)
    <2>1. /\ QueueInv' /\ ~Fresh(m)'
          /\ v_msgStatus' \in
               [Msgs -> {"READYFORSENDING", "WAITING", "FATALERROR", "deleted"}]
          /\ \A q \in Msgs : Fresh(q)' => Fresh(q)
      BY <1>1, <1>2, <1>u, RemovedFromQueue
    <2>2. /\ active' \in [Msgs -> BOOLEAN]
          /\ \A q \in Msgs : q # m => active'[q] = active[q]
      <3>1. active' = [active EXCEPT ![m] = FALSE]
        BY <1>4 DEF DeleteChannel, Set
      <3> QED BY <1>0, <3>1 DEF VarsOK
    <2>3. /\ channel' \in
               [Msgs -> {"none", "OPENING", "OPEN", "COULDNOTOPEN", "SENDERROR", "CLOSED"}]
          /\ request' \in [Msgs -> {"none", "waiting", "connected", "refused", "unresolved"}]
          /\ \A q \in Msgs : q # m => channel'[q] = channel[q] /\ request'[q] = request[q]
      BY <1>0, <1>4 DEF DeleteChannel, Set, VarsOK
    <2>4. /\ connection' \in [Msgs -> {"none", "up", "fin", "reset"}]
          /\ \A q \in Msgs : q # m => connection'[q] = connection[q]
      <3>1. connection[m] \in {"none", "up", "fin", "reset"}
        BY <1>0 DEF VarsOK
      <3> QED BY <1>0, <1>4, <3>1 DEF DeleteChannel, Set, VarsOK
    <2>5. VarsOK'
      BY <1>0, <1>u, <2>1, <2>2, <2>3, <2>4 DEF VarsOK
    <2>6. ASSUME NEW q \in Msgs PROVE MsgInv(q)'
      <3>1. CASE q # m
        <4>1. Same(q)
          BY <1>u, <2>2, <2>3, <2>4, <3>1 DEF Same
        <4> QED BY <1>u, <2>1, <4>1, OthersKeep
      <3>2. CASE q = m
        <4>1. ByInv(m) /\ ReadInv(m) /\ OnceInv(m)
          BY <1>0 DEF MsgsInv, MsgInv
        <4>2. FreshInv(m)' /\ ByInv(m)'
          BY <1>1, <1>u, <2>1, <4>1 DEF FreshInv, ByInv
        <4>3. ReadInv(m)' /\ OnceInv(m)'
          BY <1>u, <4>1 DEF ReadInv, OnceInv
        <4> QED BY <3>2, <4>2, <4>3 DEF MsgInv
      <3> QED BY <3>1, <3>2
    <2>7. current' = Null
      BY <1>1 DEF Removed
    <2>8. GoneInv' /\ KsInv'
      BY <1>1, <1>2, <1>u, <2>7 DEF GoneInv, SenderDiesAfterSending, KsInv
    <2> QED BY <2>1, <2>5, <2>6, <2>8 DEF MsgSysInv, MsgsInv
  <1> QED BY <1>3, <1>4 DEF CheckDirectly

\* The process dies of a channel that has gone: it had sent everything, or was to
\* wait for an answer.
LEMMA CheckDirectlyDiesKeeps ==
    ASSUME MsgSysInv, NEW m \in Msgs, CheckDirectlyDies(m)
    PROVE  MsgSysInv'
  <1>0. VarsOK /\ QueueInv /\ MsgsInv /\ GoneInv /\ KsInv
    BY DEF MsgSysInv
  <1>u. UNCHANGED <<v_msgStatus, v_sendBy, v_expectAnswer, messages, current, recent, channel,
                    active, request, sent, serverChannel, associated, read, freed, handler,
                    inbox, ksStatus, client, running, flight, disturbed, timedOut>>
    BY DEF CheckDirectlyDies, messageVars, serverVars, ksVars, history
  <1>1. /\ current = m /\ v_msgStatus[m] = "WAITING" /\ v_sendBy[m] = "DIRECTLY"
        /\ channel[m] = "none" /\ crashed' = TRUE /\ m # Null
        /\ connection' = [q \in Msgs |-> IF connection[q] = "up" THEN "fin" ELSE connection[q]]
    BY NullAssumption DEF CheckDirectlyDies, MayCheck
  <1>2. /\ connection' \in [Msgs -> {"none", "up", "fin", "reset"}]
        /\ \A q \in Msgs : connection[q] = "none" => connection'[q] = "none"
    <2>1. \A q \in Msgs : connection[q] \in {"none", "up", "fin", "reset"}
      BY <1>0 DEF VarsOK
    <2> QED BY <1>1, <2>1
  <1>3. VarsOK'
    BY <1>0, <1>1, <1>2, <1>u DEF VarsOK
  <1>4. QueueInv' /\ Queue' = Queue
    BY <1>0, <1>u DEF QueueInv, Queue
  <1>5. ASSUME NEW q \in Msgs PROVE MsgInv(q)'
    <2>1. FreshInv(q) /\ ByInv(q) /\ ReadInv(q) /\ OnceInv(q)
      BY <1>0 DEF MsgsInv, MsgInv
    <2>2. (Fresh(q)' => Fresh(q)) /\ (NoConnection(q) => NoConnection(q)')
      BY <1>2, <1>4, <1>u DEF Fresh, NoConnection
    <2>3. FreshInv(q)' /\ ByInv(q)'
      BY <1>u, <2>1, <2>2 DEF FreshInv, ByInv
    <2>4. ReadInv(q)' /\ OnceInv(q)'
      BY <1>u, <2>1 DEF ReadInv, OnceInv
    <2> QED BY <2>3, <2>4 DEF MsgInv
  <1>6. sent[m] = Parts \/ v_expectAnswer[m]
    BY <1>0, <1>1 DEF GoneInv
  <1>7. GoneInv' /\ KsInv'
    BY <1>0, <1>1, <1>6, <1>u DEF GoneInv, SenderDiesAfterSending, KsInv
  <1> QED BY <1>3, <1>4, <1>5, <1>7 DEF MsgSysInv, MsgsInv

---------------------------------------------------------------------------
\* Every step of either server keeps the invariant.
LEMMA MsgSysNext == MsgSysInv /\ [Next]_vars => MsgSysInv'
  <1> SUFFICES ASSUME MsgSysInv, [Next]_vars PROVE MsgSysInv'
    OBVIOUS
  <1>1. ASSUME NEW m \in Msgs, NEW k \in Kinds, sendMessage(m, k[1], k[2]) PROVE MsgSysInv'
    BY <1>1, SendMessageKeeps
  <1>2. ASSUME NEW m \in Msgs, Delivery(m) PROVE MsgSysInv'
    <2>1. CASE TakeFails(m)
      BY <2>1, TakeFailsKeeps
    <2>2. CASE TakeDirectly(m)
      BY <2>2, TakeDirectlyKeeps
    <2>3. CASE TakeSetVar(m)
      BY <2>3, TakeSetVarKeeps
    <2>4. CASE TakeExtension(m)
      BY <2>4, TakeExtensionKeeps
    <2>5. CASE CheckFailed(m)
      BY <2>5, CheckFailedKeeps
    <2>6. CASE CheckDirectlyDies(m)
      BY <2>6, CheckDirectlyDiesKeeps
    <2>7. CASE CheckDirectly(m)
      BY <2>7, CheckDirectlyKeeps
    <2>8. CASE CheckSetVar(m)
      BY <2>8, CheckSetVarKeeps
    <2>9. CASE CheckExtension(m)
      BY <2>9, CheckExtensionKeeps
    <2> QED BY <1>2, <2>1, <2>2, <2>3, <2>4, <2>5, <2>6, <2>7, <2>8, <2>9 DEF Delivery
  <1>3. ASSUME NEW m \in Msgs, SenderChannel(m) \/ Break(m) PROVE MsgSysInv'
    BY <1>3, SenderChannelKeeps
  <1>4. ASSUME NEW m \in Msgs, Receiver(m) \/ UnusedDataTimeOut(m) PROVE MsgSysInv'
    BY <1>4, ReceiverKeeps
  <1>5. ASSUME NEW m \in Msgs, KsApi(m) PROVE MsgSysInv'
    BY <1>5, RetrieveKeeps, AnswerKeeps DEF KsApi
  <1>6. CASE ClientTimeOut \/ Expire \/ UNCHANGED vars
    BY <1>6, TimeKeeps
  <1> QED BY <1>1, <1>2, <1>3, <1>4, <1>5, <1>6 DEF Next

\* The inductive invariant holds in every state.
LEMMA MessageSysInvariant == Spec => []MsgSysInv
  BY MsgSysInit, MsgSysNext, PTL DEF Spec

\* Every message, channel, handler and client is in one of its states, nothing is
\* read that was not sent, and no message is put into its inbox twice, however many
\* messages there are and into however many pieces they are cut.
THEOREM MessageSysDeliveryInv == Spec => []DeliveryInv
  BY MessageSysInvariant, MsgSysInvImplies, PTL

\* The null pointer through which MsgDelivery reads the state of a channel that has
\* gone is only met when that channel had sent the whole message or was to wait for
\* an answer.
THEOREM MessageSysSenderDiesAfterSending == Spec => []SenderDiesAfterSending
  BY MessageSysInvariant, MsgSysInvImplies, PTL

\* Whenever the request of the current message is completed, the message has been
\* delivered, or something has gone wrong.
LEMMA CompletedCurrent ==
    ASSUME MsgSysInv, NEW m \in Msgs, current = m,
           v_sendBy[m] = "KSSETVAR", ksStatus = "REQUESTCOMPLETED"
    PROVE  inbox[m] = 1 \/ m \in disturbed \/ timedOut # {}
  BY CurrentFacts DEF MsgSysInv, KsInv

\* A message that MsgDelivery takes off its queue as sent by ksapi has been put into
\* its inbox, unless it was disturbed or an earlier one has run into the time-out.
THEOREM MessageSysCompletedIsDelivered == Spec => CompletedIsDelivered
  <1> DEFINE A == \A m \in Msgs :
                    (/\ current = m /\ current' = Null
                     /\ v_sendBy[m] = "KSSETVAR" /\ ksStatus = "REQUESTCOMPLETED")
                    => inbox[m] = 1 \/ m \in disturbed \/ timedOut # {}
  <1>1. MsgSysInv /\ [Next]_vars => [A]_vars
    BY CompletedCurrent
  <1>2. Spec => [][A]_vars
    BY <1>1, MessageSysInvariant, PTL DEF Spec
  <1> QED BY <1>2 DEF CompletedIsDelivered
===========================================================================
