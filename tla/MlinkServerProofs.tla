-------------------------- MODULE MlinkServerProofs --------------------------
(***************************************************************************)
(* Proofs about MlinkServer, for any set of requests, any size of the      *)
(* payloads and any number of sessions: the scheduler and the connection   *)
(* are used within their contracts, no request is lost track of, replies   *)
(* do not mix, and a shutdown answers what the scheduler had accepted.     *)
(***************************************************************************)
EXTENDS MlinkServer, BgSchedProofs, HwioProofs

MainPC == {"start", "register", "hello", "sending", "up", "sched", "net", "deinit", "down"}
CallbackPC == {"none", "entry", "post", "link", "handle", "replying", "handled"}

MlinkTypeOK == /\ mpc \in MainPC /\ cpc \in CallbackPC
               /\ worker \in BOOLEAN /\ transport \in BOOLEAN
               /\ sessions \in Nat
               /\ handled \in Seq(Tasks) /\ arrived \in Seq(Tasks)
               /\ buffer \in Seq(Tasks) /\ inbound \in Seq(Tasks)
               /\ data \in [Writers -> Tasks \cup {NoData, "hello", "note"}]

\* The stages of the main thread, and what is there in each: the transport with
\* its connection, which only mlink_server_destroy takes down, and the worker, which
\* it takes down before.
MainOrder ==
    /\ mpc = "start" <=> sessions = 0
    /\ mpc \in {"start", "down"} => ~transport
    /\ mpc \in {"register", "hello", "sending", "deinit"} => transport
    /\ transport <=> priv \/ (mpc = "deinit" /\ depc = "done")
    /\ mpc = "deinit" <=> transport /\ depc # "none"
    /\ mpc = "sched" <=> worker /\ dpc # "none"
    /\ ~worker => dpc = "freed"
    /\ mpc \in {"net", "deinit", "down"} => ~worker
    /\ ~transport => wpc # "call" /\ queue = <<>>
    /\ dpc \in {"free", "freed"} => queue = <<>>
    /\ killed => mpc # "down"

\* The receive callback runs while the receive thread is in it; it posts only to a
\* worker it saw, and handles only without a worker, or without memory.
CallbackOrder ==
    /\ cpc # "none" => rpc = "callback"
    /\ rpc = "callback" => buffer # <<>>
    /\ cpc = "link" => worker \/ mpc \in {"net", "deinit"}
    /\ cpc \in {"handle", "replying"} => ~worker \/ Head(buffer) \in unposted

\* Who is inside hwio_tcp_write, and with what.
WritersKnown ==
    /\ spc["main"] # "idle" => mpc = "sending"
    /\ spc["worker"] # "idle" => wpc = "call" /\ data["worker"] = task
    /\ spc["receiver"] # "idle" <=> cpc = "replying"
    /\ cpc = "replying" => data["receiver"] = Head(buffer)
    /\ \A w \in Writers : spc[w] = "idle" => data[w] = NoData
    /\ data["main"] \notin Tasks

\* The requests that the receive callback still holds.
InCallback == IF rpc # "callback" \/ cpc = "handled" THEN {}
              ELSE IF cpc \in {"none", "entry"} THEN Range(buffer)
              ELSE {Head(buffer)}

\* The requests on their way: in the callback, in the list, in the worker's hands.
OnTheWay == InCallback \cup Range(queue) \cup Range(InFlight)
Settled == Range(handled) \cup lost \cup Range(discarded)

Injective(s) == \A i, j \in 1..Len(s) : s[i] = s[j] => i = j

\* Every request that arrived is in one place.
OnePlace ==
    /\ Range(arrived) = OnTheWay \cup Settled
    /\ OnTheWay \cap Settled = {}
    /\ InCallback \cap (Range(queue) \cup Range(InFlight)) = {}
    /\ Range(queue) \cap Range(InFlight) = {}
    /\ Range(handled) \cap (lost \cup Range(discarded)) = {}
    /\ Range(inbound) \cap Range(arrived) = {}
    /\ Injective(queue) /\ Injective(inbound)
    /\ rpc = "callback" => Injective(buffer)

\* In the first session the socket is there as long as nothing went wrong, and what
\* the worker has run, or is about to leave, has been answered.
Sound == sessions = 1 /\ peerOpen /\ ~senderr
AnsweredSoFar ==
    /\ written \in Seq(Tasks \cup {NoData, "hello", "note"})
    /\ sessions = 0 => done = <<>> /\ ~priv
    /\ Sound => /\ priv => sock
                /\ rpc \notin {"close", "clear"}
                /\ Range(done) \subseteq Range(written)
                /\ spc["worker"] = "done" => task \in Range(written)

\* The inductive invariant.
MlinkInv == /\ SchedInv
            /\ ConnInv
            /\ MlinkTypeOK
            /\ MainOrder
            /\ CallbackOrder
            /\ WritersKnown
            /\ ~killed => OnePlace
            /\ AnsweredSoFar

-----------------------------------------------------------------------------
\* The message the receive callback holds is a request.
LEMMA HeldIsRequest ==
  ASSUME MlinkTypeOK, CallbackOrder, cpc # "none"
  PROVE  Head(buffer) \in Tasks /\ buffer # <<>>
<1>1. buffer \in Seq(Tasks) /\ buffer # <<>>
  BY DEF MlinkTypeOK, CallbackOrder
<1> QED
  BY <1>1, HeadTailProperties

\* The server uses the scheduler as its interface has it: what its threads do to it
\* are calls of bg_sched_post and bg_sched_destroy and steps of its worker.
LEMMA StepUsesScheduler ==
  ASSUME MlinkTypeOK, CallbackOrder, MlinkNext
  PROVE  SchedNext \/ UNCHANGED schedVars
<1>1. CASE callback_posts
  <2>1. Head(buffer) \in Tasks
    BY <1>1, HeldIsRequest DEF callback_posts
  <2> QED
    BY <1>1, <2>1 DEF callback_posts, SchedNext
<1>2. CASE worker_step \/ worker_wakes_up \/ task_returns
  BY <1>2 DEF worker_step, worker_wakes_up, task_returns, SchedNext, Worker
<1>3. CASE mlink_server_destroy \/ sched_destroying
  BY <1>3 DEF mlink_server_destroy, sched_destroying, SchedNext, Destroy
<1>4. CASE \/ register_callback \/ register_context \/ send_hello \/ send_returns
           \/ worker_cleared \/ transport_destroy \/ transport_destroying
           \/ mlink_server_destroyed \/ writing("main") \/ writing("worker") \/ writing("receiver")
  BY <1>4 DEF register_callback, register_context, send_hello, send_returns, worker_cleared,
     transport_destroy, transport_destroying, mlink_server_destroyed, writing
<1>5. CASE \/ receiver_step \/ callback_begin \/ callback_drops \/ callback_reads_worker
           \/ callback_calls_post \/ callback_posts_too_late \/ callback_replies
           \/ callback_replied \/ callback_returns \/ callback_cancelled
  BY <1>5 DEF receiver_step, callback_begin, callback_drops, callback_reads_worker,
     callback_calls_post, callback_posts_too_late, callback_replies, callback_replied,
     callback_returns, callback_cancelled
<1>6. CASE \/ task_replies \/ mlink_server_init \/ mlink_server_init_offline
           \/ mlink_notify_message \/ receiver_interrupted \/ peer_requests \/ peer_leaves
  BY <1>6 DEF task_replies, mlink_server_init, mlink_server_init_offline,
     mlink_notify_message, receiver_interrupted, peer_requests, peer_leaves
<1> QED
  BY <1>1, <1>2, <1>3, <1>4, <1>5, <1>6
     DEF MlinkNext, MainThread, ReceiverThread, WorkerThread, Application, Environment, Callback

\* A thread that begins to write finds that hwio_tcp_deinit has not got to its free.
LEMMA WriteInTime ==
  ASSUME MlinkInv,
         \/ mpc \in {"hello", "up"} /\ transport
         \/ wpc = "call"
         \/ cpc = "handle"
  PROVE  depc # "close"
<1>1. CASE mpc \in {"hello", "up"} /\ transport
  BY <1>1 DEF MlinkInv, MainOrder
<1>2. CASE wpc = "call"
  <2>1. worker
    BY <1>2 DEF MlinkInv, MainOrder, SchedInv, StopOrder, Joined
  <2> QED
    BY <1>2, <2>1 DEF MlinkInv, MainOrder
<1>3. CASE cpc = "handle"
  BY <1>3 DEF MlinkInv, CallbackOrder, ConnInv, Lifetime
<1> QED
  BY <1>1, <1>2, <1>3

\* While mlink_server_destroy destroys the connection nobody is writing, once the
\* receive thread has ended.
LEMMA NobodyWrites ==
  ASSUME MlinkInv, mpc = "deinit", rpc = "exited"
  PROVE  NobodyInside
<1>1. wpc # "call" /\ cpc = "none"
  BY DEF MlinkInv, MainOrder, CallbackOrder, MlinkTypeOK, SchedInv, StopOrder, Joined
<1>2. \A w \in Threads : spc[w] = "idle"
  BY <1>1 DEF MlinkInv, WritersKnown, Threads
<1> QED
  BY <1>2, ThreadsAssumption DEF NobodyInside, Inside

\* The server uses the connection within its contract.
LEMMA StepKeepsConn == ASSUME MlinkInv, MlinkNext PROVE ConnInv'
<1>0. ConnInv /\ {"main", "worker", "receiver"} = Writers
  BY ThreadsAssumption DEF MlinkInv, Threads
<1>1. CASE mlink_server_init \/ mlink_server_init_offline
  BY <1>0, <1>1, OpenKeepsConn DEF mlink_server_init, mlink_server_init_offline
<1>2. CASE register_callback \/ register_context \/ peer_requests \/ peer_leaves
  BY <1>0, <1>2, OthersKeepConn DEF register_callback, register_context, peer_requests, peer_leaves
<1>3. CASE send_hello \/ mlink_notify_message
  <2>1. transport /\ mpc \in {"hello", "up"}
    BY <1>3 DEF send_hello, mlink_notify_message, MlinkInv, MainOrder
  <2> QED
    BY <1>0, <1>3, <2>1, WriteInTime, WriterKeepsConn DEF send_hello, mlink_notify_message
<1>4. CASE task_replies \/ callback_replies
  BY <1>0, <1>4, WriteInTime, WriterKeepsConn DEF task_replies, callback_replies
<1>5. CASE writing("main") \/ writing("worker") \/ writing("receiver")
  BY <1>0, <1>5, WriterKeepsConn DEF writing
<1>6. CASE send_returns \/ callback_replied \/ task_returns
  <2>1. (\E w \in Writers : write_return(w)) \/ UNCHANGED hwioVars
    BY <1>0, <1>6 DEF send_returns, callback_replied, task_returns
  <2> QED
    BY <1>0, <2>1, WriterKeepsConn, OthersKeepConn
<1>7. CASE receiver_step \/ receiver_interrupted
  BY <1>0, <1>7, ReceiverKeepsConn DEF receiver_step, receiver_interrupted, Receiver
<1>8. CASE CallbackReturns
  BY <1>0, <1>8, ReceiverKeepsConn DEF CallbackReturns, Receiver
<1>9. CASE callback_posts_too_late
  <2>1. CASE UNCHANGED <<stateVars, recvVars, sendVars, wireVars, depc, fd>>
    BY <1>0, <2>1, QuietKeepsConn DEF ConnInv, ConnTypeOK, stateVars, recvVars, sendVars, wireVars
  <2> QED
    BY <1>8, <1>9, <2>1 DEF callback_posts_too_late
<1>10. CASE callback_cancelled
  <2>1. rpc = "callback" /\ spc["receiver"] \in {"idle", "send", "close"}
    BY <1>10 DEF callback_cancelled, MlinkInv, CallbackOrder, WritersKnown
  <2> QED
    BY <1>0, <1>10, <2>1 DEF callback_cancelled, ConnInv, ConnTypeOK, Lifetime, OpenIsKnown,
       WritersCloseOnError, ClosedOnceUnlessSendError, NobodyInside, Inside, stateVars, wireVars,
       ReceiverPC, WriterPC
<1>11. CASE transport_destroy
  BY <1>0, <1>11, DeinitKeepsConn DEF transport_destroy
<1>12. CASE transport_destroying
  BY <1>0, <1>12, NobodyWrites, DeinitKeepsConn DEF transport_destroying, Deinit, deinit_join
<1>13. CASE callback_drops \/ callback_posts \/ callback_returns
  BY <1>8, <1>13 DEF callback_drops, callback_posts, callback_returns
<1>14. CASE \/ callback_begin \/ callback_reads_worker \/ callback_calls_post
            \/ worker_step \/ worker_wakes_up \/ mlink_server_destroy \/ sched_destroying
            \/ worker_cleared \/ mlink_server_destroyed
  BY <1>0, <1>14, OthersKeepConn DEF callback_begin, callback_reads_worker,
     callback_calls_post, worker_step, worker_wakes_up, mlink_server_destroy,
     sched_destroying, worker_cleared, mlink_server_destroyed
<1> QED
  BY <1>1, <1>2, <1>3, <1>4, <1>5, <1>6, <1>7, <1>9, <1>10, <1>11, <1>12, <1>13, <1>14
     DEF MlinkNext, MainThread, ReceiverThread, WorkerThread, Application, Environment, Callback

-----------------------------------------------------------------------------
\* Where everybody is.
Places == MlinkTypeOK /\ MainOrder /\ CallbackOrder /\ WritersKnown

\* What a thread that begins to write, and one that returns, changes.
LEMMA WriteBegins ==
  ASSUME MlinkTypeOK, ConnInv, NEW w \in Writers, NEW d \in Tasks \cup {"hello", "note"},
         hwio_tcp_write(w, d)
  PROVE  /\ data' \in [Writers -> Tasks \cup {NoData, "hello", "note"}]
         /\ spc'[w] # "idle" /\ data'[w] = d
         /\ \A v \in Writers \ {w} : spc'[v] = spc[v] /\ data'[v] = data[v]
         /\ UNCHANGED <<stateVars, recvVars, senderr, written, wireVars, depc, fd, killed>>
BY DEF MlinkTypeOK, ConnInv, ConnTypeOK, hwio_tcp_write

\* hwio_tcp_write returns: its thread is idle again and has no data; nobody else moved.
LEMMA WriteReturns ==
  ASSUME MlinkTypeOK, ConnInv, NEW w \in Writers, write_return(w)
  PROVE  /\ data' \in [Writers -> Tasks \cup {NoData, "hello", "note"}]
         /\ spc'[w] = "idle" /\ data'[w] = NoData
         /\ \A v \in Writers \ {w} : spc'[v] = spc[v] /\ data'[v] = data[v]
         /\ UNCHANGED <<stateVars, recvVars, senderr, written, wireVars, depc, fd, killed>>
BY DEF MlinkTypeOK, ConnInv, ConnTypeOK, write_return

\* mlink_server_init finds the server down: there is no connection and no worker at it.
LEMMA InitKeepsPlaces ==
  ASSUME MlinkInv, mlink_server_init \/ mlink_server_init_offline PROVE Places'
<1> USE DEF MlinkInv, Places, ConnInv, ConnTypeOK, Lifetime, MlinkTypeOK, MainOrder, CallbackOrder,
        WritersKnown, MainPC, CallbackPC, schedVars, InFlight, hwioVars, stateVars, recvVars,
        sendVars, wireVars
<1>1. CASE mlink_server_init
  BY <1>1 DEF mlink_server_init, hwio_tcp_init
<1>2. CASE mlink_server_init_offline
  BY <1>2 DEF mlink_server_init_offline, hwio_tcp_init_fails
<1> QED
  BY <1>1, <1>2

\* The main thread registers the callback and sends its messages.
LEMMA MainKeepsPlaces ==
  ASSUME MlinkInv,
         \/ register_callback \/ register_context \/ send_hello \/ send_returns
         \/ mlink_notify_message
  PROVE  Places'
<1>0. /\ MlinkTypeOK /\ MainOrder /\ CallbackOrder /\ WritersKnown /\ ConnInv
      /\ "main" \in Writers /\ "worker" \in Writers /\ "receiver" \in Writers
  BY ThreadsAssumption DEF MlinkInv, Threads
<1>1. CASE register_callback
  BY <1>0, <1>1 DEF register_callback, hwio_tcp_callback, Places, MlinkTypeOK, MainOrder,
     CallbackOrder, WritersKnown, schedVars, recvVars, sendVars, wireVars, glueVars
<1>2. CASE register_context
  BY <1>0, <1>2 DEF register_context, hwio_tcp_callback_ctx, Places, MlinkTypeOK, MainOrder,
     CallbackOrder, WritersKnown, schedVars, recvVars, sendVars, wireVars, MainPC
<1>3. ASSUME NEW d \in {"hello", "note"}, hwio_tcp_write("main", d), mpc' = "sending", transport,
             mpc \in {"hello", "up"},
             UNCHANGED <<schedVars, worker, transport, cpc, handled, lost, unposted, sessions>>
      PROVE  Places'
  <2>1. /\ data' \in [Writers -> Tasks \cup {NoData, "hello", "note"}]
        /\ spc'["main"] # "idle" /\ data'["main"] = d
        /\ \A v \in Writers \ {"main"} : spc'[v] = spc[v] /\ data'[v] = data[v]
        /\ UNCHANGED <<stateVars, recvVars, senderr, written, wireVars, depc, fd, killed>>
    BY <1>0, <1>3, WriteBegins
  <2>2. MlinkTypeOK' /\ MainOrder' /\ CallbackOrder'
    BY <1>0, <1>3, <2>1 DEF MlinkTypeOK, MainOrder, CallbackOrder, schedVars, stateVars,
       recvVars, wireVars, MainPC
  <2>3. WritersKnown'
    BY <1>0, <1>3, <2>1, RequestsAssumption DEF WritersKnown, schedVars, recvVars
  <2> QED
    BY <2>2, <2>3 DEF Places
<1>4. CASE send_returns
  <2>1. /\ data' \in [Writers -> Tasks \cup {NoData, "hello", "note"}]
        /\ spc'["main"] = "idle" /\ data'["main"] = NoData
        /\ \A v \in Writers \ {"main"} : spc'[v] = spc[v] /\ data'[v] = data[v]
        /\ UNCHANGED <<stateVars, recvVars, senderr, written, wireVars, depc, fd, killed>>
    BY <1>0, <1>4, WriteReturns DEF send_returns
  <2>2. MlinkTypeOK' /\ MainOrder' /\ CallbackOrder'
    BY <1>0, <1>4, <2>1 DEF send_returns, MlinkTypeOK, MainOrder, CallbackOrder, schedVars,
       stateVars, recvVars, wireVars, MainPC
  <2>3. WritersKnown'
    BY <1>0, <1>4, <2>1, RequestsAssumption DEF send_returns, WritersKnown, schedVars, recvVars
  <2> QED
    BY <2>2, <2>3 DEF Places
<1>5. CASE send_hello \/ mlink_notify_message
  BY <1>0, <1>3, <1>5 DEF send_hello, mlink_notify_message, MainOrder
<1> QED
  BY <1>1, <1>2, <1>4, <1>5

\* recv takes the oldest messages out of the socket.
LEMMA RecvTakes ==
  ASSUME MlinkTypeOK, recv_data
  PROVE  /\ buffer' \in Seq(Tasks) /\ buffer' # <<>> /\ inbound' \in Seq(Tasks)
         /\ arrived' \in Seq(Tasks)
         /\ arrived' = arrived \o buffer' /\ inbound = buffer' \o inbound'
<1>0. inbound \in Seq(Tasks) /\ arrived \in Seq(Tasks)
  BY DEF MlinkTypeOK
<1>1. PICK n \in 1..Len(inbound) : /\ buffer' = SubSeq(inbound, 1, n)
                                   /\ inbound' = SubSeq(inbound, n + 1, Len(inbound))
                                   /\ arrived' = arrived \o buffer'
  BY DEF recv_data
<1>2. buffer' \in Seq(Tasks) /\ Len(buffer') = n /\ n \in Nat \ {0}
  BY <1>0, <1>1, SubSeqProperties, LenProperties
<1>3. inbound' \in Seq(Tasks)
  BY <1>0, <1>1, SubSeqProperties, LenProperties
<1>4. inbound = buffer' \o inbound'
  BY <1>0, <1>1, <1>2, <1>3
<1> QED
  BY <1>0, <1>1, <1>2, <1>3, <1>4, EmptySeq, ConcatProperties

\* The receive thread outside the callback enters it only with a message.
LEMMA ReceiverKeepsPlaces ==
  ASSUME MlinkInv, receiver_step \/ receiver_interrupted PROVE Places'
<1>0. MlinkTypeOK /\ MainOrder /\ CallbackOrder /\ WritersKnown
  BY DEF MlinkInv
<1>1. CASE recv_data /\ UNCHANGED <<schedVars, glueVars>>
  <2>1. /\ buffer' \in Seq(Tasks) /\ buffer' # <<>> /\ inbound' \in Seq(Tasks)
        /\ arrived' \in Seq(Tasks)
    BY <1>0, <1>1, RecvTakes
  <2>2. cpc = "none" /\ rpc' = "callback"
    BY <1>0, <1>1 DEF recv_data, CallbackOrder
  <2> QED
    BY <1>0, <1>1, <2>1, <2>2 DEF recv_data, Places, MlinkTypeOK, MainOrder, CallbackOrder,
       WritersKnown, schedVars, glueVars, stateVars, sendVars
<1>2. ASSUME rpc # "callback", rpc' # "callback",
             UNCHANGED <<schedVars, glueVars, priv, buffer, arrived, sendVars, wireVars, depc, killed>>
      PROVE  Places'
  BY <1>0, <1>2 DEF Places, MlinkTypeOK, MainOrder, CallbackOrder, WritersKnown, schedVars,
     glueVars, sendVars, wireVars
<1>3. ASSUME \/ recv_test \/ recv_wake \/ recv_enter \/ recv_eof \/ recv_interrupted
             \/ recv_close \/ recv_clear \/ recv_cancelled
      PROVE  /\ rpc # "callback" /\ rpc' # "callback"
             /\ UNCHANGED <<priv, buffer, arrived, sendVars, wireVars, depc, killed>>
  BY <1>3 DEF recv_test, recv_wake, recv_enter, recv_eof, recv_interrupted, recv_close,
     recv_clear, recv_cancelled, stateVars
<1> QED
  BY <1>1, <1>2, <1>3 DEF receiver_step, receiver_interrupted

\* The peer sends and leaves.
LEMMA PeerKeepsPlaces ==
  ASSUME MlinkInv, peer_requests \/ peer_leaves PROVE Places'
<1>0. MlinkTypeOK /\ MainOrder /\ CallbackOrder /\ WritersKnown
  BY DEF MlinkInv
<1>1. /\ inbound' \in Seq(Tasks)
      /\ UNCHANGED <<schedVars, glueVars, stateVars, recvVars, sendVars, depc, fd, killed>>
  <2>1. ASSUME NEW m \in Tasks, inbound' = Append(inbound, m) PROVE inbound' \in Seq(Tasks)
    BY <1>0, <2>1, AppendProperties DEF MlinkTypeOK
  <2>2. \/ inbound' = inbound
        \/ \E m \in Tasks : inbound' = Append(inbound, m)
    BY DEF peer_requests, peer_leaves, peer_send, peer_close
  <2>3. UNCHANGED <<schedVars, glueVars, stateVars, recvVars, sendVars, depc, fd, killed>>
    BY DEF peer_requests, peer_leaves, peer_send, peer_close
  <2> QED
    BY <1>0, <2>1, <2>2, <2>3 DEF MlinkTypeOK
<1> QED
  BY <1>0, <1>1 DEF Places, MlinkTypeOK, MainOrder, CallbackOrder, WritersKnown, schedVars,
     glueVars, stateVars, recvVars, sendVars

\* A thread in hwio_tcp_write goes on there.
LEMMA WritingKeepsPlaces ==
  ASSUME MlinkInv, NEW w \in Writers, writing(w) PROVE Places'
<1>0. MlinkTypeOK /\ MainOrder /\ CallbackOrder /\ WritersKnown /\ ConnInv
  BY DEF MlinkInv
<1>1. Inside(w) /\ UNCHANGED <<schedVars, glueVars>>
  BY DEF writing, WriterStep, send_pieces, send_fails, send_sigpipe, send_close, send_clear, Inside
<1>2. /\ \A v \in Writers : spc'[v] = "idle" <=> spc[v] = "idle"
      /\ UNCHANGED <<priv, data, recvVars, wireVars, depc>>
  BY <1>0 DEF writing, WriterStep, send_pieces, send_fails, send_sigpipe, send_close,
     send_clear, ConnInv, ConnTypeOK, stateVars, sendVars
<1>3. mpc # "down"
  BY <1>0, <1>1 DEF ConnInv, Lifetime, NobodyInside, MainOrder
<1>4. MlinkTypeOK' /\ MainOrder' /\ CallbackOrder'
  BY <1>0, <1>1, <1>2, <1>3 DEF MlinkTypeOK, MainOrder, CallbackOrder, schedVars, glueVars,
     recvVars, wireVars
<1>5. "main" \in Writers /\ "worker" \in Writers /\ "receiver" \in Writers
  BY ThreadsAssumption DEF Threads
<1>6. WritersKnown'
  BY <1>0, <1>1, <1>2, <1>5 DEF WritersKnown, schedVars, glueVars, recvVars
<1> QED
  BY <1>4, <1>6 DEF Places

\* The receive callback.
LEMMA CallbackKeepsPlaces ==
  ASSUME MlinkInv, Callback PROVE Places'
<1>0. /\ MlinkTypeOK /\ MainOrder /\ CallbackOrder /\ WritersKnown /\ ConnInv
      /\ "main" \in Writers /\ "worker" \in Writers /\ "receiver" \in Writers
  BY ThreadsAssumption DEF MlinkInv, Threads
\* The callback runs only while there is a connection.
<1>a. rpc = "callback" => transport /\ mpc # "down" /\ buffer # <<>> /\ Head(buffer) \in Tasks
  <2>1. rpc = "callback" => priv
    BY <1>0 DEF ConnInv, Lifetime, ConnTypeOK, DeinitPC
  <2>2. rpc = "callback" => buffer # <<>>
    BY <1>0 DEF CallbackOrder
  <2> QED
    BY <1>0, <2>1, <2>2, HeadTailProperties DEF MainOrder, MlinkTypeOK
\* It gets from one place to the next.
<1>1. ASSUME UNCHANGED <<schedVars, hwioVars, mpc, worker, transport, handled, sessions>>,
             rpc = "callback", cpc # "replying", cpc' \in CallbackPC \ {"replying"},
             unposted \subseteq unposted',
             cpc' = "link" => worker,
             cpc' = "handle" => ~worker \/ Head(buffer) \in unposted'
      PROVE  Places'
  BY <1>0, <1>1 DEF Places, MlinkTypeOK, MainOrder, CallbackOrder, WritersKnown, schedVars,
     hwioVars, stateVars, recvVars, sendVars, wireVars
<1>2. CASE callback_begin \/ callback_reads_worker \/ callback_calls_post
  <2>1. rpc = "callback"
    BY <1>0, <1>2 DEF callback_begin, callback_reads_worker, callback_calls_post,
       CallbackOrder
  <2>2. CASE callback_begin
    BY <1>1, <2>1, <2>2 DEF callback_begin, CallbackPC
  <2>3. CASE callback_reads_worker
    BY <1>1, <2>1, <2>3 DEF callback_reads_worker, HandlesUnposted, CallbackPC
  <2>4. CASE callback_calls_post
    BY <1>1, <2>1, <2>4 DEF callback_calls_post, HandlesUnposted, CallbackPC
  <2> QED
    BY <1>2, <2>2, <2>3, <2>4
\* It returns.
<1>3. ASSUME CallbackReturns, UNCHANGED <<mpc, worker, transport, handled, unposted, sessions>>,
             cpc # "replying",
             \/ UNCHANGED schedVars
             \/ bg_sched_post(Head(buffer))
      PROVE  Places'
  <2>1. /\ cpc' = "none" /\ rpc' = "loop" /\ buffer' = <<>> /\ rpc = "callback"
        /\ UNCHANGED <<stateVars, cancel, arrived, sendVars, wireVars, depc, fd, killed>>
    BY <1>3 DEF CallbackReturns, recv_callback_return
  <2>2. wpc' = "call" <=> wpc = "call"
    BY <1>3 DEF schedVars, bg_sched_post, Wake
  <2>3. task' = task /\ dpc' = dpc /\ (queue' = queue \/ (dpc \notin {"free", "freed"}))
    BY <1>3 DEF schedVars, bg_sched_post
  <2>4. MlinkTypeOK'
    BY <1>0, <1>3, <2>1 DEF MlinkTypeOK, wireVars, sendVars, CallbackPC
  <2>5. MainOrder'
    BY <1>0, <1>a, <1>3, <2>1, <2>2, <2>3 DEF MainOrder, stateVars
  <2>6. CallbackOrder' /\ WritersKnown'
    BY <1>0, <1>3, <2>1, <2>2, <2>3 DEF CallbackOrder, WritersKnown, sendVars
  <2> QED
    BY <2>4, <2>5, <2>6 DEF Places
<1>4. CASE callback_drops \/ callback_posts \/ callback_returns
  BY <1>3, <1>4 DEF callback_drops, callback_posts, callback_returns
<1>5. CASE callback_posts_too_late
  <2>1. CASE CallbackReturns
    BY <1>3, <1>5, <2>1 DEF callback_posts_too_late
  <2>2. CASE killed' = TRUE /\ UNCHANGED <<cpc, stateVars, recvVars, sendVars, wireVars, depc, fd>>
    <3>1. mpc # "down"
      BY <1>0, <1>a, <1>5 DEF callback_posts_too_late, CallbackOrder
    <3> QED
      BY <1>0, <1>5, <2>2, <3>1 DEF callback_posts_too_late, Places, MlinkTypeOK, MainOrder,
         CallbackOrder, WritersKnown, schedVars, stateVars, recvVars, sendVars, wireVars
  <2> QED
    BY <1>5, <2>1, <2>2 DEF callback_posts_too_late
<1>6. CASE callback_replies
  <2>1. rpc = "callback" /\ Head(buffer) \in Tasks /\ hwio_tcp_write("receiver", Head(buffer))
    BY <1>0, <1>a, <1>6 DEF callback_replies, CallbackOrder
  <2>2. /\ data' \in [Writers -> Tasks \cup {NoData, "hello", "note"}]
        /\ spc'["receiver"] # "idle" /\ data'["receiver"] = Head(buffer)
        /\ \A v \in Writers \ {"receiver"} : spc'[v] = spc[v] /\ data'[v] = data[v]
        /\ UNCHANGED <<stateVars, recvVars, senderr, written, wireVars, depc, fd, killed>>
    BY <1>0, <2>1, WriteBegins
  <2>3. MlinkTypeOK' /\ MainOrder' /\ CallbackOrder'
    BY <1>0, <1>6, <2>1, <2>2 DEF callback_replies, MlinkTypeOK, MainOrder, CallbackOrder,
       schedVars, stateVars, recvVars, wireVars, CallbackPC
  <2>4. WritersKnown'
    BY <1>0, <1>6, <2>2 DEF callback_replies, WritersKnown, schedVars, recvVars
  <2> QED
    BY <2>3, <2>4 DEF Places
<1>7. CASE callback_replied
  <2>1. rpc = "callback" /\ Head(buffer) \in Tasks
    BY <1>0, <1>a, <1>7 DEF callback_replied, CallbackOrder
  <2>2. /\ data' \in [Writers -> Tasks \cup {NoData, "hello", "note"}]
        /\ spc'["receiver"] = "idle" /\ data'["receiver"] = NoData
        /\ \A v \in Writers \ {"receiver"} : spc'[v] = spc[v] /\ data'[v] = data[v]
        /\ UNCHANGED <<stateVars, recvVars, senderr, written, wireVars, depc, fd, killed>>
    BY <1>0, <1>7, WriteReturns DEF callback_replied
  <2>3. handled' \in Seq(Tasks)
    BY <1>0, <1>7, <2>1, AppendProperties DEF callback_replied, MlinkTypeOK
  <2>4. MlinkTypeOK' /\ MainOrder' /\ CallbackOrder'
    BY <1>0, <1>7, <2>1, <2>2, <2>3 DEF callback_replied, MlinkTypeOK, MainOrder, CallbackOrder,
       schedVars, stateVars, recvVars, wireVars, CallbackPC
  <2>5. WritersKnown'
    BY <1>0, <1>7, <2>2 DEF callback_replied, WritersKnown, schedVars, recvVars
  <2> QED
    BY <2>4, <2>5 DEF Places
<1>8. CASE callback_cancelled
  <2>1. /\ data' \in [Writers -> Tasks \cup {NoData, "hello", "note"}]
        /\ spc'["receiver"] = "idle" /\ data'["receiver"] = NoData
        /\ \A v \in Writers \ {"receiver"} : spc'[v] = spc[v] /\ data'[v] = data[v]
    BY <1>0, <1>8 DEF callback_cancelled, MlinkTypeOK, ConnInv, ConnTypeOK
  <2>2. MlinkTypeOK' /\ MainOrder' /\ CallbackOrder'
    BY <1>0, <1>8, <2>1 DEF callback_cancelled, MlinkTypeOK, MainOrder, CallbackOrder,
       schedVars, stateVars, wireVars, CallbackPC
  <2>3. WritersKnown'
    BY <1>0, <1>8, <2>1 DEF callback_cancelled, WritersKnown, schedVars
  <2> QED
    BY <2>2, <2>3 DEF Places
<1> QED
  BY <1>2, <1>4, <1>5, <1>6, <1>7, <1>8 DEF Callback

\* The worker.
LEMMA WorkerKeepsPlaces ==
  ASSUME MlinkInv, worker_step \/ worker_wakes_up \/ task_replies \/ task_returns PROVE Places'
<1>0. /\ MlinkTypeOK /\ MainOrder /\ CallbackOrder /\ WritersKnown /\ ConnInv /\ SchedInv
      /\ "main" \in Writers /\ "worker" \in Writers /\ "receiver" \in Writers
  BY ThreadsAssumption DEF MlinkInv, Threads
<1>1. CASE worker_step \/ worker_wakes_up
  <2>1. /\ wpc # "call" /\ dpc' = dpc
        /\ wpc' = "call" => queue # <<>>
        /\ dpc \in {"free", "freed"} => queue' = <<>>
        /\ ~transport => queue' = <<>>
    BY <1>0, <1>1 DEF worker_step, worker_wakes_up, worker_wait, worker_exit, worker_take,
       worker_after, worker_spurious_wakeup, MainOrder
  <2>2. UNCHANGED <<hwioVars, glueVars>>
    BY <1>1 DEF worker_step, worker_wakes_up
  <2>3. MlinkTypeOK' /\ CallbackOrder'
    BY <1>0, <2>2 DEF MlinkTypeOK, CallbackOrder, hwioVars, recvVars, sendVars, wireVars, glueVars
  <2>4. MainOrder'
    BY <1>0, <2>1, <2>2 DEF MainOrder, hwioVars, stateVars, glueVars
  <2>5. WritersKnown'
    BY <1>0, <2>1, <2>2 DEF WritersKnown, hwioVars, recvVars, sendVars, glueVars
  <2> QED
    BY <2>3, <2>4, <2>5 DEF Places
<1>2. CASE task_replies
  <2>1. task \in Tasks /\ hwio_tcp_write("worker", task)
    BY <1>0, <1>2 DEF task_replies, SchedInv, SchedTypeOK, TaskHeld
  <2>2. /\ data' \in [Writers -> Tasks \cup {NoData, "hello", "note"}]
        /\ spc'["worker"] # "idle" /\ data'["worker"] = task
        /\ \A v \in Writers \ {"worker"} : spc'[v] = spc[v] /\ data'[v] = data[v]
        /\ UNCHANGED <<stateVars, recvVars, senderr, written, wireVars, depc, fd, killed>>
    BY <1>0, <2>1, WriteBegins
  <2>3. MlinkTypeOK' /\ MainOrder' /\ CallbackOrder'
    BY <1>0, <1>2, <2>2 DEF task_replies, MlinkTypeOK, MainOrder, CallbackOrder,
       schedVars, stateVars, recvVars, wireVars, glueVars
  <2>4. WritersKnown'
    BY <1>0, <1>2, <2>2 DEF task_replies, WritersKnown, schedVars, recvVars, glueVars
  <2> QED
    BY <2>3, <2>4 DEF Places
<1>3. CASE task_returns
  <2>1. task \in Tasks /\ wpc = "call" /\ transport /\ write_return("worker")
    BY <1>0, <1>3 DEF task_returns, worker_call, SchedInv, SchedTypeOK, TaskHeld, MainOrder
  <2>2. /\ data' \in [Writers -> Tasks \cup {NoData, "hello", "note"}]
        /\ spc'["worker"] = "idle" /\ data'["worker"] = NoData
        /\ \A v \in Writers \ {"worker"} : spc'[v] = spc[v] /\ data'[v] = data[v]
        /\ UNCHANGED <<stateVars, recvVars, senderr, written, wireVars, depc, fd, killed>>
    BY <1>0, <2>1, WriteReturns
  <2>3. handled' \in Seq(Tasks)
    BY <1>0, <1>3, <2>1, AppendProperties DEF task_returns, MlinkTypeOK
  <2>4. MlinkTypeOK' /\ MainOrder' /\ CallbackOrder'
    BY <1>0, <1>3, <2>1, <2>2, <2>3 DEF task_returns, worker_call, MlinkTypeOK, MainOrder,
       CallbackOrder, stateVars, recvVars, wireVars
  <2>5. WritersKnown'
    BY <1>0, <1>3, <2>2 DEF task_returns, worker_call, WritersKnown, recvVars
  <2> QED
    BY <2>4, <2>5 DEF Places
<1> QED
  BY <1>1, <1>2, <1>3

\* mlink_server_destroy: the worker goes, then the connection, then the transport.
LEMMA DestroyKeepsPlaces ==
  ASSUME MlinkInv, ~killed,
         \/ mlink_server_destroy \/ sched_destroying \/ worker_cleared
         \/ transport_destroy \/ transport_destroying \/ mlink_server_destroyed
  PROVE  Places'
<1>0. MlinkTypeOK /\ MainOrder /\ CallbackOrder /\ WritersKnown /\ ConnInv /\ SchedInv
  BY DEF MlinkInv
<1>1. CASE mlink_server_destroy
  BY <1>0, <1>1 DEF mlink_server_destroy, destroy_stop, Wake, Places, MlinkTypeOK, MainOrder,
     CallbackOrder, WritersKnown, schedVars, hwioVars, stateVars, recvVars, sendVars, wireVars,
     MainPC
<1>2. CASE sched_destroying
  <2>1. /\ UNCHANGED <<hwioVars, glueVars, task, wpc>>
        /\ dpc # "none" /\ dpc' # "none" /\ mpc = "sched"
        /\ queue' = <<>> \/ (queue' = queue /\ dpc' \in {"drain", "freed"})
        /\ dpc' = "freed" => dpc = "free"
    BY <1>2 DEF sched_destroying, destroy_join, destroy_drain, destroy_free
  <2> QED
    BY <1>0, <2>1 DEF Places, MlinkTypeOK, MainOrder,
       CallbackOrder, WritersKnown, hwioVars, stateVars, recvVars, sendVars, wireVars, glueVars
<1>3. CASE worker_cleared
  BY <1>0, <1>3 DEF worker_cleared, Places, MlinkTypeOK, MainOrder,
     CallbackOrder, WritersKnown, schedVars, hwioVars, stateVars, recvVars, sendVars, wireVars,
     MainPC
<1>4. CASE transport_destroy
  BY <1>0, <1>4 DEF transport_destroy, deinit_stop, Places, MlinkTypeOK, MainOrder,
     CallbackOrder, WritersKnown, schedVars, recvVars, sendVars, wireVars, MainPC
<1>5. CASE transport_destroying
  BY <1>0, <1>5 DEF transport_destroying, Deinit, deinit_cancel, deinit_join, deinit_free,
     Places, MlinkTypeOK, MainOrder, CallbackOrder, WritersKnown, schedVars, stateVars, recvVars,
     sendVars, wireVars, glueVars, ConnInv, Lifetime
<1>6. CASE mlink_server_destroyed
  <2>1. ~priv /\ ~worker /\ cpc = "none" /\ mpc # "start"
    BY <1>0, <1>6 DEF mlink_server_destroyed, MainOrder, ConnInv, Lifetime, CallbackOrder
  <2>2. wpc # "call" /\ queue = <<>>
    BY <1>0, <2>1 DEF MainOrder, SchedInv, StopOrder, Joined
  <2>3. MlinkTypeOK' /\ MainOrder'
    BY <1>0, <1>6, <2>1, <2>2 DEF mlink_server_destroyed, MlinkTypeOK, MainOrder, schedVars,
       hwioVars, stateVars, recvVars, sendVars, wireVars, MainPC
  <2>4. CallbackOrder' /\ WritersKnown'
    BY <1>0, <1>6, <2>1, <2>2 DEF mlink_server_destroyed, CallbackOrder, WritersKnown, schedVars,
       hwioVars, recvVars, sendVars
  <2> QED
    BY <2>3, <2>4 DEF Places
<1> QED
  BY <1>1, <1>2, <1>3, <1>4, <1>5, <1>6

\* Every step keeps everybody where he should be.
LEMMA StepKeepsPlaces == ASSUME MlinkInv, MlinkNext PROVE Places'
<1>1. "main" \in Writers /\ "worker" \in Writers /\ "receiver" \in Writers
  BY ThreadsAssumption DEF Threads
<1> QED
  BY <1>1, InitKeepsPlaces, MainKeepsPlaces, ReceiverKeepsPlaces, PeerKeepsPlaces,
     WritingKeepsPlaces, CallbackKeepsPlaces, WorkerKeepsPlaces, DestroyKeepsPlaces
     DEF MlinkNext, MainThread, ReceiverThread, WorkerThread, Application, Environment

-----------------------------------------------------------------------------
\* What a sequence holds, and whether it holds it once, as items come and go.
LEMMA RangeAppends ==
  ASSUME NEW S, NEW s \in Seq(S), NEW e \in S
  PROVE  /\ Range(Append(s, e)) = Range(s) \cup {e}
         /\ Injective(s) /\ e \notin Range(s) => Injective(Append(s, e))
<1>1. /\ Append(s, e) \in Seq(S) /\ Len(s) \in Nat /\ Len(Append(s, e)) = Len(s) + 1
      /\ \A i \in 1..Len(s) : Append(s, e)[i] = s[i]
      /\ Append(s, e)[Len(s) + 1] = e
  BY AppendProperties, LenProperties
<1>2. /\ Range(s) = {s[i] : i \in 1..Len(s)}
      /\ Range(Append(s, e)) = {Append(s, e)[i] : i \in 1..Len(Append(s, e))}
  BY <1>1, RangeEquality
<1>4. Range(Append(s, e)) = Range(s) \cup {e}
  <2>1. \A x \in Range(Append(s, e)) : x = e \/ x \in Range(s)
    BY <1>1, <1>2
  <2>2. \A x \in Range(s) : x \in Range(Append(s, e))
    BY <1>1, <1>2
  <2>3. e \in Range(Append(s, e))
    BY <1>1, <1>2
  <2> QED
    BY <2>1, <2>2, <2>3
<1>5. ASSUME Injective(s), e \notin Range(s) PROVE Injective(Append(s, e))
  BY <1>1, <1>2, <1>5 DEF Injective
<1> QED
  BY <1>4, <1>5

\* Taking the head of a sequence splits its range; if nothing is in it twice, the head is gone.
LEMMA RangeTakes ==
  ASSUME NEW S, NEW s \in Seq(S), s # <<>>
  PROVE  /\ Range(s) = {Head(s)} \cup Range(Tail(s))
         /\ Injective(s) => Head(s) \notin Range(Tail(s)) /\ Injective(Tail(s))
<1>1. /\ Tail(s) \in Seq(S) /\ Len(s) \in Nat \ {0} /\ Len(Tail(s)) = Len(s) - 1 /\ Head(s) = s[1]
      /\ \A i \in 1..Len(Tail(s)) : Tail(s)[i] = s[i + 1]
  BY HeadTailProperties, LenProperties, EmptySeq
<1>2. /\ Range(s) = {s[i] : i \in 1..Len(s)}
      /\ Range(Tail(s)) = {Tail(s)[i] : i \in 1..Len(Tail(s))}
  <2>1. Tail(s) \in Seq(S)
    BY <1>1
  <2>2. Range(s) = {s[i] : i \in 1..Len(s)}
    BY RangeEquality
  <2>3. Range(Tail(s)) = {Tail(s)[i] : i \in 1..Len(Tail(s))}
    BY ONLY <2>1, RangeEquality
  <2> QED
    BY <2>2, <2>3
<1>3. ASSUME NEW i \in 1..Len(s), i # 1 PROVE s[i] \in Range(Tail(s))
  <2>1. i - 1 \in 1..Len(Tail(s)) /\ Tail(s)[i - 1] = s[i]
    BY <1>1, <1>3
  <2> QED
    BY <1>2, <2>1
<1>4. ASSUME NEW i \in 1..Len(Tail(s)) PROVE Tail(s)[i] = s[i + 1] /\ i + 1 \in 1..Len(s)
  BY <1>1
<1>5. Range(s) = {Head(s)} \cup Range(Tail(s))
  <2>1. Range(s) \subseteq {Head(s)} \cup Range(Tail(s))
    BY <1>1, <1>2, <1>3
  <2>2. Range(Tail(s)) \subseteq Range(s)
    BY <1>2, <1>4
  <2>3. Head(s) \in Range(s)
    BY <1>1, <1>2
  <2> QED
    BY <2>1, <2>2, <2>3
<1>6. ASSUME Injective(s) PROVE Head(s) \notin Range(Tail(s)) /\ Injective(Tail(s))
  <2>1. \A i \in 1..Len(Tail(s)) : s[i + 1] # s[1]
    BY <1>1, <1>4, <1>6 DEF Injective
  <2>2. Head(s) \notin Range(Tail(s))
    BY <1>1, <1>2, <2>1
  <2>3. Injective(Tail(s))
    BY <1>1, <1>4, <1>6 DEF Injective
  <2> QED
    BY <2>2, <2>3
<1> QED
  BY <1>5, <1>6

\* In a concatenation with nothing twice the two parts share nothing.
LEMMA RangeSplits ==
  ASSUME NEW S, NEW a \in Seq(S), NEW b \in Seq(S), Injective(a \o b)
  PROVE  Injective(a) /\ Injective(b) /\ Range(a) \cap Range(b) = {}
<1>1. /\ Len(a) \in Nat /\ Len(b) \in Nat /\ Len(a \o b) = Len(a) + Len(b)
      /\ \A i \in 1..Len(a) + Len(b) : (a \o b)[i] = IF i <= Len(a) THEN a[i] ELSE b[i - Len(a)]
  BY ConcatProperties, LenProperties
<1>2. Range(a) = {a[i] : i \in 1..Len(a)} /\ Range(b) = {b[i] : i \in 1..Len(b)}
  BY RangeEquality
<1>3. \A i \in 1..Len(a) : i \in 1..Len(a \o b) /\ (a \o b)[i] = a[i]
  BY <1>1
<1>4. \A i \in 1..Len(b) : i + Len(a) \in 1..Len(a \o b) /\ (a \o b)[i + Len(a)] = b[i]
  BY <1>1
<1>5. Injective(a)
  BY <1>1, <1>3 DEF Injective
<1>6. Injective(b)
  <2> SUFFICES ASSUME NEW i \in 1..Len(b), NEW j \in 1..Len(b), b[i] = b[j] PROVE i = j
    BY DEF Injective
  <2>1. i + Len(a) = j + Len(a)
    BY <1>4 DEF Injective
  <2> QED
    BY <1>1, <2>1
<1>7. \A i \in 1..Len(a), j \in 1..Len(b) : a[i] # b[j]
  BY <1>1, <1>3, <1>4 DEF Injective
<1> QED
  BY <1>2, <1>5, <1>6, <1>7

\* The ranges of the empty sequence and of a sequence of one.
LEMMA RangeSmall ==
  /\ Range(<<>>) = {} /\ Injective(<<>>)
  /\ \A e : Range(<<e>>) = {e}
<1>1. Range(<<>>) = {} /\ Injective(<<>>)
  BY DEF Range, Injective
<1>2. ASSUME NEW e PROVE Range(<<e>>) = {e}
  BY DEF Range
<1> QED
  BY <1>1, <1>2

-----------------------------------------------------------------------------
\* What the receive callback holds, place by place.
LEMMA CallbackHolds ==
  /\ rpc # "callback" \/ cpc = "handled" => InCallback = {}
  /\ rpc = "callback" /\ cpc \in {"none", "entry"} => InCallback = Range(buffer)
  /\ rpc = "callback" /\ cpc \in {"post", "link", "handle", "replying"} => InCallback = {Head(buffer)}
  /\ rpc' # "callback" \/ cpc' = "handled" => InCallback' = {}
  /\ rpc' = "callback" /\ cpc' \in {"none", "entry"} => InCallback' = Range(buffer')
  /\ rpc' = "callback" /\ cpc' \in {"post", "link", "handle", "replying"}
        => InCallback' = {Head(buffer')}
BY DEF InCallback

\* Steps that take no request from one place to another.
LEMMA QuietKeepsOnePlace ==
  ASSUME OnePlace, InCallback' = InCallback, InFlight' = InFlight,
         UNCHANGED <<queue, handled, lost, discarded, arrived, inbound>>,
         rpc' = "callback" => rpc = "callback" /\ buffer' = buffer
  PROVE  OnePlace'
BY DEF OnePlace, OnTheWay, Settled

\* A new connection: what the peer had sent over the last one is gone unread.
LEMMA InitKeepsOnePlace ==
  ASSUME MlinkInv, OnePlace, mlink_server_init \/ mlink_server_init_offline PROVE OnePlace'
<1>0. rpc # "callback"
  BY DEF MlinkInv, ConnInv, Lifetime, ConnTypeOK, mlink_server_init, mlink_server_init_offline,
     hwio_tcp_init, hwio_tcp_init_fails
<1>1. CASE mlink_server_init
  <2>1. /\ InCallback' = {} /\ InCallback = {} /\ InFlight' = InFlight
        /\ inbound' = <<>> /\ rpc' # "callback"
        /\ UNCHANGED <<queue, handled, lost, discarded, arrived>>
    BY <1>0, <1>1, CallbackHolds DEF mlink_server_init, hwio_tcp_init, schedVars, InFlight
  <2>2. Range(inbound') = {} /\ Injective(inbound')
    BY <2>1, RangeSmall
  <2> QED
    BY <2>1, <2>2 DEF OnePlace, OnTheWay, Settled
<1>2. CASE mlink_server_init_offline
  <2>1. /\ InCallback' = {} /\ InCallback = {} /\ InFlight' = InFlight /\ rpc' # "callback"
        /\ UNCHANGED <<queue, handled, lost, discarded, arrived, inbound>>
    BY <1>0, <1>2, CallbackHolds DEF mlink_server_init_offline, hwio_tcp_init_fails, schedVars,
       InFlight, hwioVars, recvVars, wireVars
  <2> QED
    BY <2>1, QuietKeepsOnePlace
<1> QED
  BY <1>1, <1>2

\* recv takes requests out of the socket, the peer puts new ones in.
LEMMA WireKeepsOnePlace ==
  ASSUME MlinkInv, OnePlace,
         \/ recv_data /\ UNCHANGED <<schedVars, glueVars>>
         \/ peer_requests \/ peer_leaves
  PROVE  OnePlace'
<1>0. MlinkTypeOK /\ CallbackOrder /\ inbound \in Seq(Tasks) /\ arrived \in Seq(Tasks)
  BY DEF MlinkInv, MlinkTypeOK
<1>1. CASE recv_data /\ UNCHANGED <<schedVars, glueVars>>
  <2>1. /\ buffer' \in Seq(Tasks) /\ inbound' \in Seq(Tasks)
        /\ arrived' = arrived \o buffer' /\ inbound = buffer' \o inbound'
    BY <1>0, <1>1, RecvTakes
  <2>2. /\ Range(arrived') = Range(arrived) \cup Range(buffer')
        /\ Range(inbound) = Range(buffer') \cup Range(inbound')
    BY <1>0, <2>1, RangeConcatenation
  <2>3. /\ Injective(buffer') /\ Injective(inbound')
        /\ Range(buffer') \cap Range(inbound') = {}
    BY <2>1, RangeSplits DEF OnePlace
  <2>4. /\ InCallback = {} /\ InCallback' = Range(buffer') /\ InFlight' = InFlight
        /\ UNCHANGED <<queue, handled, lost, discarded>>
    <3>1. cpc = "none" /\ cpc' = "none" /\ rpc # "callback" /\ rpc' = "callback"
      BY <1>0, <1>1 DEF recv_data, CallbackOrder, glueVars
    <3> QED
      BY <1>1, <3>1, CallbackHolds DEF InFlight, schedVars, glueVars
  <2> QED
    BY <2>2, <2>3, <2>4 DEF OnePlace, OnTheWay, Settled
<1>2. ASSUME NEW m \in Tasks, peer_send(m), UNCHANGED <<schedVars, glueVars>> PROVE OnePlace'
  <2>1. /\ inbound' = Append(inbound, m) /\ m \notin Range(arrived) \cup Range(inbound)
        /\ UNCHANGED <<arrived, rpc, cpc, buffer, queue, handled, lost, discarded, wpc, task>>
    BY <1>2 DEF peer_send, recvVars, schedVars, glueVars
  <2>2. InCallback' = InCallback /\ InFlight' = InFlight
    BY <2>1 DEF InCallback, InFlight
  <2>3. Range(inbound') = Range(inbound) \cup {m} /\ Injective(inbound')
    BY <1>0, <2>1, RangeAppends DEF OnePlace
  <2> QED
    BY <2>1, <2>2, <2>3 DEF OnePlace, OnTheWay, Settled
<1>3. CASE peer_leaves
  <2>1. UNCHANGED <<inbound, arrived, rpc, cpc, buffer, queue, handled, lost, discarded, wpc, task>>
    BY <1>3 DEF peer_leaves, peer_close, recvVars, schedVars, glueVars
  <2>2. InCallback' = InCallback /\ InFlight' = InFlight
    BY <2>1 DEF InCallback, InFlight
  <2> QED
    BY <2>1, <2>2, QuietKeepsOnePlace
<1> QED
  BY <1>1, <1>2, <1>3 DEF peer_requests

\* The receive callback hands its request on, settles it, or gives it up.
LEMMA CallbackKeepsOnePlace ==
  ASSUME MlinkInv, OnePlace, Callback PROVE ~killed' => OnePlace'
<1>0. /\ MlinkTypeOK /\ CallbackOrder /\ buffer \in Seq(Tasks)
      /\ queue \in Seq(Tasks) /\ handled \in Seq(Tasks)
  BY DEF MlinkInv, MlinkTypeOK, SchedInv, SchedTypeOK
<1> DEFINE h == Head(buffer)
<1>a. cpc # "none" \/ callback_begin =>
        /\ rpc = "callback" /\ buffer # <<>> /\ h \in Tasks
        /\ Range(buffer) = {h} \cup Range(Tail(buffer)) /\ h \notin Range(Tail(buffer))
  <2>1. cpc # "none" \/ callback_begin => rpc = "callback"
    BY <1>0 DEF CallbackOrder, callback_begin, recv_callback_return
  <2>2. rpc = "callback" => buffer # <<>> /\ Injective(buffer)
    BY <1>0 DEF CallbackOrder, OnePlace
  <2> QED
    BY <1>0, <2>1, <2>2, HeadTailProperties, RangeTakes
<1> HIDE DEF h
\* It goes on with its request.
<1>1. ASSUME UNCHANGED <<schedVars, buffer, rpc, arrived, inbound, handled, lost>>, InCallback' = InCallback
      PROVE  OnePlace'
  BY <1>1, QuietKeepsOnePlace DEF schedVars, InFlight
<1>2. CASE callback_begin
  <2>1. /\ rpc = "callback" /\ cpc = "none" /\ cpc' = "entry"
        /\ UNCHANGED <<schedVars, buffer, rpc, arrived, inbound, handled, lost>>
    BY <1>a, <1>2 DEF callback_begin, hwioVars, recvVars, wireVars
  <2>2. InCallback' = InCallback
    BY <2>1, CallbackHolds
  <2> QED
    BY <1>1, <2>1, <2>2
<1>3. CASE callback_calls_post \/ callback_replies
  <2>1. /\ rpc = "callback" /\ cpc \in {"post", "handle"}
        /\ cpc' \in {"link", "handle", "replying"}
        /\ UNCHANGED <<schedVars, buffer, rpc, arrived, inbound, handled, lost>>
    BY <1>a, <1>3 DEF callback_calls_post, callback_replies, HandlesUnposted, hwio_tcp_write,
       hwioVars, recvVars, wireVars
  <2>2. InCallback' = InCallback
    BY <2>1, CallbackHolds
  <2> QED
    BY <1>1, <2>1, <2>2
\* Some of what it holds is lost.
<1>4. ASSUME NEW X, UNCHANGED <<schedVars, arrived, inbound, handled>>,
             lost' = lost \cup X, X \subseteq InCallback, InCallback' = InCallback \ X,
             rpc' = "callback" => rpc = "callback" /\ buffer' = buffer
      PROVE  OnePlace'
  <2>1. UNCHANGED <<queue, discarded>> /\ InFlight' = InFlight
    BY <1>4 DEF schedVars, InFlight
  <2> QED
    BY <1>4, <2>1 DEF OnePlace, OnTheWay, Settled
<1>5. CASE callback_drops
  <2>1. /\ cpc = "entry" /\ rpc = "callback" /\ rpc' = "loop" /\ lost' = lost \cup Range(buffer)
        /\ UNCHANGED <<schedVars, arrived, inbound, handled>>
    BY <1>a, <1>5 DEF callback_drops, CallbackReturns, recv_callback_return, wireVars
  <2>2. InCallback = Range(buffer) /\ InCallback' = {}
    BY <2>1, CallbackHolds
  <2> QED
    BY <1>4, <2>1, <2>2
<1>6. CASE callback_reads_worker
  <2>1. /\ cpc = "entry" /\ rpc = "callback" /\ cpc' \in {"post", "handle"}
        /\ lost' = lost \cup Range(Tail(buffer))
        /\ UNCHANGED <<schedVars, arrived, inbound, handled, rpc, buffer>>
    BY <1>a, <1>6 DEF callback_reads_worker, HandlesUnposted, hwioVars, recvVars, wireVars
  <2>2. InCallback = Range(buffer) /\ InCallback' = {h}
    BY <2>1, CallbackHolds DEF h
  <2> QED
    BY <1>a, <1>4, <2>1, <2>2
<1>7. CASE callback_cancelled
  <2>1. /\ cpc \in {"handle", "replying"} /\ rpc = "callback"
        /\ rpc' = "exited" /\ lost' = lost \cup {h}
        /\ UNCHANGED <<schedVars, arrived, inbound, handled>>
    BY <1>a, <1>7 DEF callback_cancelled, wireVars, h
  <2>2. InCallback = {h} /\ InCallback' = {}
    BY <2>1, CallbackHolds DEF h
  <2> QED
    BY <1>4, <2>1, <2>2
<1>8. CASE callback_posts_too_late
  <2>1. CASE killed' = TRUE
    BY <2>1
  <2>2. CASE CallbackReturns
    <3>1. /\ cpc = "link" /\ rpc = "callback" /\ rpc' = "loop" /\ lost' = lost \cup {h}
          /\ UNCHANGED <<schedVars, arrived, inbound, handled>>
      BY <1>a, <1>8, <2>2 DEF callback_posts_too_late, CallbackReturns, recv_callback_return,
         wireVars, h
    <3>2. InCallback = {h} /\ InCallback' = {}
      BY <3>1, CallbackHolds DEF h
    <3> QED
      BY <1>4, <3>1, <3>2
  <2> QED
    BY <1>8, <2>1, <2>2 DEF callback_posts_too_late
\* The scheduler accepts it.
<1>9. CASE callback_posts
  <2>1. /\ cpc = "link" /\ rpc = "callback" /\ rpc' = "loop" /\ queue' = Append(queue, h)
        /\ UNCHANGED <<arrived, inbound, handled, lost, discarded, task>>
        /\ wpc' = "call" <=> wpc = "call"
    BY <1>a, <1>9 DEF callback_posts, CallbackReturns, recv_callback_return, bg_sched_post,
       Wake, wireVars, h
  <2>2. InCallback = {h} /\ InCallback' = {} /\ InFlight' = InFlight
    BY <2>1, CallbackHolds DEF h, InFlight
  <2>3. h \in Tasks /\ h \notin Range(queue)
    BY <1>a, <2>1, <2>2 DEF OnePlace
  <2>4. Range(queue') = Range(queue) \cup {h} /\ Injective(queue')
    BY <1>0, <2>1, <2>3, RangeAppends DEF OnePlace
  <2> QED
    BY <2>1, <2>2, <2>4 DEF OnePlace, OnTheWay, Settled
\* It has been handled by the receive thread itself.
<1>10. CASE callback_replied
  <2>1. /\ cpc = "replying" /\ cpc' = "handled" /\ rpc = "callback" /\ rpc' = rpc
        /\ handled' = Append(handled, h)
        /\ UNCHANGED <<schedVars, arrived, inbound, lost, buffer>>
    BY <1>a, <1>10 DEF callback_replied, write_return, recvVars, wireVars, h
  <2>2. /\ InCallback = {h} /\ InCallback' = {} /\ InFlight' = InFlight
        /\ UNCHANGED <<queue, discarded>>
    BY <2>1, CallbackHolds DEF h, InFlight, schedVars
  <2>3. Range(handled') = Range(handled) \cup {h}
    BY <1>0, <1>a, <2>1, RangeAppends
  <2> QED
    BY <2>1, <2>2, <2>3 DEF OnePlace, OnTheWay, Settled
<1>11. CASE callback_returns
  <2>1. /\ cpc = "handled" /\ rpc' = "loop"
        /\ UNCHANGED <<schedVars, arrived, inbound, handled, lost>>
    BY <1>11 DEF callback_returns, CallbackReturns, recv_callback_return, wireVars
  <2>2. InCallback = {} /\ InCallback' = {}
    BY <2>1, CallbackHolds
  <2> QED
    BY <2>1, <2>2, QuietKeepsOnePlace DEF schedVars, InFlight
<1> QED
  BY <1>2, <1>3, <1>5, <1>6, <1>7, <1>8, <1>9, <1>10, <1>11 DEF Callback

\* The worker takes a request from the list and handles it.
LEMMA WorkerKeepsOnePlace ==
  ASSUME MlinkInv, OnePlace, worker_step \/ worker_wakes_up \/ task_replies \/ task_returns
  PROVE  OnePlace'
<1>0. /\ queue \in Seq(Tasks) /\ handled \in Seq(Tasks)
      /\ wpc = "call" => task \in Tasks /\ transport
  BY DEF MlinkInv, MlinkTypeOK, MainOrder, SchedInv, SchedTypeOK, TaskHeld
<1>1. CASE worker_take /\ UNCHANGED <<hwioVars, glueVars>>
  <2>1. /\ queue # <<>> /\ task' = Head(queue) /\ queue' = Tail(queue) /\ wpc # "call"
        /\ wpc' = "call" /\ UNCHANGED <<discarded, rpc, cpc, buffer, arrived, inbound, handled, lost>>
    BY <1>1 DEF worker_take, hwioVars, recvVars, wireVars, glueVars
  <2>2. InCallback' = InCallback /\ InFlight = <<>> /\ InFlight' = <<Head(queue)>>
    BY <2>1 DEF InCallback, InFlight
  <2>3. Range(InFlight) = {} /\ Range(InFlight') = {Head(queue)}
    BY <2>2, RangeSmall
  <2>4. /\ Range(queue) = {Head(queue)} \cup Range(queue') /\ Head(queue) \notin Range(queue')
        /\ Injective(queue')
    BY <1>0, <2>1, RangeTakes DEF OnePlace
  <2> QED
    BY <2>1, <2>2, <2>3, <2>4 DEF OnePlace, OnTheWay, Settled
<1>2. CASE task_returns
  <2>1. /\ wpc = "call" /\ wpc' = "after" /\ handled' = Append(handled, task)
        /\ UNCHANGED <<discarded, queue, rpc, cpc, buffer, arrived, inbound, lost>>
    BY <1>0, <1>2 DEF task_returns, worker_call, write_return, recvVars, wireVars
  <2>2. InCallback' = InCallback /\ InFlight = <<task>> /\ InFlight' = <<>>
    BY <2>1 DEF InCallback, InFlight
  <2>3. Range(InFlight) = {task} /\ Range(InFlight') = {}
    BY <2>2, RangeSmall
  <2>4. Range(handled') = Range(handled) \cup {task}
    BY <1>0, <2>1, RangeAppends
  <2> QED
    BY <2>1, <2>2, <2>3, <2>4 DEF OnePlace, OnTheWay, Settled
<1>3. CASE task_replies
  <2>1. UNCHANGED <<schedVars, rpc, cpc, buffer, arrived, inbound, handled, lost>>
    BY <1>3 DEF task_replies, hwio_tcp_write, recvVars, wireVars, glueVars
  <2> QED
    BY <2>1, QuietKeepsOnePlace DEF InCallback, InFlight, schedVars
<1>4. CASE /\ worker_wait \/ worker_exit \/ worker_after \/ worker_spurious_wakeup
           /\ UNCHANGED <<hwioVars, glueVars>>
  <2>1. /\ wpc # "call" /\ wpc' # "call"
        /\ UNCHANGED <<queue, discarded, rpc, cpc, buffer, arrived, inbound, handled, lost>>
    BY <1>4 DEF worker_wait, worker_exit, worker_after, worker_spurious_wakeup, hwioVars,
       recvVars, wireVars, glueVars
  <2> QED
    BY <2>1, QuietKeepsOnePlace DEF InCallback, InFlight
<1> QED
  BY <1>1, <1>2, <1>3, <1>4 DEF worker_step, worker_wakes_up

\* bg_sched_destroy frees what is left in the list; the rest of mlink_server_destroy
\* settles nothing.
LEMMA DestroyKeepsOnePlace ==
  ASSUME MlinkInv, OnePlace,
         \/ mlink_server_destroy \/ sched_destroying \/ worker_cleared
         \/ transport_destroy \/ transport_destroying \/ mlink_server_destroyed
  PROVE  OnePlace'
<1>1. CASE destroy_drain /\ UNCHANGED <<hwioVars, glueVars>>
  <2>1. /\ discarded = <<>> /\ discarded' = queue /\ queue' = <<>>
        /\ UNCHANGED <<wpc, task, rpc, cpc, buffer, arrived, inbound, handled, lost>>
    BY <1>1 DEF destroy_drain, hwioVars, recvVars, wireVars, glueVars, MlinkInv, SchedInv,
       StopOrder
  <2>2. InCallback' = InCallback /\ InFlight' = InFlight
    BY <2>1 DEF InCallback, InFlight
  <2>3. Range(discarded) = {} /\ Range(queue') = {} /\ Injective(queue')
    BY <2>1, RangeSmall
  <2> QED
    BY <2>1, <2>2, <2>3 DEF OnePlace, OnTheWay, Settled
<1>2. CASE \/ mlink_server_destroy \/ worker_cleared
           \/ (destroy_join \/ destroy_free) /\ UNCHANGED <<hwioVars, glueVars>>
           \/ transport_destroy \/ transport_destroying \/ mlink_server_destroyed
  <2>1. /\ wpc' = "call" <=> wpc = "call"
        /\ UNCHANGED <<task, queue, discarded, rpc, cpc, buffer, arrived, inbound, handled, lost>>
    BY <1>2 DEF mlink_server_destroy, worker_cleared, destroy_stop, Wake, destroy_join,
       destroy_free, transport_destroy, transport_destroying, mlink_server_destroyed,
       deinit_stop, Deinit, deinit_cancel, deinit_join, deinit_free, schedVars, hwioVars,
       recvVars, wireVars, glueVars
  <2> QED
    BY <2>1, QuietKeepsOnePlace DEF InCallback, InFlight
<1> QED
  BY <1>1, <1>2 DEF sched_destroying

\* The main thread's messages, the callback's registration, a thread in
\* hwio_tcp_write and the receive thread on its way to and from recv.
LEMMA OthersKeepOnePlace ==
  ASSUME MlinkInv, OnePlace,
         \/ register_callback \/ register_context \/ send_hello \/ send_returns
         \/ mlink_notify_message \/ receiver_interrupted
         \/ receiver_step /\ ~recv_data
         \/ \E w \in Writers : writing(w)
  PROVE  OnePlace'
<1>1. CASE \/ register_callback \/ register_context \/ send_hello \/ send_returns
           \/ mlink_notify_message \/ \E w \in Writers : writing(w)
  <2>1. UNCHANGED <<schedVars, rpc, cpc, buffer, arrived, inbound, handled, lost>>
    BY <1>1 DEF register_callback, register_context, send_hello, send_returns,
       mlink_notify_message, writing, hwio_tcp_callback, hwio_tcp_callback_ctx,
       hwio_tcp_write, write_return, WriterStep, send_pieces, send_fails, send_sigpipe,
       send_close, send_clear, recvVars, wireVars, glueVars
  <2> QED
    BY <2>1, QuietKeepsOnePlace DEF InCallback, InFlight, schedVars
<1>2. CASE receiver_interrupted \/ (receiver_step /\ ~recv_data)
  <2>1. /\ rpc # "callback" /\ rpc' # "callback"
        /\ UNCHANGED <<schedVars, cpc, buffer, arrived, inbound, handled, lost>>
    BY <1>2 DEF receiver_interrupted, receiver_step, recv_interrupted, recv_test, recv_wake,
       recv_enter, recv_eof, recv_close, recv_clear, recv_cancelled, wireVars, glueVars
  <2> QED
    BY <2>1, QuietKeepsOnePlace DEF InCallback, InFlight, schedVars
<1> QED
  BY <1>1, <1>2

\* Every step leaves every request that arrived in one place.
LEMMA StepKeepsOnePlace ==
  ASSUME MlinkInv, MlinkNext PROVE ~killed' => OnePlace'
<1>1. OnePlace
  BY DEF MlinkInv, MlinkNext
<1>2. "main" \in Writers /\ "worker" \in Writers /\ "receiver" \in Writers
  BY ThreadsAssumption DEF Threads
<1>3. ASSUME receiver_step PROVE OnePlace'
  BY <1>1, <1>3, WireKeepsOnePlace, OthersKeepOnePlace DEF receiver_step
<1> QED
  BY <1>1, <1>2, <1>3, InitKeepsOnePlace, WireKeepsOnePlace, CallbackKeepsOnePlace,
     WorkerKeepsOnePlace, DestroyKeepsOnePlace, OthersKeepOnePlace
     DEF MlinkNext, MainThread, ReceiverThread, WorkerThread, Application, Environment

-----------------------------------------------------------------------------
\* Steps that neither answer anything nor touch the socket.
LEMMA QuietKeepsAnswers ==
  ASSUME AnsweredSoFar, UNCHANGED <<sessions, done, task, written, priv, sock>>,
         peerOpen' => peerOpen, senderr => senderr',
         rpc' \in {"close", "clear"} => rpc \in {"close", "clear"} \/ ~Sound',
         spc'["worker"] = "done" => spc["worker"] = "done"
  PROVE  AnsweredSoFar'
BY DEF AnsweredSoFar, Sound

\* The first session begins with nothing run, and a socket.
LEMMA InitKeepsAnswers ==
  ASSUME MlinkInv, mlink_server_init \/ mlink_server_init_offline PROVE AnsweredSoFar'
<1>0. /\ AnsweredSoFar /\ MainOrder /\ WritersKnown /\ ConnInv /\ sessions \in Nat
      /\ sessions' = sessions + 1 /\ UNCHANGED <<done, task, written, spc>>
  BY DEF MlinkInv, MlinkTypeOK, mlink_server_init, mlink_server_init_offline, hwio_tcp_init,
     hwio_tcp_init_fails, schedVars, hwioVars, sendVars
<1>1. sessions' # 0 /\ (Sound' => sessions = 0)
  BY <1>0 DEF Sound
<1>2. sessions = 0 => Range(done) = {} /\ spc'["worker"] # "done"
  BY <1>0, RangeSmall DEF AnsweredSoFar, MainOrder, WritersKnown
<1>3. /\ priv' => sock'
      /\ rpc' \notin {"close", "clear"}
  BY <1>0 DEF mlink_server_init, mlink_server_init_offline, hwio_tcp_init, hwio_tcp_init_fails,
     hwioVars, stateVars, recvVars, ConnInv, ConnTypeOK, Lifetime
<1> QED
  BY <1>0, <1>1, <1>2, <1>3 DEF AnsweredSoFar

\* While all is well the receive thread does not close, and the peer ends the first
\* session's claims when it leaves.
LEMMA ReceiverKeepsAnswers ==
  ASSUME MlinkInv, receiver_step \/ receiver_interrupted \/ peer_requests \/ peer_leaves
  PROVE  AnsweredSoFar'
<1>0. AnsweredSoFar /\ ConnInv
  BY DEF MlinkInv
<1>1. CASE recv_enter /\ UNCHANGED <<schedVars, glueVars>>
  <2>1. Sound /\ rpc = "recv" => sock /\ fd = "open"
    <3>1. rpc = "recv" => priv
      BY <1>0, <1>1 DEF ConnInv, Lifetime
    <3>2. Sound => \A w \in Writers : spc[w] # "clear"
      BY <1>0 DEF Sound, ConnInv, WritersCloseOnError
    <3> QED
      BY <1>0, <3>1, <3>2 DEF AnsweredSoFar, ConnInv, OpenIsKnown
  <2>2. rpc' \in {"close", "clear"} => ~Sound'
    BY <1>1, <2>1 DEF recv_enter, Sound, sendVars, wireVars, glueVars
  <2> QED
    BY <1>0, <1>1, <2>2, QuietKeepsAnswers DEF recv_enter, schedVars, glueVars, stateVars, sendVars,
       wireVars
<1>2. CASE recv_eof /\ UNCHANGED <<schedVars, glueVars>>
  <2>1. ~Sound'
    BY <1>2 DEF recv_eof, Sound, wireVars
  <2> QED
    BY <1>0, <1>2, <2>1, QuietKeepsAnswers DEF recv_eof, schedVars, glueVars, stateVars, sendVars,
       wireVars
<1>3. CASE recv_close \/ recv_clear
  <2>1. rpc \in {"close", "clear"} /\ UNCHANGED <<peerOpen, senderr, written, priv>>
    BY <1>3 DEF recv_close, recv_clear, stateVars, sendVars, wireVars
  <2>2. UNCHANGED <<sessions, done>>
    BY <1>3 DEF receiver_step, receiver_interrupted, peer_requests, peer_leaves, schedVars, glueVars
  <2> QED
    BY <1>0, <2>1, <2>2 DEF AnsweredSoFar, Sound
<1>4. CASE /\ \/ recv_test \/ recv_wake \/ recv_data \/ recv_cancelled \/ recv_interrupted
              \/ peer_close \/ \E m \in Tasks : peer_send(m)
           /\ UNCHANGED <<schedVars, glueVars>>
  <2>1. /\ UNCHANGED <<sessions, done, task, written, priv, sock, senderr, spc>>
        /\ peerOpen' => peerOpen
        /\ rpc' \in {"close", "clear"} => rpc \in {"close", "clear"}
    BY <1>4 DEF recv_test, recv_wake, recv_data, recv_cancelled, recv_interrupted, peer_close,
       peer_send, schedVars, glueVars, stateVars, recvVars, sendVars, wireVars
  <2> QED
    BY <1>0, <2>1, QuietKeepsAnswers
<1> QED
  BY <1>1, <1>2, <1>3, <1>4 DEF receiver_step, receiver_interrupted, peer_requests, peer_leaves

\* The receive callback, the main thread and the destruction.
LEMMA OthersKeepAnswers ==
  ASSUME MlinkInv,
         \/ Callback \/ register_callback \/ register_context \/ send_hello \/ send_returns
         \/ mlink_notify_message \/ mlink_server_destroy \/ sched_destroying \/ worker_cleared
         \/ transport_destroy \/ transport_destroying \/ mlink_server_destroyed
         \/ worker_step \/ worker_wakes_up
  PROVE  AnsweredSoFar'
<1>0. /\ AnsweredSoFar /\ ConnInv /\ WritersKnown
      /\ "main" \in Writers /\ "worker" \in Writers /\ "receiver" \in Writers
  BY ThreadsAssumption DEF MlinkInv, Threads
<1>1. CASE Callback
  <2>1. CASE callback_begin \/ callback_reads_worker \/ callback_calls_post
    BY <1>0, <2>1, QuietKeepsAnswers DEF callback_begin, callback_reads_worker,
       callback_calls_post, schedVars, hwioVars, stateVars, recvVars, sendVars, wireVars
  <2>2. CASE callback_drops \/ callback_posts \/ callback_returns \/ callback_posts_too_late
    <3>1. UNCHANGED <<sessions, done, task>>
      BY <2>2 DEF callback_drops, callback_posts, callback_returns, callback_posts_too_late,
         bg_sched_post, schedVars
    <3>2. UNCHANGED <<written, priv, sock, peerOpen, senderr, spc>> /\ rpc' \in {rpc, "loop"}
      BY <2>2 DEF callback_drops, callback_posts, callback_returns, callback_posts_too_late,
         CallbackReturns, recv_callback_return, stateVars, recvVars, sendVars, wireVars
    <3> QED
      BY <1>0, <3>1, <3>2, QuietKeepsAnswers
  <2>3. CASE callback_replies \/ callback_replied
    <3>1. UNCHANGED <<sessions, done, task, written, priv, sock, peerOpen, senderr, rpc>>
      BY <2>3 DEF callback_replies, callback_replied, hwio_tcp_write, write_return, schedVars,
         stateVars, recvVars, wireVars
    <3>2. spc'["worker"] = spc["worker"]
      BY <1>0, <2>3 DEF callback_replies, callback_replied, hwio_tcp_write, write_return, ConnInv,
         ConnTypeOK
    <3> QED
      BY <1>0, <3>1, <3>2, QuietKeepsAnswers
  <2>4. CASE callback_cancelled
    <3>1. UNCHANGED <<sessions, done, task, written, priv, sock, peerOpen, senderr>> /\ rpc' = "exited"
      BY <2>4 DEF callback_cancelled, schedVars, stateVars, wireVars
    <3>2. spc'["worker"] = spc["worker"]
      BY <1>0, <2>4 DEF callback_cancelled, ConnInv, ConnTypeOK
    <3> QED
      BY <1>0, <3>1, <3>2, QuietKeepsAnswers
  <2> QED
    BY <1>1, <2>1, <2>2, <2>3, <2>4 DEF Callback
<1>2. CASE register_callback \/ register_context
  BY <1>0, <1>2, QuietKeepsAnswers DEF register_callback, register_context, hwio_tcp_callback,
     hwio_tcp_callback_ctx, schedVars, glueVars, recvVars, sendVars, wireVars
<1>3. CASE send_hello \/ mlink_notify_message \/ send_returns
  <2>1. UNCHANGED <<sessions, done, task, written, priv, sock, peerOpen, senderr, rpc>>
    BY <1>3 DEF send_hello, mlink_notify_message, send_returns, hwio_tcp_write, write_return,
       schedVars, stateVars, recvVars, wireVars
  <2>2. spc'["worker"] = spc["worker"]
    BY <1>0, <1>3 DEF send_hello, mlink_notify_message, send_returns, hwio_tcp_write,
       write_return, ConnInv, ConnTypeOK
  <2> QED
    BY <1>0, <2>1, <2>2, QuietKeepsAnswers
<1>4. CASE mlink_server_destroy \/ sched_destroying \/ worker_cleared \/ mlink_server_destroyed
  <2>1. UNCHANGED <<sessions, done, task, written, priv, sock, peerOpen, senderr, rpc, spc>>
    BY <1>4 DEF mlink_server_destroy, sched_destroying, worker_cleared, mlink_server_destroyed,
       destroy_stop, destroy_join, destroy_drain, destroy_free, schedVars, glueVars, hwioVars,
       stateVars, recvVars, sendVars, wireVars
  <2> QED
    BY <1>0, <2>1, QuietKeepsAnswers
<1>5. CASE transport_destroy \/ transport_destroying
  <2>1. /\ UNCHANGED <<sessions, done, task, written, peerOpen, senderr, rpc, spc>>
        /\ UNCHANGED <<priv, sock>> \/ (priv' = FALSE /\ sock' = FALSE)
    BY <1>5 DEF transport_destroy, transport_destroying, deinit_stop, Deinit, deinit_cancel,
       deinit_join, deinit_free, schedVars, glueVars, stateVars, recvVars, sendVars, wireVars
  <2> QED
    BY <1>0, <2>1 DEF AnsweredSoFar, Sound
<1>6. CASE worker_step \/ worker_wakes_up
  <2>1. /\ UNCHANGED <<sessions, done, written, priv, sock, peerOpen, senderr, rpc, spc>>
        /\ wpc # "call"
    BY <1>6 DEF worker_step, worker_wakes_up, worker_wait, worker_exit, worker_take,
       worker_after, worker_spurious_wakeup, glueVars, hwioVars, stateVars, recvVars, sendVars,
       wireVars
  <2>2. spc["worker"] # "done"
    BY <1>0, <2>1 DEF WritersKnown
  <2> QED
    BY <1>0, <2>1, <2>2 DEF AnsweredSoFar, Sound
<1> QED
  BY <1>1, <1>2, <1>3, <1>4, <1>5, <1>6

\* A payload that has been sent to its end is written, and the worker's is its task.
LEMMA WritingKeepsAnswers ==
  ASSUME MlinkInv, NEW w \in Writers, writing(w) PROVE AnsweredSoFar'
<1> DEFINE Payloads == Tasks \cup {NoData, "hello", "note"}
<1>0. /\ AnsweredSoFar /\ ConnInv /\ WritersKnown /\ "worker" \in Writers
      /\ written \in Seq(Payloads) /\ data[w] \in Payloads /\ UNCHANGED <<schedVars, glueVars>>
  BY ThreadsAssumption DEF MlinkInv, Threads, AnsweredSoFar, MlinkTypeOK, writing
<1>1. CASE send_pieces(w)
  <2>1. /\ UNCHANGED <<priv, sock, peerOpen, senderr, rpc, data>>
        /\ \/ UNCHANGED <<spc, written>>
           \/ spc' = [spc EXCEPT ![w] = "done"] /\ written' = Append(written, data[w])
        /\ spc[w] = "send"
    BY <1>1 DEF send_pieces, stateVars, recvVars, wireVars
  <2>2. CASE UNCHANGED <<spc, written>>
    BY <1>0, <2>1, <2>2, QuietKeepsAnswers DEF schedVars, glueVars
  <2>3. CASE spc' = [spc EXCEPT ![w] = "done"] /\ written' = Append(written, data[w])
    <3>1. written' \in Seq(Payloads) /\ Range(written') = Range(written) \cup {data[w]}
      BY <1>0, <2>3, AppendProperties, RangeAppends
    <3>2. CASE w = "worker"
      <4>1. data[w] = task
        BY <1>0, <2>1, <3>2 DEF WritersKnown
      <4> QED
        BY <1>0, <2>1, <3>1, <4>1 DEF AnsweredSoFar, Sound, schedVars, glueVars
    <3>3. CASE w # "worker"
      <4>1. spc'["worker"] = spc["worker"]
        BY <1>0, <2>3, <3>3 DEF ConnInv, ConnTypeOK
      <4> QED
        BY <1>0, <2>1, <3>1, <4>1 DEF AnsweredSoFar, Sound, schedVars, glueVars
    <3> QED
      BY <3>2, <3>3
  <2> QED
    BY <2>1, <2>2, <2>3
<1>2. CASE send_fails(w) \/ send_close(w) \/ send_clear(w)
  <2>1. ~Sound' /\ UNCHANGED <<written, priv, sessions, done>>
    BY <1>0, <1>2 DEF send_fails, send_close, send_clear, Sound, ConnInv, WritersCloseOnError,
       stateVars, schedVars, glueVars
  <2> QED
    BY <1>0, <2>1 DEF AnsweredSoFar
<1>3. CASE send_sigpipe(w)
  BY <1>0, <1>3, QuietKeepsAnswers DEF send_sigpipe, schedVars, glueVars, stateVars, recvVars,
     sendVars, wireVars
<1> QED
  BY <1>1, <1>2, <1>3 DEF writing, WriterStep

\* The worker replies on a socket that is there, and is done when its reply is written.
LEMMA TaskKeepsAnswers ==
  ASSUME MlinkInv, task_replies \/ task_returns PROVE AnsweredSoFar'
<1>0. /\ AnsweredSoFar /\ ConnInv /\ WritersKnown /\ MainOrder /\ "worker" \in Writers
      /\ done \in Seq(Tasks) /\ task \in Tasks /\ wpc = "call" /\ transport
  BY ThreadsAssumption DEF MlinkInv, Threads, SchedInv, SchedTypeOK, TaskHeld, MainOrder,
     task_replies, task_returns, worker_call
<1>1. CASE task_replies
  <2>1. UNCHANGED <<sessions, done, task, written, priv, sock, peerOpen, senderr, rpc>>
    BY <1>1 DEF task_replies, hwio_tcp_write, schedVars, glueVars, stateVars, recvVars, wireVars
  <2>2. priv
    <3>1. worker
      BY <1>0 DEF MlinkInv, MainOrder, SchedInv, StopOrder, Joined
    <3> QED
      BY <1>0, <3>1 DEF MainOrder
  <2>3. sock => spc'["worker"] = "send"
    BY <1>0, <1>1, <2>2 DEF task_replies, hwio_tcp_write, ConnInv, ConnTypeOK
  <2> QED
    BY <1>0, <2>1, <2>2, <2>3 DEF AnsweredSoFar, Sound
<1>2. CASE task_returns
  <2>1. /\ done' = Append(done, task) /\ spc["worker"] = "done"
        /\ UNCHANGED <<sessions, written, priv, sock, peerOpen, senderr, rpc>>
    BY <1>0, <1>2 DEF task_returns, worker_call, write_return, stateVars, recvVars, wireVars
  <2>2. spc'["worker"] = "idle"
    BY <1>0, <1>2 DEF task_returns, write_return, ConnInv, ConnTypeOK
  <2>3. Range(done') = Range(done) \cup {task}
    BY <1>0, <2>1, RangeAppends
  <2>4. sessions # 0
    BY <1>0 DEF MainOrder
  <2> QED
    BY <1>0, <2>1, <2>2, <2>3, <2>4 DEF AnsweredSoFar, Sound
<1> QED
  BY <1>1, <1>2

\* Every step keeps what the first session has answered so far.
LEMMA StepKeepsAnswers == ASSUME MlinkInv, MlinkNext PROVE AnsweredSoFar'
<1>1. "main" \in Writers /\ "worker" \in Writers /\ "receiver" \in Writers
  BY ThreadsAssumption DEF Threads
<1> QED
  BY <1>1, InitKeepsAnswers, ReceiverKeepsAnswers, OthersKeepAnswers, WritingKeepsAnswers,
     TaskKeepsAnswers
     DEF MlinkNext, MainThread, ReceiverThread, WorkerThread, Application, Environment

-----------------------------------------------------------------------------
\* Before the first mlink_server_init nothing has been received or posted, and there is
\* no connection.
LEMMA InitMlinkInv == MlinkInit => MlinkInv
<1> SUFFICES ASSUME MlinkInit PROVE MlinkInv
  OBVIOUS
<1>1. SchedInv /\ ConnInv
  BY InitEstablishesInv, InitConn DEF MlinkInit
<1>2. MlinkTypeOK
  <2>1. mpc = "start" /\ cpc = "none" /\ worker = TRUE /\ transport = FALSE /\ sessions = 0
    BY DEF MlinkInit
  <2>2. handled = <<>> /\ arrived = <<>> /\ buffer = <<>> /\ inbound = <<>>
    BY DEF MlinkInit, HwioInit
  <2>3. data \in [Writers -> Tasks \cup {NoData, "hello", "note"}]
    BY DEF MlinkInit, HwioInit
  <2> QED
    BY <2>1, <2>2, <2>3, EmptySeq DEF MlinkTypeOK, MainPC, CallbackPC
<1>3. MainOrder /\ CallbackOrder
  BY DEF MlinkInit, SchedInit, HwioInit, MainOrder, CallbackOrder
<1>4. WritersKnown
  <2>1. "main" \in Writers /\ "worker" \in Writers /\ "receiver" \in Writers
    BY ThreadsAssumption DEF Threads
  <2> QED
    BY <2>1, RequestsAssumption DEF MlinkInit, SchedInit, HwioInit, WritersKnown
<1>5. OnePlace
  <2>1. InCallback = {} /\ InFlight = <<>>
    BY DEF MlinkInit, SchedInit, HwioInit, InCallback, InFlight
  <2> QED
    BY <2>1, RangeSmall DEF MlinkInit, SchedInit, HwioInit, OnePlace, OnTheWay, Settled
<1>6. AnsweredSoFar
  BY DEF MlinkInit, SchedInit, HwioInit, AnsweredSoFar, Sound
<1> QED
  BY <1>1, <1>2, <1>3, <1>4, <1>5, <1>6 DEF MlinkInv

\* The invariant speaks of nothing but the variables of the server.
LEMMA StutterKeepsMlinkInv == MlinkInv /\ UNCHANGED mlinkVars => MlinkInv'
<1> SUFFICES ASSUME MlinkInv, UNCHANGED mlinkVars PROVE MlinkInv'
  OBVIOUS
<1>0. UNCHANGED schedVars /\ UNCHANGED hwioVars /\ UNCHANGED glueVars
  BY DEF mlinkVars
<1>1. SchedInv'
  BY <1>0, StepKeepsInv DEF MlinkInv
<1>2. ConnInv'
  BY <1>0, OthersKeepConn DEF MlinkInv
<1>3. MlinkTypeOK' /\ MainOrder' /\ CallbackOrder' /\ WritersKnown'
  BY <1>0 DEF MlinkInv, MlinkTypeOK, MainOrder, CallbackOrder, WritersKnown, schedVars, hwioVars,
     stateVars, recvVars, sendVars, wireVars, glueVars
<1>4. ~killed' => OnePlace'
  <2>1. UNCHANGED <<InCallback, InFlight>>
    BY <1>0 DEF InCallback, InFlight, schedVars, hwioVars, recvVars, glueVars
  <2> QED
    BY <1>0, <2>1 DEF MlinkInv, OnePlace, OnTheWay, Settled, Injective, schedVars, hwioVars,
       recvVars, wireVars, glueVars
<1>5. AnsweredSoFar'
  BY <1>0 DEF MlinkInv, AnsweredSoFar, Sound, schedVars, hwioVars, stateVars, recvVars, sendVars,
     wireVars, glueVars
<1> QED
  BY <1>1, <1>2, <1>3, <1>4, <1>5 DEF MlinkInv

\* Every step of the server keeps the invariant.
LEMMA StepKeepsMlinkInv == MlinkInv /\ [MlinkNext]_mlinkVars => MlinkInv'
<1>1. ASSUME MlinkInv, MlinkNext PROVE MlinkInv'
  <2>1. SchedInv'
    <3>1. SchedNext \/ UNCHANGED schedVars
      BY <1>1, StepUsesScheduler DEF MlinkInv
    <3> QED
      BY <1>1, <3>1, StepKeepsInv DEF MlinkInv
  <2>2. ConnInv'
    BY <1>1, StepKeepsConn
  <2>3. Places'
    BY <1>1, StepKeepsPlaces
  <2>4. ~killed' => OnePlace'
    BY <1>1, StepKeepsOnePlace
  <2>5. AnsweredSoFar'
    BY <1>1, StepKeepsAnswers
  <2> QED
    BY <2>1, <2>2, <2>3, <2>4, <2>5 DEF MlinkInv, Places
<1> QED
  BY <1>1, StutterKeepsMlinkInv

\* The inductive invariant holds in every state of the server.
THEOREM MlinkInvariant == MlinkSpec => []MlinkInv
  BY InitMlinkInv, StepKeepsMlinkInv, PTL DEF MlinkSpec

\* The server uses the scheduler as background_sched.h has it: no step of its threads
\* posts, runs or destroys in a way that the scheduler's own specification does not
\* allow.  What is proved of the scheduler thus holds inside the server.
THEOREM MlinkUsesScheduler == MlinkSpec => SchedSpec
<1>1. MlinkInit => SchedInit
  BY DEF MlinkInit
<1>2. MlinkInv /\ [MlinkNext]_mlinkVars => [SchedNext]_schedVars
  <2> SUFFICES ASSUME MlinkInv, [MlinkNext]_mlinkVars PROVE SchedNext \/ UNCHANGED schedVars
    OBVIOUS
  <2>1. CASE MlinkNext
    BY <2>1, StepUsesScheduler DEF MlinkInv
  <2>2. CASE UNCHANGED mlinkVars
    BY <2>2 DEF mlinkVars
  <2> QED
    BY <2>1, <2>2
<1> QED
  BY <1>1, <1>2, MlinkInvariant, PTL DEF MlinkSpec, SchedSpec

\* The receive callback can reach a scheduler that is being freed only while
\* mlink_server_destroy is still running.
THEOREM MlinkStalePost == MlinkSpec => []StalePostOnlyInShutdown
<1>1. ASSUME MlinkInv, cpc = "link", dpc \in {"free", "freed"}
      PROVE  mpc \in {"sched", "net", "deinit"}
  <2>1. CASE worker
    BY <1>1, <2>1 DEF MlinkInv, MainOrder
  <2>2. CASE mpc \in {"net", "deinit"}
    BY <2>2
  <2> QED
    BY <1>1, <2>1, <2>2 DEF MlinkInv, CallbackOrder
<1>2. MlinkInv => StalePostOnlyInShutdown
  BY <1>1 DEF StalePostOnlyInShutdown
<1> QED
  BY <1>2, MlinkInvariant, PTL

\* Two replies are never being written at the same time unless malloc failed for one of
\* the requests: as long as the worker lives the receive thread writes nothing else, and
\* the main thread writes no replies.
THEOREM MlinkRepliesIntact == MlinkSpec => []RepliesIntact
<1>1. ASSUME MlinkInv, NEW v \in Writers, NEW w \in Writers, v # w,
             data[v] \in Tasks, data[w] \in Tasks
      PROVE  {data[v], data[w]} \cap unposted # {}
  <2>1. \A u \in Writers : data[u] \in Tasks => spc[u] # "idle" /\ u # "main"
    BY <1>1, RequestsAssumption DEF MlinkInv, WritersKnown
  <2>2. \/ v = "worker" /\ w = "receiver"
        \/ w = "worker" /\ v = "receiver"
    BY <1>1, <2>1, ThreadsAssumption DEF Threads
  <2>3. spc["worker"] # "idle" /\ spc["receiver"] # "idle"
    BY <1>1, <2>1, <2>2
  <2>4. worker
    BY <1>1, <2>3 DEF MlinkInv, WritersKnown, MainOrder, SchedInv, StopOrder, Joined
  <2>5. data["receiver"] \in unposted
    BY <1>1, <2>3, <2>4 DEF MlinkInv, WritersKnown, CallbackOrder
  <2> QED
    BY <2>2, <2>5
<1>2. MlinkInv => RepliesIntact
  BY <1>1 DEF RepliesIntact
<1> QED
  BY <1>2, MlinkInvariant, PTL

\* When mlink_server_destroy has returned, every request that recv returned was handled,
\* was given up by the receive callback or was freed with the list, and none was both.
THEOREM MlinkRequestsAccounted == MlinkSpec => []RequestsAccounted
<1>1. ASSUME MlinkInv, mpc = "down"
      PROVE  /\ Range(arrived) = Range(handled) \cup lost \cup Range(discarded)
             /\ Range(handled) \cap (lost \cup Range(discarded)) = {}
  <2>1. OnePlace
    BY <1>1 DEF MlinkInv, MainOrder
  <2>2. ~transport /\ ~priv
    BY <1>1 DEF MlinkInv, MainOrder
  <2>3. rpc # "callback"
    BY <1>1, <2>2 DEF MlinkInv, ConnInv, ConnTypeOK, Lifetime, DeinitPC
  <2>4. queue = <<>> /\ InFlight = <<>> /\ InCallback = {}
    BY <1>1, <2>2, <2>3 DEF MlinkInv, MainOrder, InFlight, InCallback
  <2>5. OnTheWay = {}
    BY <2>4, RangeSmall DEF OnTheWay
  <2> QED
    BY <2>1, <2>5 DEF OnePlace, Settled
<1>2. MlinkInv => RequestsAccounted
  BY <1>1 DEF RequestsAccounted
<1> QED
  BY <1>2, MlinkInvariant, PTL

\* mlink_server_destroy stops the worker before the connection: in the first session every
\* request that was queued when it began has been answered, unless the connection failed.
THEOREM MlinkAnsweredBeforeClose == MlinkSpec => []AnsweredBeforeClose
<1>1. ASSUME MlinkInv, mpc = "down", Sound, NEW i \in 1..owed
      PROVE  posted[i] \in Range(written)
  <2>1. /\ posted \in Seq(Tasks) /\ done \in Seq(Tasks) /\ queue \in Seq(Tasks)
        /\ discarded \in Seq(Tasks) /\ InFlight \in Seq(Tasks)
        /\ posted = ((done \o InFlight) \o queue) \o discarded
    BY <1>1, InFlightType DEF MlinkInv, SchedInv, SchedTypeOK, FifoExactlyOnce
  <2>2. owed <= Len(done) /\ owed \in Nat /\ Len(done) \in Nat
    BY <1>1, LenProperties DEF MlinkInv, SchedInv, SchedTypeOK, StopOrder, OwedOldest, MainOrder,
       Joined
  <2>3. i \in 1..Len(done)
    BY <2>2
  <2>4. posted[i] = done[i]
    <3> DEFINE begun == done \o InFlight
               linked == begun \o queue
    <3>1. begun \in Seq(Tasks) /\ Len(begun) >= Len(done) /\ begun[i] = done[i]
      BY <2>1, <2>3, ConcatProperties, LenProperties
    <3> HIDE DEF begun
    <3>2. linked \in Seq(Tasks) /\ Len(linked) >= Len(begun) /\ linked[i] = begun[i]
      BY <2>1, <2>3, <3>1, ConcatProperties, LenProperties
    <3> HIDE DEF linked
    <3>3. (linked \o discarded)[i] = linked[i]
      BY <2>1, <2>3, <3>1, <3>2, ConcatProperties, LenProperties
    <3> QED
      BY <2>1, <3>1, <3>2, <3>3 DEF linked, begun
  <2>5. done[i] \in Range(done)
    BY <2>1, <2>3, RangeEquality
  <2>6. Range(done) \subseteq Range(written)
    BY <1>1 DEF MlinkInv, AnsweredSoFar
  <2> QED
    BY <2>4, <2>5, <2>6
<1>2. MlinkInv => AnsweredBeforeClose
  BY <1>1 DEF AnsweredBeforeClose, Sound
<1> QED
  BY <1>2, MlinkInvariant, PTL

\* Inside the server too, struct tcp_state is freed only when no thread can dereference
\* it: the receive thread has ended, and neither the worker nor the callback writes.
THEOREM MlinkFreedWhenQuiet == MlinkSpec => []FreedWhenQuiet
<1>1. MlinkInv => FreedWhenQuiet
  BY DEF MlinkInv, ConnInv, ConnTypeOK, Lifetime, NobodyInside, Inside, FreedWhenQuiet,
     DeinitPC, ReceiverPC
<1> QED
  BY <1>1, MlinkInvariant, PTL

-----------------------------------------------------------------------------
\* The pairs of requests of which the first arrived earlier.
Earlier == {p \in Tasks \X Tasks :
              \E k, l \in 1..Len(arrived) : k < l /\ arrived[k] = p[1] /\ arrived[l] = p[2]}

Waiting == Range(queue) \cup Range(InFlight)
Answered == Range(written) \cap Tasks

\* The order of the replies: each request waits behind those that arrived before it,
\* in the list, in the worker's hands and in the receive callback, and what has been
\* answered, by whomever, is over.
RepliesSorted ==
    \A i, j \in 1..Len(written) :
        i < j /\ written[i] \in Tasks /\ written[j] \in Tasks =>
            written[i] # written[j] /\ (<<written[i], written[j]>> \in Earlier \/ written[i] \in unposted)

CallbackIsLast ==
    rpc = "callback" =>
        \A d \in Waiting \cup Answered : d = Head(buffer) \/ <<d, Head(buffer)>> \in Earlier

WaitingIsLater ==
    \A a \in Answered, d \in Waiting : a = d \/ a \in unposted \/ <<a, d>> \in Earlier

ListSorted ==
    /\ \A i, j \in 1..Len(queue) : i < j => <<queue[i], queue[j]>> \in Earlier
    /\ \A d \in Range(InFlight), e \in Range(queue) : <<d, e>> \in Earlier

AnsweredIsHandled ==
    \A a \in Answered : \/ a \in Range(handled)
                        \/ spc["worker"] = "done" /\ a = task
                        \/ spc["receiver"] = "done" /\ a = Head(buffer)

ReplyOrder == /\ Injective(arrived)
              /\ RepliesSorted
              /\ CallbackIsLast
              /\ WaitingIsLater
              /\ ListSorted
              /\ AnsweredIsHandled

-----------------------------------------------------------------------------
\* What arrives comes after everything that arrived before, in the order the peer sent
\* it, and changes nothing among the earlier ones.
LEMMA EarlierGrows ==
  ASSUME arrived \in Seq(Tasks), NEW b \in Seq(Tasks), b # <<>>, arrived' = arrived \o b
  PROVE  /\ Earlier \subseteq Earlier'
         /\ \A x \in Range(arrived) : <<x, Head(b)>> \in Earlier'
<1>1. /\ Len(arrived) \in Nat /\ Len(b) \in Nat \ {0} /\ Len(arrived') = Len(arrived) + Len(b)
      /\ \A i \in 1..Len(arrived) + Len(b) :
           arrived'[i] = IF i <= Len(arrived) THEN arrived[i] ELSE b[i - Len(arrived)]
      /\ Head(b) = b[1] /\ Head(b) \in Tasks
  BY ConcatProperties, LenProperties, EmptySeq, HeadTailProperties
<1>2. \A i \in 1..Len(arrived) : i \in 1..Len(arrived') /\ arrived'[i] = arrived[i]
  BY <1>1
<1>3. Earlier \subseteq Earlier'
  BY <1>2 DEF Earlier
<1>4. Len(arrived) + 1 \in 1..Len(arrived') /\ arrived'[Len(arrived) + 1] = Head(b)
  BY <1>1
<1>5. ASSUME NEW x \in Range(arrived) PROVE <<x, Head(b)>> \in Earlier'
  <2>1. PICK i \in 1..Len(arrived) : arrived[i] = x
    BY RangeEquality
  <2>2. i < Len(arrived) + 1 /\ x \in Tasks
    BY <1>1, <2>1, ElementOfSeq
  <2> QED
    BY <1>1, <1>2, <1>4, <2>1, <2>2 DEF Earlier
<1> QED
  BY <1>3, <1>5

\* Requests that wait or have been answered have arrived.
LEMMA KnownArrived ==
  ASSUME MlinkInv, ~killed, AnsweredIsHandled
  PROVE  /\ Waiting \cup Answered \subseteq Range(arrived) /\ Range(arrived) \subseteq Tasks
         /\ Waiting \cap Range(handled) = {}
<1>1. Waiting \subseteq OnTheWay /\ Range(handled) \subseteq Settled /\ OnePlace
  BY DEF MlinkInv, Waiting, OnTheWay, Settled
<1>2. spc["worker"] = "done" => task \in Waiting
  <2>1. spc["worker"] = "done" => wpc = "call"
    BY DEF MlinkInv, WritersKnown
  <2> QED
    BY <2>1, RangeSmall DEF InFlight, Waiting
<1>3. spc["receiver"] = "done" => Head(buffer) \in OnTheWay
  <2>1. spc["receiver"] = "done" => cpc = "replying" /\ rpc = "callback"
    BY DEF MlinkInv, WritersKnown, CallbackOrder
  <2> QED
    BY <2>1, CallbackHolds DEF OnTheWay
<1>4. Answered \subseteq OnTheWay \cup Settled
  BY <1>1, <1>2, <1>3 DEF AnsweredIsHandled
<1>5. Range(arrived) \subseteq Tasks
  BY RangeEquality, ElementOfSeq DEF MlinkInv, MlinkTypeOK
<1> QED
  BY <1>1, <1>4, <1>5 DEF OnePlace

\* Steps that write no reply and hand no request on.
LEMMA QuietKeepsOrder ==
  ASSUME ReplyOrder,
         UNCHANGED <<arrived, written>>,
         queue' = queue \/ queue' = <<>>,
         InFlight' = InFlight \/ InFlight' = <<>>,
         unposted \subseteq unposted',
         rpc' = "callback" => rpc = "callback" /\ buffer' = buffer,
         Range(handled) \subseteq Range(handled'),
         spc["worker"] = "done" => \/ spc'["worker"] = "done" /\ task' = task
                                   \/ task \in Range(handled'),
         spc["receiver"] = "done" => \/ spc'["receiver"] = "done" /\ buffer' = buffer
                                     \/ Head(buffer) \in Range(handled')
  PROVE  ReplyOrder'
<1>1. Earlier' = Earlier /\ Answered' = Answered
  BY DEF Earlier, Answered
<1>2. /\ Range(InFlight') \subseteq Range(InFlight) /\ Range(queue') \subseteq Range(queue)
      /\ Waiting' \subseteq Waiting
  BY RangeSmall DEF Waiting
<1>3. Injective(arrived') /\ RepliesSorted'
  BY <1>1 DEF ReplyOrder, RepliesSorted, Injective
<1>4. CallbackIsLast' /\ WaitingIsLater'
  BY <1>1, <1>2 DEF ReplyOrder, CallbackIsLast, WaitingIsLater
<1>5. ListSorted'
  <2>1. \A i, j \in 1..Len(queue') : i < j => <<queue'[i], queue'[j]>> \in Earlier'
    BY <1>1 DEF ReplyOrder, ListSorted
  <2> QED
    BY <1>1, <1>2, <2>1 DEF ReplyOrder, ListSorted
<1>6. AnsweredIsHandled'
  BY <1>1 DEF ReplyOrder, AnsweredIsHandled
<1> QED
  BY <1>3, <1>4, <1>5, <1>6 DEF ReplyOrder

\* What recv returns comes after all that waits or has been answered.
LEMMA RecvKeepsOrder ==
  ASSUME MlinkInv, ReplyOrder, ~killed, recv_data, UNCHANGED <<schedVars, glueVars>>
  PROVE  ReplyOrder'
<1>0. /\ MlinkTypeOK /\ OnePlace /\ arrived \in Seq(Tasks) /\ inbound \in Seq(Tasks)
      /\ AnsweredIsHandled
  BY DEF MlinkInv, MlinkTypeOK, ReplyOrder
<1>1. /\ buffer' \in Seq(Tasks) /\ buffer' # <<>> /\ inbound' \in Seq(Tasks)
      /\ arrived' = arrived \o buffer' /\ inbound = buffer' \o inbound'
  BY <1>0, RecvTakes
<1>2. /\ UNCHANGED <<queue, InFlight, task, handled, unposted, written, spc>>
      /\ rpc = "blocked" /\ rpc' = "callback"
  BY DEF recv_data, schedVars, glueVars, sendVars, InFlight
<1>3. Waiting' = Waiting /\ Answered' = Answered
  BY <1>2 DEF Waiting, Answered
<1>4. /\ Earlier \subseteq Earlier'
      /\ \A x \in Range(arrived) : <<x, Head(buffer')>> \in Earlier'
  BY <1>0, <1>1, EarlierGrows
<1>5. Waiting \cup Answered \subseteq Range(arrived)
  BY <1>0, KnownArrived
<1>6. Injective(arrived')
  <2>1. Range(inbound) = Range(buffer') \cup Range(inbound')
    BY <1>1, RangeConcatenation
  <2>2. Injective(buffer') /\ Range(arrived) \cap Range(buffer') = {}
    BY <1>0, <1>1, <2>1, RangeSplits DEF OnePlace
  <2>3. /\ Len(arrived) \in Nat /\ Len(buffer') \in Nat
        /\ Len(arrived') = Len(arrived) + Len(buffer')
        /\ \A i \in 1..Len(arrived) + Len(buffer') :
             arrived'[i] = IF i <= Len(arrived) THEN arrived[i] ELSE buffer'[i - Len(arrived)]
    BY <1>0, <1>1, ConcatProperties, LenProperties
  <2>4. \A i \in 1..Len(arrived), j \in 1..Len(buffer') : arrived[i] # buffer'[j]
    <3>1. \A i \in 1..Len(arrived) : arrived[i] \in Range(arrived)
      BY <1>0, RangeEquality
    <3>2. \A j \in 1..Len(buffer') : buffer'[j] \in Range(buffer')
      BY <1>1, RangeEquality
    <3> QED
      BY <2>2, <3>1, <3>2
  <2>5. \A i \in Len(arrived) + 1 .. Len(arrived') :
          i - Len(arrived) \in 1..Len(buffer') /\ arrived'[i] = buffer'[i - Len(arrived)]
    BY <2>3
  <2>6. \A i \in 1..Len(arrived) : arrived'[i] = arrived[i]
    BY <2>3
  <2> SUFFICES ASSUME NEW i \in 1..Len(arrived'), NEW j \in 1..Len(arrived'),
                      arrived'[i] = arrived'[j]
               PROVE  i = j
    BY DEF Injective
  <2>7. CASE i \in 1..Len(arrived) /\ j \in 1..Len(arrived)
    BY <2>6, <2>7 DEF ReplyOrder, Injective
  <2>8. CASE i \notin 1..Len(arrived) /\ j \notin 1..Len(arrived)
    <3>1. i \in Len(arrived) + 1 .. Len(arrived') /\ j \in Len(arrived) + 1 .. Len(arrived')
      BY <2>3, <2>8
    <3>2. buffer'[i - Len(arrived)] = buffer'[j - Len(arrived)]
      BY <2>5, <3>1
    <3>3. i - Len(arrived) = j - Len(arrived)
      BY <2>2, <2>5, <3>1, <3>2 DEF Injective
    <3> QED
      BY <2>3, <3>3
  <2> QED
    BY <2>3, <2>4, <2>5, <2>6, <2>7, <2>8
<1>7. RepliesSorted' /\ WaitingIsLater' /\ ListSorted'
  BY <1>2, <1>3, <1>4 DEF ReplyOrder, RepliesSorted, WaitingIsLater, ListSorted
<1>8. CallbackIsLast'
  BY <1>3, <1>4, <1>5 DEF CallbackIsLast
<1>9. AnsweredIsHandled'
  <2>1. spc["receiver"] # "done"
    BY <1>2 DEF MlinkInv, WritersKnown, CallbackOrder
  <2> QED
    BY <1>2, <1>3, <2>1 DEF ReplyOrder, AnsweredIsHandled
<1> QED
  BY <1>6, <1>7, <1>8, <1>9 DEF ReplyOrder

\* What the receive callback posts goes behind all that waits.
LEMMA PostKeepsOrder ==
  ASSUME MlinkInv, ReplyOrder, ~killed, callback_posts PROVE ReplyOrder'
<1> DEFINE h == Head(buffer)
<1>0. /\ rpc = "callback" /\ cpc = "link" /\ h \in Tasks /\ queue \in Seq(Tasks) /\ OnePlace
  BY HeldIsRequest DEF MlinkInv, CallbackOrder, callback_posts, SchedInv, SchedTypeOK
<1>1. /\ queue' = Append(queue, h) /\ rpc' = "loop"
      /\ UNCHANGED <<arrived, written, task, handled, unposted, spc>>
      /\ wpc' = "call" <=> wpc = "call"
  BY <1>0 DEF callback_posts, bg_sched_post, Wake, CallbackReturns, recv_callback_return, sendVars
<1>2. /\ Earlier' = Earlier /\ Answered' = Answered /\ InFlight' = InFlight
      /\ Range(queue') = Range(queue) \cup {h} /\ Waiting' = Waiting \cup {h}
  BY <1>0, <1>1, RangeAppends DEF Earlier, Answered, InFlight, Waiting
<1>3. h \notin Waiting
  BY <1>0, CallbackHolds DEF OnePlace, Waiting
<1>4. \A d \in Waiting \cup Answered : d = h \/ <<d, h>> \in Earlier
  BY <1>0 DEF ReplyOrder, CallbackIsLast
<1>5. Injective(arrived') /\ RepliesSorted' /\ CallbackIsLast'
  BY <1>1, <1>2 DEF ReplyOrder, Injective, RepliesSorted, CallbackIsLast
<1>6. WaitingIsLater'
  BY <1>1, <1>2, <1>4 DEF ReplyOrder, WaitingIsLater
<1>7. ListSorted'
  <2>1. /\ Len(queue) \in Nat /\ Len(queue') = Len(queue) + 1 /\ queue'[Len(queue) + 1] = h
        /\ \A i \in 1..Len(queue) : queue'[i] = queue[i] /\ queue[i] \in Waiting
    BY <1>0, <1>1, AppendProperties, LenProperties, RangeEquality DEF Waiting
  <2>2. \A i \in 1..Len(queue) : <<queue'[i], h>> \in Earlier
    BY <1>3, <1>4, <2>1
  <2>3. ASSUME NEW i \in 1..Len(queue'), NEW j \in 1..Len(queue'), i < j
        PROVE  <<queue'[i], queue'[j]>> \in Earlier
    <3>1. i \in 1..Len(queue)
      BY <2>1, <2>3
    <3>2. CASE j = Len(queue) + 1
      BY <2>1, <2>2, <3>1, <3>2
    <3>3. CASE j \in 1..Len(queue)
      BY <2>1, <2>3, <3>1, <3>3 DEF ReplyOrder, ListSorted
    <3> QED
      BY <2>1, <3>2, <3>3
  <2>4. \A d \in Range(InFlight), e \in Range(queue') : <<d, e>> \in Earlier
    BY <1>2, <1>3, <1>4 DEF ReplyOrder, ListSorted, Waiting
  <2> QED
    BY <1>2, <2>3, <2>4 DEF ListSorted
<1>8. AnsweredIsHandled'
  <2>1. spc["receiver"] # "done"
    BY <1>0 DEF MlinkInv, WritersKnown
  <2> QED
    BY <1>1, <1>2, <2>1 DEF ReplyOrder, AnsweredIsHandled
<1> QED
  BY <1>5, <1>6, <1>7, <1>8 DEF ReplyOrder

\* The worker takes what comes before all that is left in the list.
LEMMA TakeKeepsOrder ==
  ASSUME MlinkInv, ReplyOrder, worker_take, UNCHANGED <<hwioVars, glueVars>>
  PROVE  ReplyOrder'
<1>0. queue \in Seq(Tasks) /\ queue # <<>> /\ wpc = "loop"
  BY DEF MlinkInv, SchedInv, SchedTypeOK, worker_take
<1>1. /\ task' = Head(queue) /\ queue' = Tail(queue) /\ wpc' = "call"
      /\ UNCHANGED <<arrived, written, buffer, rpc, handled, unposted, spc>>
  BY DEF worker_take, hwioVars, recvVars, sendVars, glueVars
<1>2. /\ Range(InFlight) = {} /\ Range(InFlight') = {Head(queue)}
      /\ Range(queue) = {Head(queue)} \cup Range(queue')
  BY <1>0, <1>1, RangeSmall, RangeTakes DEF InFlight
<1>3. Earlier' = Earlier /\ Answered' = Answered /\ Waiting' = Waiting
  BY <1>1, <1>2 DEF Earlier, Answered, Waiting
<1>4. Injective(arrived') /\ RepliesSorted' /\ CallbackIsLast' /\ WaitingIsLater'
  BY <1>1, <1>3 DEF ReplyOrder, Injective, RepliesSorted, CallbackIsLast, WaitingIsLater
<1>5. ListSorted'
  <2>1. /\ queue' \in Seq(Tasks) /\ Len(queue) \in Nat \ {0} /\ Len(queue') = Len(queue) - 1
        /\ Head(queue) = queue[1]
        /\ \A i \in 1..Len(queue') : queue'[i] = queue[i + 1]
    BY <1>0, <1>1, HeadTailProperties, LenProperties, EmptySeq
  <2>2. \A i \in 1..Len(queue') : i + 1 \in 1..Len(queue) /\ 1 < i + 1
    BY <2>1
  <2>3. ASSUME NEW i \in 1..Len(queue'), NEW j \in 1..Len(queue'), i < j
        PROVE  <<queue'[i], queue'[j]>> \in Earlier
    <3>1. i + 1 < j + 1 /\ i + 1 \in 1..Len(queue) /\ j + 1 \in 1..Len(queue)
      BY <2>1, <2>2, <2>3
    <3>2. <<queue[i + 1], queue[j + 1]>> \in Earlier
      BY <3>1 DEF ReplyOrder, ListSorted
    <3>3. queue'[i] = queue[i + 1] /\ queue'[j] = queue[j + 1]
      BY <2>1
    <3> QED
      BY <3>2, <3>3
  <2>4. \A i \in 1..Len(queue') : <<Head(queue), queue'[i]>> \in Earlier
    BY <2>1, <2>2 DEF ReplyOrder, ListSorted
  <2>5. \A e \in Range(queue') : <<Head(queue), e>> \in Earlier
    BY <2>1, <2>4, RangeEquality
  <2> QED
    BY <1>2, <1>3, <2>3, <2>5 DEF ListSorted
<1>6. AnsweredIsHandled'
  <2>1. spc["worker"] # "done"
    BY <1>0 DEF MlinkInv, WritersKnown
  <2> QED
    BY <1>1, <1>3, <2>1 DEF ReplyOrder, AnsweredIsHandled
<1> QED
  BY <1>4, <1>5, <1>6 DEF ReplyOrder

\* A reply that has been sent to its end comes after all that was answered before it,
\* and before all that waits, unless malloc failed for its request.
LEMMA ReplyKeepsOrder ==
  ASSUME MlinkInv, ReplyOrder, NEW w \in Writers, send_pieces(w),
         written' = Append(written, data[w]), spc' = [spc EXCEPT ![w] = "done"],
         data[w] \in Tasks, ~killed, UNCHANGED <<schedVars, glueVars>>
  PROVE  ReplyOrder'
<1> DEFINE r == data[w]
           Payloads == Tasks \cup {NoData, "hello", "note"}
<1>0. /\ OnePlace /\ AnsweredIsHandled /\ written \in Seq(Payloads) /\ r \in Payloads /\ r \in Tasks
      /\ spc \in [Writers -> WriterPC] /\ spc[w] = "send"
      /\ UNCHANGED <<arrived, buffer, rpc>> /\ UNCHANGED <<queue, task, wpc, handled, unposted>>
  BY DEF MlinkInv, ReplyOrder, AnsweredSoFar, MlinkTypeOK, ConnInv, ConnTypeOK, send_pieces,
     recvVars, schedVars, glueVars
<1>1. /\ Len(written) \in Nat /\ Len(written') = Len(written) + 1 /\ written'[Len(written) + 1] = r
      /\ \A i \in 1..Len(written) : written'[i] = written[i] /\ written[i] \in Range(written)
  BY <1>0, AppendProperties, LenProperties, RangeEquality
<1>2. /\ Earlier' = Earlier /\ Waiting' = Waiting /\ Range(InFlight') = Range(InFlight)
      /\ Answered' = Answered \cup {r}
  <2>1. Range(written') = Range(written) \cup {r}
    BY <1>0, RangeAppends
  <2> QED
    BY <1>0, <2>1 DEF Earlier, Waiting, InFlight, Answered
\* Whose reply it is.
<1>3. \/ w = "worker" /\ wpc = "call" /\ r = task
      \/ w = "receiver" /\ cpc = "replying" /\ rpc = "callback" /\ r = Head(buffer)
  BY <1>0, ThreadsAssumption DEF MlinkInv, WritersKnown, CallbackOrder, Threads
<1>4. "worker" \in Writers /\ "receiver" \in Writers
  BY ThreadsAssumption DEF Threads
<1> HIDE DEF r
\* It has not been answered yet.
<1>5. r \notin Answered
  <2>1. CASE w = "worker"
    <3>1. r \in Range(InFlight) /\ r = task /\ r \in Waiting
      BY <1>3, <2>1, RangeSmall DEF InFlight, Waiting
    <3>2. r \notin Range(handled)
      BY <1>0, <3>1, KnownArrived
    <3>3. spc["receiver"] = "done" => r # Head(buffer)
      <4>1. spc["receiver"] = "done" => cpc = "replying" /\ rpc = "callback"
        BY DEF MlinkInv, WritersKnown, CallbackOrder
      <4> QED
        BY <1>0, <3>1, <4>1, CallbackHolds DEF OnePlace
    <3> QED
      BY <1>0, <2>1, <3>2, <3>3 DEF AnsweredIsHandled
  <2>2. CASE w = "receiver"
    <3>1. r \in InCallback
      BY <1>3, <2>2, CallbackHolds
    <3>2. r \notin Range(handled)
      BY <1>0, <3>1 DEF OnePlace, OnTheWay, Settled
    <3>3. spc["worker"] = "done" => r # task
      <4>1. spc["worker"] = "done" => task \in Range(InFlight)
        BY RangeSmall DEF MlinkInv, WritersKnown, InFlight
      <4> QED
        BY <1>0, <3>1, <4>1 DEF OnePlace
    <3> QED
      BY <1>0, <2>2, <3>2, <3>3 DEF AnsweredIsHandled
  <2> QED
    BY <1>3, <2>1, <2>2
<1>6. \A a \in Answered : a \in unposted \/ <<a, r>> \in Earlier
  <2>1. CASE w = "worker"
    <3>1. r \in Waiting
      BY <1>3, <2>1, RangeSmall DEF InFlight, Waiting
    <3> QED
      BY <1>5, <3>1 DEF ReplyOrder, WaitingIsLater
  <2>2. CASE w = "receiver"
    BY <1>3, <1>5, <2>2 DEF ReplyOrder, CallbackIsLast
  <2> QED
    BY <1>3, <2>1, <2>2
<1>7. \A d \in Waiting : r = d \/ r \in unposted \/ <<r, d>> \in Earlier
  <2>1. CASE w = "worker"
    <3>1. Range(InFlight) = {r}
      BY <1>3, <2>1, RangeSmall DEF InFlight
    <3> QED
      BY <3>1 DEF ReplyOrder, ListSorted, Waiting
  <2>2. CASE w = "receiver" /\ worker
    BY <1>3, <2>2 DEF MlinkInv, CallbackOrder
  <2>3. CASE ~worker
    <3>1. queue = <<>> /\ InFlight = <<>>
      BY <2>3 DEF MlinkInv, MainOrder, SchedInv, StopOrder, Joined, InFlight
    <3> QED
      BY <3>1, RangeSmall DEF Waiting
  <2> QED
    BY <1>3, <2>1, <2>2, <2>3
<1>8. RepliesSorted'
  <2> SUFFICES ASSUME NEW i \in 1..Len(written'), NEW j \in 1..Len(written'), i < j,
                      written'[i] \in Tasks, written'[j] \in Tasks
               PROVE  /\ written'[i] # written'[j]
                      /\ <<written'[i], written'[j]>> \in Earlier \/ written'[i] \in unposted
    BY <1>0, <1>2 DEF RepliesSorted
  <2>1. i \in 1..Len(written)
    BY <1>1
  <2>2. CASE j \in 1..Len(written)
    <3>1. written'[i] = written[i] /\ written'[j] = written[j]
      BY <1>1, <2>1, <2>2
    <3> QED
      BY <2>1, <2>2, <3>1 DEF ReplyOrder, RepliesSorted
  <2>3. CASE j = Len(written) + 1
    <3>1. written'[j] = r /\ written'[i] = written[i] /\ written[i] \in Range(written)
      BY <1>1, <2>1, <2>3
    <3>2. written[i] \in Answered
      BY <3>1 DEF Answered
    <3> QED
      BY <1>5, <1>6, <3>1, <3>2
  <2>4. j \in 1..Len(written) \/ j = Len(written) + 1
    <3>1. j \in 1..Len(written) + 1
      BY <1>1
    <3> QED
      BY <1>1, <3>1
  <2> QED
    BY <2>2, <2>3, <2>4
<1>9. CallbackIsLast'
  <2>1. rpc = "callback" => r = Head(buffer) \/ <<r, Head(buffer)>> \in Earlier
    BY <1>3, RangeSmall DEF ReplyOrder, CallbackIsLast, Waiting, InFlight
  <2> QED
    BY <1>0, <1>2, <2>1 DEF ReplyOrder, CallbackIsLast
<1>10. WaitingIsLater'
  BY <1>0, <1>2, <1>7 DEF ReplyOrder, WaitingIsLater
<1>11. Injective(arrived') /\ ListSorted'
  BY <1>0, <1>2 DEF ReplyOrder, Injective, ListSorted
<1>12. AnsweredIsHandled'
  BY <1>0, <1>2, <1>3, <1>4 DEF ReplyOrder, AnsweredIsHandled
<1> QED
  BY <1>8, <1>9, <1>10, <1>11, <1>12 DEF ReplyOrder

\* What a thread in hwio_tcp_write does is to send a reply or something else, or to
\* leave what is written alone.
LEMMA WritingKeepsOrder ==
  ASSUME MlinkInv, ReplyOrder, ~killed, NEW w \in Writers, writing(w) PROVE ReplyOrder'
<1> DEFINE Payloads == Tasks \cup {NoData, "hello", "note"}
<1>0. /\ UNCHANGED <<schedVars, glueVars>> /\ written \in Seq(Payloads) /\ data[w] \in Payloads
      /\ spc \in [Writers -> WriterPC] /\ WriterStep(w)
  BY DEF MlinkInv, AnsweredSoFar, MlinkTypeOK, ConnInv, ConnTypeOK, writing
<1>1. /\ UNCHANGED <<arrived, rpc, buffer, data>> /\ spc[w] # "done"
      /\ \A v \in Writers \ {w} : spc'[v] = spc[v]
  BY <1>0 DEF WriterStep, send_pieces, send_fails, send_sigpipe, send_close, send_clear, recvVars,
     sendVars
<1>2. /\ UNCHANGED <<queue, InFlight, task, handled, unposted>>
      /\ "worker" \in Writers /\ "receiver" \in Writers
  BY <1>0, ThreadsAssumption DEF schedVars, glueVars, InFlight, Threads
<1>3. CASE written' = written
  BY <1>1, <1>2, <1>3, QuietKeepsOrder
<1>4. CASE written' # written
  <2>1. /\ send_pieces(w) /\ written' = Append(written, data[w])
        /\ spc' = [spc EXCEPT ![w] = "done"]
    BY <1>0, <1>4 DEF WriterStep, send_pieces, send_fails, send_sigpipe, send_close, send_clear,
       sendVars
  <2>2. CASE data[w] \in Tasks
    BY <1>0, <2>1, <2>2, ReplyKeepsOrder
  <2>3. CASE data[w] \notin Tasks
    <3>1. Range(written') = Range(written) \cup {data[w]}
      BY <1>0, <2>1, RangeAppends
    <3>2. Answered' = Answered /\ Earlier' = Earlier /\ Waiting' = Waiting
      BY <1>1, <1>2, <2>3, <3>1 DEF Answered, Earlier, Waiting
    <3>3. RepliesSorted'
      <4>1. /\ Len(written) \in Nat /\ Len(written') = Len(written) + 1
            /\ written'[Len(written) + 1] = data[w]
            /\ \A i \in 1..Len(written) : written'[i] = written[i]
        BY <1>0, <2>1, AppendProperties, LenProperties
      <4>2. \A i \in 1..Len(written') : written'[i] \in Tasks =>
                i \in 1..Len(written) /\ written'[i] = written[i]
        BY <2>3, <4>1
      <4> QED
        BY <1>2, <3>2, <4>2 DEF ReplyOrder, RepliesSorted
    <3>4. Injective(arrived') /\ CallbackIsLast' /\ WaitingIsLater' /\ ListSorted'
      BY <1>1, <1>2, <3>2 DEF ReplyOrder, Injective, CallbackIsLast, WaitingIsLater, ListSorted
    <3>5. AnsweredIsHandled'
      BY <1>1, <1>2, <3>2 DEF ReplyOrder, AnsweredIsHandled
    <3> QED
      BY <3>3, <3>4, <3>5 DEF ReplyOrder
  <2> QED
    BY <2>2, <2>3
<1> QED
  BY <1>3, <1>4

\* The receive callback when it does not post, the worker when it does not take, and
\* everybody else.
LEMMA OthersKeepOrder ==
  ASSUME MlinkInv, ReplyOrder,
         \/ Callback /\ ~callback_posts
         \/ worker_step /\ ~worker_take
         \/ worker_wakes_up \/ task_replies \/ task_returns
         \/ mlink_server_init \/ mlink_server_init_offline \/ register_callback
         \/ register_context \/ send_hello \/ send_returns \/ mlink_notify_message
         \/ mlink_server_destroy \/ sched_destroying \/ worker_cleared \/ transport_destroy
         \/ transport_destroying \/ mlink_server_destroyed
         \/ receiver_step /\ ~recv_data
         \/ receiver_interrupted \/ peer_requests \/ peer_leaves
  PROVE  ReplyOrder'
<1>0. /\ MlinkTypeOK /\ CallbackOrder /\ WritersKnown /\ MainOrder /\ ConnInv
      /\ spc \in [Writers -> WriterPC] /\ handled \in Seq(Tasks)
      /\ "main" \in Writers /\ "worker" \in Writers /\ "receiver" \in Writers
  BY ThreadsAssumption DEF MlinkInv, Threads, MlinkTypeOK, ConnInv, ConnTypeOK
\* A step of a thread that returns from no hwio_tcp_write.
<1>1. ASSUME UNCHANGED <<arrived, written, handled, unposted>>,
             queue' = queue \/ queue' = <<>>, InFlight' = InFlight \/ InFlight' = <<>>,
             rpc' = "callback" => rpc = "callback" /\ buffer' = buffer,
             spc["worker"] = "done" => spc'["worker"] = "done" /\ task' = task,
             spc["receiver"] = "done" => spc'["receiver"] = "done" /\ buffer' = buffer
      PROVE  ReplyOrder'
  BY <1>1, QuietKeepsOrder
<1>2. ASSUME mlink_server_init \/ mlink_server_init_offline PROVE ReplyOrder'
  <2>1. /\ UNCHANGED <<arrived, written, handled, unposted, queue, task, wpc, spc>>
        /\ rpc' = "callback" => rpc = "callback" /\ buffer' = buffer
    BY <1>2 DEF mlink_server_init, mlink_server_init_offline, hwio_tcp_init, hwio_tcp_init_fails,
       schedVars, hwioVars, recvVars, sendVars
  <2>2. spc["receiver"] # "done"
    BY <1>0, <1>2 DEF WritersKnown, CallbackOrder, MainOrder, ConnInv, Lifetime, ConnTypeOK,
       mlink_server_init, mlink_server_init_offline, hwio_tcp_init, hwio_tcp_init_fails
  <2> QED
    BY <1>1, <2>1, <2>2 DEF InFlight
<1>3. ASSUME register_callback \/ register_context \/ send_hello \/ send_returns
             \/ mlink_notify_message \/ mlink_server_destroy \/ worker_cleared
             \/ transport_destroy \/ transport_destroying \/ mlink_server_destroyed
             \/ peer_requests \/ peer_leaves
      PROVE  ReplyOrder'
  <2>1. /\ UNCHANGED <<arrived, written, handled, unposted, queue, task, rpc, buffer>>
        /\ wpc' = "call" <=> wpc = "call"
    BY <1>3 DEF register_callback, register_context, send_hello, send_returns,
       mlink_notify_message, mlink_server_destroy, worker_cleared, transport_destroy,
       transport_destroying, mlink_server_destroyed, peer_requests, peer_leaves, destroy_stop,
       Wake, hwio_tcp_callback, hwio_tcp_callback_ctx, hwio_tcp_write, write_return, deinit_stop,
       Deinit, deinit_cancel, deinit_join, deinit_free, peer_send, peer_close, schedVars,
       hwioVars, recvVars, sendVars, glueVars
  <2>2. spc'["worker"] = spc["worker"] /\ spc'["receiver"] = spc["receiver"]
    BY <1>0, <1>3 DEF register_callback, register_context, send_hello, send_returns,
       mlink_notify_message, mlink_server_destroy, worker_cleared, transport_destroy,
       transport_destroying, mlink_server_destroyed, peer_requests, peer_leaves,
       hwio_tcp_callback, hwio_tcp_callback_ctx, hwio_tcp_write, write_return, deinit_stop,
       Deinit, deinit_cancel, deinit_join, deinit_free, peer_send, peer_close,
       hwioVars, sendVars
  <2> QED
    BY <1>1, <2>1, <2>2 DEF InFlight
<1>4. ASSUME sched_destroying PROVE ReplyOrder'
  BY <1>1, <1>4 DEF sched_destroying, destroy_join, destroy_drain, destroy_free, InFlight,
     hwioVars, recvVars, sendVars, glueVars
<1>5. ASSUME receiver_interrupted \/ (receiver_step /\ ~recv_data) PROVE ReplyOrder'
  <2>1. /\ rpc # "callback" /\ rpc' # "callback"
        /\ UNCHANGED <<schedVars, arrived, written, handled, unposted, spc>>
    BY <1>5 DEF receiver_interrupted, receiver_step, recv_interrupted, recv_test, recv_wake,
       recv_enter, recv_eof, recv_close, recv_clear, recv_cancelled, sendVars, glueVars
  <2>2. spc["receiver"] # "done"
    BY <1>0, <2>1 DEF WritersKnown, CallbackOrder
  <2> QED
    BY <1>1, <2>1, <2>2 DEF InFlight, schedVars
<1>6. ASSUME worker_wakes_up \/ (worker_step /\ ~worker_take) PROVE ReplyOrder'
  <2>1. /\ wpc # "call" /\ UNCHANGED <<hwioVars, glueVars, queue, task>> /\ wpc' # "call"
    BY <1>6 DEF worker_wakes_up, worker_step, worker_wait, worker_exit, worker_after,
       worker_spurious_wakeup
  <2> QED
    BY <1>1, <2>1 DEF InFlight, hwioVars, recvVars, sendVars, glueVars
<1>7. ASSUME task_replies \/ callback_replies PROVE ReplyOrder'
  <2>1. UNCHANGED <<schedVars, arrived, written, handled, unposted, rpc, buffer>>
    BY <1>7 DEF task_replies, callback_replies, hwio_tcp_write, recvVars, glueVars
  <2>2. /\ spc["worker"] = "done" => spc'["worker"] = "done"
        /\ spc["receiver"] = "done" => spc'["receiver"] = "done"
    BY <1>0, <1>7 DEF task_replies, callback_replies, hwio_tcp_write
  <2> QED
    BY <1>1, <2>1, <2>2 DEF InFlight, schedVars
\* A reply returns: its request has been handled.
<1>8. ASSUME task_returns PROVE ReplyOrder'
  <2>1. /\ wpc = "call" /\ wpc' = "after" /\ task \in Tasks /\ handled' = Append(handled, task)
        /\ UNCHANGED <<queue, arrived, written, unposted, rpc, buffer>>
        /\ write_return("worker")
    BY <1>0, <1>8 DEF task_returns, worker_call, write_return, recvVars, MainOrder, MlinkInv,
       SchedInv, SchedTypeOK, TaskHeld
  <2>2. Range(handled') = Range(handled) \cup {task}
    BY <1>0, <2>1, RangeAppends
  <2>3. spc'["receiver"] = spc["receiver"]
    BY <1>0, <2>1 DEF write_return
  <2>4. InFlight' = <<>>
    BY <2>1 DEF InFlight
  <2> QED
    BY <2>1, <2>2, <2>3, <2>4, QuietKeepsOrder
<1>9. ASSUME callback_replied PROVE ReplyOrder'
  <2>1. /\ Head(buffer) \in Tasks /\ handled' = Append(handled, Head(buffer))
        /\ UNCHANGED <<schedVars, arrived, written, unposted, rpc, buffer>>
        /\ write_return("receiver")
    BY <1>0, <1>9, HeldIsRequest DEF callback_replied, write_return, recvVars
  <2>2. Range(handled') = Range(handled) \cup {Head(buffer)}
    BY <1>0, <2>1, RangeAppends
  <2>3. spc'["worker"] = spc["worker"]
    BY <1>0, <2>1 DEF write_return
  <2> QED
    BY <2>1, <2>2, <2>3, QuietKeepsOrder DEF InFlight, schedVars
<1>10. ASSUME callback_begin \/ callback_reads_worker \/ callback_calls_post PROVE ReplyOrder'
  <2>1. /\ UNCHANGED <<schedVars, hwioVars, handled>> /\ unposted \subseteq unposted'
    BY <1>10 DEF callback_begin, callback_reads_worker, callback_calls_post, HandlesUnposted
  <2> QED
    BY <2>1, QuietKeepsOrder DEF InFlight, schedVars, hwioVars, recvVars, sendVars
<1>11. ASSUME callback_drops \/ callback_returns \/ callback_posts_too_late PROVE ReplyOrder'
  <2>1. spc["receiver"] # "done"
    BY <1>0, <1>11 DEF WritersKnown, callback_drops, callback_returns, callback_posts_too_late
  <2>2. /\ UNCHANGED <<schedVars, arrived, written, handled, unposted, spc>>
        /\ rpc' = "callback" => rpc = "callback" /\ buffer' = buffer
    BY <1>11 DEF callback_drops, callback_returns, callback_posts_too_late, CallbackReturns,
       recv_callback_return, recvVars, sendVars
  <2> QED
    BY <1>1, <2>1, <2>2 DEF InFlight, schedVars
<1>12. ASSUME callback_cancelled PROVE ReplyOrder'
  <2>1. /\ spc["receiver"] # "done" /\ spc'["worker"] = spc["worker"] /\ rpc' = "exited"
        /\ UNCHANGED <<schedVars, arrived, written, handled, unposted>>
    BY <1>0, <1>12 DEF callback_cancelled, WritersKnown
  <2> QED
    BY <1>1, <2>1 DEF InFlight, schedVars
<1> QED
  BY <1>2, <1>3, <1>4, <1>5, <1>6, <1>7, <1>8, <1>9, <1>10, <1>11, <1>12 DEF Callback

\* Every step keeps the order of the replies.
LEMMA StepKeepsOrder == MlinkInv /\ ReplyOrder /\ [MlinkNext]_mlinkVars => ReplyOrder'
<1>1. ASSUME MlinkInv, ReplyOrder, MlinkNext PROVE ReplyOrder'
  <2>1. "main" \in Writers /\ "worker" \in Writers /\ "receiver" \in Writers /\ ~killed
    BY <1>1, ThreadsAssumption DEF Threads, MlinkNext
  <2>2. ASSUME receiver_step PROVE ReplyOrder'
    BY <1>1, <2>1, <2>2, RecvKeepsOrder, OthersKeepOrder DEF receiver_step
  <2>3. ASSUME worker_step PROVE ReplyOrder'
    BY <1>1, <2>1, <2>3, TakeKeepsOrder, OthersKeepOrder DEF worker_step
  <2>4. ASSUME Callback PROVE ReplyOrder'
    BY <1>1, <2>1, <2>4, PostKeepsOrder, OthersKeepOrder
  <2> QED
    BY <1>1, <2>1, <2>2, <2>3, <2>4, WritingKeepsOrder, OthersKeepOrder
       DEF MlinkNext, MainThread, ReceiverThread, WorkerThread, Application, Environment
<1>2. ASSUME ReplyOrder, UNCHANGED mlinkVars PROVE ReplyOrder'
  BY <1>2, QuietKeepsOrder DEF mlinkVars, schedVars, hwioVars, recvVars, sendVars, glueVars, InFlight
<1> QED
  BY <1>1, <1>2

\* Replies leave in the order the requests arrived, one for each; only one whose request
\* malloc failed for may overtake the requests that wait for the worker.
THEOREM MlinkRepliesInOrder == MlinkSpec => []RepliesInOrder
<1>1. MlinkInit => ReplyOrder
  <2> SUFFICES ASSUME MlinkInit PROVE ReplyOrder
    OBVIOUS
  <2>1. Answered = {} /\ Waiting = {} /\ Range(InFlight) = {} /\ Len(written) = 0 /\ Len(queue) = 0
    BY RangeSmall DEF MlinkInit, SchedInit, HwioInit, Answered, Waiting, InFlight
  <2> QED
    BY <2>1, RangeSmall DEF MlinkInit, HwioInit, ReplyOrder, RepliesSorted, CallbackIsLast,
       WaitingIsLater, ListSorted, AnsweredIsHandled
<1>2. ASSUME MlinkInv, ReplyOrder PROVE RepliesInOrder
  <2>1. /\ DOMAIN written = 1..Len(written) /\ DOMAIN arrived = 1..Len(arrived)
        /\ Len(arrived) \in Nat
    BY <1>2, LenProperties DEF MlinkInv, AnsweredSoFar, MlinkTypeOK
  <2>2. ASSUME NEW k \in 1..Len(arrived) PROVE Position(arrived[k]) = k
    BY <1>2, <2>1, <2>2 DEF Position, ReplyOrder, Injective
  <2>3. ASSUME NEW a \in Tasks, NEW b \in Tasks, <<a, b>> \in Earlier
        PROVE  Position(a) < Position(b)
    <3>1. PICK k \in 1..Len(arrived), l \in 1..Len(arrived) :
            k < l /\ arrived[k] = a /\ arrived[l] = b
      BY <2>3 DEF Earlier
    <3>2. Position(arrived[k]) = k /\ Position(arrived[l]) = l
      BY <2>2
    <3> QED
      BY <3>1, <3>2
  <2> SUFFICES ASSUME NEW i \in 1..Len(written), NEW j \in 1..Len(written), i < j,
                      written[i] \in Tasks, written[j] \in Tasks
               PROVE  /\ written[i] # written[j]
                      /\ Position(written[i]) < Position(written[j]) \/ written[i] \in unposted
    BY <2>1 DEF RepliesInOrder
  <2> QED
    BY <1>2, <2>3 DEF ReplyOrder, RepliesSorted
<1> QED
  BY <1>1, <1>2, StepKeepsOrder, MlinkInvariant, PTL DEF MlinkSpec
=============================================================================
