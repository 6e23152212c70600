---------------------------- MODULE MlinkServer ----------------------------
(***************************************************************************)
(* The server: mlink_server_init and mlink_server_destroy (core/mlink.c),  *)
(* the receive callback and mcp_server_set_transport                       *)
(* (core/mcp/mcp_server.c), composed with the scheduler (BgSched) and the  *)
(* connection (Hwio).                                                      *)
(*                                                                         *)
(* Three threads: the main thread that initialises, notifies and destroys; *)
(* the connection's receive thread, which posts each message to the        *)
(* scheduler and handles it itself when it cannot; and the scheduler's     *)
(* worker.  server->worker, server->transport and the tcp_state are shared *)
(* without a lock.  A message is a well-formed request: handling it sends  *)
(* one reply (McpDispatch says which).                                     *)
(***************************************************************************)
EXTENDS BgSched, Hwio

CONSTANTS MallocFails,   \* may malloc fail in the receive callback
          Window,        \* requests the peer leaves unanswered at a time
          MaxSessions    \* calls of mlink_server_init

Threads == {"main", "worker", "receiver"}

ASSUME ThreadsAssumption == Writers = Threads

\* Requests are neither notifications nor "nothing".
ASSUME RequestsAssumption == {"hello", "note", NoData} \cap Tasks = {}

VARIABLES mpc,        \* where the main thread is
          worker,     \* server->worker # NULL
          transport,  \* server->transport # NULL
          cpc,        \* where the receive callback is
          handled,    \* history: requests whose handling ended, in order
          lost,       \* history: requests that were received and will not be handled
          unposted,   \* history: requests the receive thread handled for want of memory
          sessions    \* history: calls of mlink_server_init

glueVars == <<mpc, worker, transport, cpc, handled, lost, unposted, sessions>>
mlinkVars == <<schedVars, hwioVars, glueVars>>

\* mcp_server_init has run for the first time and created the worker.  (When
\* bg_sched_create fails the server is in the mode of a second session.)
MlinkInit == /\ SchedInit /\ HwioInit
             /\ mpc = "start"
             /\ worker = TRUE
             /\ transport = FALSE
             /\ cpc = "none"
             /\ handled = <<>>
             /\ lost = {}
             /\ unposted = {}
             /\ sessions = 0

-----------------------------------------------------------------------------
\* mlink_server_init: transport_create succeeds, and mcp_server_set_transport
\* stores server->transport.  A later call finds g_mcp_server_initialized set,
\* so server->worker stays what mlink_server_destroy left: NULL.
mlink_server_init ==
    /\ mpc \in {"start", "down"}
    /\ sessions < MaxSessions
    /\ sessions' = sessions + 1
    /\ hwio_tcp_init
    /\ transport' = TRUE
    /\ mpc' = "register"
    /\ UNCHANGED <<schedVars, worker, cpc, handled, lost, unposted>>

\* mlink_server_init: no connection; the server is returned without transport.
mlink_server_init_offline ==
    /\ mpc \in {"start", "down"}
    /\ sessions < MaxSessions
    /\ sessions' = sessions + 1
    /\ hwio_tcp_init_fails
    /\ mpc' = "up"
    /\ UNCHANGED <<schedVars, worker, transport, cpc, handled, lost, unposted>>

\* mcp_server_set_transport: transport_register_callback, the two stores.
register_callback ==
    /\ mpc = "register"
    /\ hwio_tcp_callback
    /\ UNCHANGED <<schedVars, glueVars>>

register_context ==
    /\ mpc = "register"
    /\ hwio_tcp_callback_ctx
    /\ mpc' = "hello"
    /\ UNCHANGED <<schedVars, worker, transport, cpc, handled, lost, unposted, sessions>>

\* mcp_server_send by the main thread: the hello of mcp_server_set_transport, and
\* mlink_notify_message afterwards, at most once per session here.
send_hello ==
    /\ mpc = "hello"
    /\ hwio_tcp_write("main", "hello")
    /\ mpc' = "sending"
    /\ UNCHANGED <<schedVars, worker, transport, cpc, handled, lost, unposted, sessions>>

mlink_notify_message ==
    /\ mpc = "up" /\ transport
    /\ "note" \notin Range(written)
    /\ hwio_tcp_write("main", "note")
    /\ mpc' = "sending"
    /\ UNCHANGED <<schedVars, worker, transport, cpc, handled, lost, unposted, sessions>>

send_returns ==
    /\ mpc = "sending"
    /\ write_return("main")
    /\ mpc' = "up"
    /\ UNCHANGED <<schedVars, worker, transport, cpc, handled, lost, unposted, sessions>>

-----------------------------------------------------------------------------
\* The receive callback ends and recv_test comes next.
CallbackReturns == cpc' = "none" /\ recv_callback_return

\* mcp_server_transport_receive_callback gets control.
callback_begin ==
    /\ rpc = "callback" /\ cpc = "none"
    /\ cpc' = "entry"
    /\ UNCHANGED <<schedVars, hwioVars, mpc, worker, transport, handled, lost, unposted, sessions>>

\* It gives up: no context yet, or malloc of the copy failed.  All that recv
\* returned is gone.
callback_drops ==
    /\ cpc = "entry"
    /\ ~recv_ctx \/ MallocFails
    /\ lost' = lost \cup Range(buffer)
    /\ CallbackReturns
    /\ UNCHANGED <<schedVars, mpc, worker, transport, handled, unposted, sessions>>

\* Faulty variant: the receive thread handles messages although there is a worker.
callback_reads_worker_mixed ==
    /\ cpc = "entry" /\ recv_ctx
    /\ cpc' \in {"post", "handle"}
    /\ lost' = lost \cup Range(Tail(buffer))
    /\ UNCHANGED <<schedVars, hwioVars, mpc, worker, transport, handled, unposted, sessions>>

\* There is no memory for the task or for the scheduler's node, and the receive
\* thread handles the message itself.
HandlesUnposted == /\ MallocFails
                   /\ cpc' = "handle"
                   /\ unposted' = unposted \cup {Head(buffer)}

\* It reads server->worker, and without one handles the message itself too.
\* cJSON_Parse stops after the first of several messages that one recv returned.
callback_reads_worker ==
    /\ cpc = "entry" /\ recv_ctx
    /\ \/ cpc' = (IF worker THEN "post" ELSE "handle") /\ UNCHANGED unposted
       \/ worker /\ HandlesUnposted
    /\ lost' = lost \cup Range(Tail(buffer))
    /\ UNCHANGED <<schedVars, hwioVars, mpc, worker, transport, handled, sessions>>

\* Faulty variant: when bg_sched_post fails the message is only freed.
callback_calls_post_no_fallback ==
    /\ cpc = "post"
    /\ IF worker THEN cpc' = "link" /\ UNCHANGED hwioVars ELSE CallbackReturns
    /\ UNCHANGED <<schedVars, mpc, worker, transport, handled, lost, unposted, sessions>>

\* It reads server->worker again for the call of bg_sched_post, which fails on
\* NULL and when malloc of the node fails; then it handles the message itself.
callback_calls_post ==
    /\ cpc = "post"
    /\ \/ cpc' = (IF worker THEN "link" ELSE "handle") /\ UNCHANGED unposted
       \/ worker /\ HandlesUnposted
    /\ UNCHANGED <<schedVars, hwioVars, mpc, worker, transport, handled, lost, sessions>>

\* bg_sched_post links the task.
callback_posts ==
    /\ cpc = "link"
    /\ bg_sched_post(Head(buffer))
    /\ CallbackReturns
    /\ UNCHANGED <<mpc, worker, transport, handled, lost, unposted, sessions>>

\* bg_sched_post runs on a scheduler that bg_sched_destroy has emptied or freed:
\* undefined.  The destroyed mutex does not block, so the node goes to a list
\* nobody reads, or the process dies.
callback_posts_too_late ==
    /\ cpc = "link"
    /\ dpc \in {"free", "freed"}
    /\ lost' = lost \cup {Head(buffer)}
    /\ \/ CallbackReturns
       \/ /\ killed' = TRUE
          /\ UNCHANGED <<cpc, stateVars, recvVars, sendVars, wireVars, depc, fd>>
    /\ UNCHANGED <<schedVars, mpc, worker, transport, handled, unposted, sessions>>

\* The receive thread handles the message: mcp_server_parse_message, whose reply
\* goes out through mcp_server_send when server->transport is set.
callback_replies ==
    /\ cpc = "handle" /\ transport
    /\ hwio_tcp_write("receiver", Head(buffer))
    /\ cpc' = "replying"
    /\ UNCHANGED <<schedVars, mpc, worker, transport, handled, lost, unposted, sessions>>

callback_replied ==
    /\ cpc = "replying"
    /\ write_return("receiver")
    /\ cpc' = "handled"
    /\ handled' = Append(handled, Head(buffer))
    /\ UNCHANGED <<schedVars, mpc, worker, transport, lost, unposted, sessions>>

callback_returns ==
    /\ cpc = "handled"
    /\ CallbackReturns
    /\ UNCHANGED <<schedVars, mpc, worker, transport, handled, lost, unposted, sessions>>

\* thread_stop may end the receive thread while it handles a message: what a tool's
\* callback calls, a printf or a log, may be a cancellation point, and send and close are.
callback_cancelled ==
    /\ cancel
    /\ cpc = "handle" \/ (cpc = "replying" /\ spc["receiver"] \in {"send", "close"})
    /\ spc' = [spc EXCEPT !["receiver"] = "idle"]
    /\ left' = [left EXCEPT !["receiver"] = 0]
    /\ data' = [data EXCEPT !["receiver"] = NoData]
    /\ rpc' = "exited"
    /\ cpc' = "none"
    /\ lost' = lost \cup {Head(buffer)}
    /\ UNCHANGED <<schedVars, stateVars, buffer, cancel, arrived, senderr, written, wireVars,
                   depc, fd, killed, mpc, worker, transport, handled, unposted, sessions>>

-----------------------------------------------------------------------------
\* The worker handles a task: mcp_message_task_run.
task_replies ==
    /\ wpc = "call" /\ transport
    /\ hwio_tcp_write("worker", task)
    /\ UNCHANGED <<schedVars, glueVars>>

task_returns ==
    /\ worker_call
    /\ IF transport THEN write_return("worker") ELSE UNCHANGED hwioVars
    /\ handled' = Append(handled, task)
    /\ UNCHANGED <<mpc, worker, transport, cpc, lost, unposted, sessions>>

worker_step ==
    /\ worker_wait \/ worker_exit \/ worker_take \/ worker_after
    /\ UNCHANGED <<hwioVars, glueVars>>

worker_wakes_up ==
    /\ worker_spurious_wakeup
    /\ UNCHANGED <<hwioVars, glueVars>>

-----------------------------------------------------------------------------
\* Faulty variants: the transport is destroyed while the scheduler runs;
\* server->worker is not cleared.
mlink_server_destroy_transport_first ==
    /\ mpc = "up"
    /\ mpc' = "net"
    /\ UNCHANGED <<schedVars, hwioVars, worker, transport, cpc, handled, lost, unposted, sessions>>

worker_cleared_missing ==
    /\ mpc = "sched" /\ dpc = "freed"
    /\ mpc' = "net"
    /\ UNCHANGED <<schedVars, hwioVars, worker, transport, cpc, handled, lost, unposted, sessions>>

\* mlink_server_destroy: bg_sched_destroy first, when there is a worker.
mlink_server_destroy ==
    /\ mpc = "up"
    /\ IF worker THEN destroy_stop /\ mpc' = "sched"
                 ELSE UNCHANGED schedVars /\ mpc' = "net"
    /\ UNCHANGED <<hwioVars, worker, transport, cpc, handled, lost, unposted, sessions>>

sched_destroying ==
    /\ mpc = "sched"
    /\ destroy_join \/ destroy_drain \/ destroy_free
    /\ UNCHANGED <<hwioVars, glueVars>>

\* worker = NULL, after bg_sched_destroy has returned.
worker_cleared ==
    /\ mpc = "sched" /\ dpc = "freed"
    /\ worker' = FALSE
    /\ mpc' = "net"
    /\ UNCHANGED <<schedVars, hwioVars, transport, cpc, handled, lost, unposted, sessions>>

\* transport_destroy, when there is a transport.
transport_destroy ==
    /\ mpc = "net" /\ transport
    /\ deinit_stop
    /\ mpc' = "deinit"
    /\ UNCHANGED <<schedVars, worker, transport, cpc, handled, lost, unposted, sessions>>

transport_destroying ==
    /\ mpc = "deinit"
    /\ Deinit
    /\ UNCHANGED <<schedVars, glueVars>>

\* transport = NULL and return.
mlink_server_destroyed ==
    /\ \/ mpc = "net" /\ ~transport
       \/ mpc = "deinit" /\ depc = "done"
    /\ transport' = FALSE
    /\ mpc' = "down"
    /\ UNCHANGED <<schedVars, hwioVars, worker, cpc, handled, lost, unposted, sessions>>

-----------------------------------------------------------------------------
\* The receive thread outside the callback.
receiver_step ==
    /\ \/ recv_test \/ recv_wake \/ recv_enter \/ recv_data
       \/ recv_eof \/ recv_close \/ recv_clear \/ recv_cancelled
    /\ UNCHANGED <<schedVars, glueVars>>

receiver_interrupted == recv_interrupted /\ UNCHANGED <<schedVars, glueVars>>

\* A thread inside hwio_tcp_write.
writing(w) == WriterStep(w) /\ UNCHANGED <<schedVars, glueVars>>

\* The peer sends a request while fewer than Window are unanswered, or closes.
peer_requests ==
    /\ \E m \in Tasks :
         /\ Len(arrived) + Len(inbound)
              < Window + Len(SelectSeq(written, LAMBDA d : d \in Tasks))
         /\ peer_send(m)
    /\ UNCHANGED <<schedVars, glueVars>>

peer_leaves == peer_close /\ UNCHANGED <<schedVars, glueVars>>

-----------------------------------------------------------------------------
Callback == \/ callback_begin \/ callback_drops \/ callback_reads_worker
            \/ callback_calls_post \/ callback_posts \/ callback_posts_too_late
            \/ callback_replies \/ callback_replied \/ callback_returns
            \/ callback_cancelled

MainThread == \/ register_callback \/ register_context \/ send_hello \/ send_returns
              \/ sched_destroying \/ worker_cleared
              \/ transport_destroy \/ transport_destroying \/ mlink_server_destroyed
              \/ writing("main")

ReceiverThread == receiver_step \/ Callback \/ writing("receiver")

WorkerThread == worker_step \/ task_replies \/ task_returns \/ writing("worker")

\* What the application and the environment may do or leave.
Application == \/ mlink_server_init \/ mlink_server_init_offline
               \/ mlink_notify_message \/ mlink_server_destroy

Environment == \/ receiver_interrupted \/ worker_wakes_up
               \/ peer_requests \/ peer_leaves

MlinkNext == ~killed /\ (MainThread \/ ReceiverThread \/ WorkerThread
                          \/ Application \/ Environment)

MlinkSpec == MlinkInit /\ [][MlinkNext]_mlinkVars

\* Each thread is scheduled, and a send ends: the peer reads or is gone.
MlinkFairSpec == /\ MlinkSpec
                 /\ WF_mlinkVars(~killed /\ MainThread)
                 /\ WF_mlinkVars(~killed /\ ReceiverThread)
                 /\ WF_mlinkVars(~killed /\ WorkerThread)
-----------------------------------------------------------------------------
\* When mlink_server_destroy has returned, every request that recv returned was
\* handled, was given up by the receive callback or was freed with the list.
RequestsAccounted ==
    mpc = "down" =>
        /\ Range(arrived) = Range(handled) \cup lost \cup Range(discarded)
        /\ Range(handled) \cap (lost \cup Range(discarded)) = {}

\* Replies leave in the order the requests arrived, one for each, also across the
\* switch from the worker to the receive thread in a shutdown; only a request that
\* malloc failed for overtakes those that wait for the worker.
Position(m) == CHOOSE i \in DOMAIN arrived : arrived[i] = m
RepliesInOrder ==
    \A i, j \in DOMAIN written :
        i < j /\ {written[i], written[j]} \subseteq Tasks =>
            /\ written[i] # written[j]
            /\ \/ Position(written[i]) < Position(written[j])
               \/ written[i] \in unposted

\* hwio_tcp_write sends a payload in pieces without a lock.  Two replies are never
\* being written at the same time, so their pieces do not mix on the stream, unless
\* malloc failed for one of the requests.  (The main thread's notifications do.)
RepliesIntact ==
    \A v, w \in Writers :
        v # w /\ {data[v], data[w]} \subseteq Tasks => {data[v], data[w]} \cap unposted # {}

\* mlink_server_destroy stops the worker before the connection: a request that
\* was queued when it began has been answered, unless the connection failed.
AnsweredBeforeClose ==
    (mpc = "down" /\ sessions = 1 /\ peerOpen /\ ~senderr) =>
        \A i \in 1..owed : posted[i] \in Range(written)

\* The receive callback tests server->worker and posts later, without a lock.  It
\* can reach a scheduler that is being freed only while mlink_server_destroy is
\* still running; a later session never posts to the scheduler of an earlier one.
StalePostOnlyInShutdown ==
    (cpc = "link" /\ dpc \in {"free", "freed"}) => mpc \in {"sched", "net", "deinit"}

\* mlink_server_destroy returns.
MlinkDestroyReturns == mpc \in {"sched", "net"} ~> (mpc = "down" \/ killed)

\* A request gets its answer, unless the connection fails, the server is
\* destroyed, or the receive callback lost it: it came before the callback had
\* its context, or behind another request in one recv.
EveryRequestAnswered ==
    \A m \in Tasks :
        (m \in Range(inbound) /\ mpc = "up" /\ transport) ~>
            \/ m \in Range(written) \cup lost
            \/ ~peerOpen \/ mpc \notin {"up", "sending"}
            \/ killed

\* "Fall back to synchronous handling, so that no message is lost": whatever the
\* receive callback handed to bg_sched_post has been handled when
\* mlink_server_destroy has returned.
NoPostedRequestLost == mpc = "down" => Range(posted) \subseteq Range(handled)
=============================================================================
