-------------------------------- MODULE Hwio --------------------------------
(***************************************************************************)
(* core/transport/hwio/tcp.c: one client connection, its receive thread    *)
(* and the threads that write to it (unix.c is the same code over another  *)
(* address family; lines are those of tcp.c).                              *)
(*                                                                         *)
(* No lock guards struct tcp_state, so every access another thread can see *)
(* is a step of its own: the receive thread's test, its recv, its callback *)
(* and its tcp_close; each send of hwio_tcp_write and the tcp_close of its *)
(* error path; the store to running, pthread_cancel, pthread_join and the  *)
(* final close of hwio_tcp_deinit.                                         *)
(*                                                                         *)
(* A message of the peer is a member of Messages.  The stream keeps no     *)
(* boundaries: one recv may return several waiting messages at once.       *)
(***************************************************************************)
EXTENDS Naturals, Sequences, Functions

CONSTANTS Messages,   \* what the peer may send, each at most once
          Writers,    \* threads that call hwio_tcp_write
          Size,       \* pieces a payload may be sent in
          NoData      \* no payload is being written

ASSUME SizeAssumption == Size \in Nat \ {0}

VARIABLES priv,       \* hwio->priv points to a live struct tcp_state
          sock,       \* state->sock >= 0
          run,        \* state->running
          recv_cb,    \* state->recv_cb # NULL
          recv_ctx,   \* state->recv_ctx # NULL
          rpc,        \* where the receive thread is
          buffer,     \* the messages its last recv returned
          cancel,     \* pthread_cancel was called on it
          spc,        \* per writer: where it is in hwio_tcp_write
          left,       \* per writer: pieces still to send
          data,       \* per writer: the payload
          depc,       \* where hwio_tcp_deinit is
          fd,         \* the connection's descriptor, in the kernel
          inbound,    \* messages in the receive queue of the socket
          peerOpen,   \* the peer has not closed its end
          senderr,    \* history: a send failed and its thread went to tcp_close
          arrived,    \* history: messages that recv returned, in order
          written,    \* history: payloads written completely, in order
          killed      \* SIGPIPE or undefined behaviour ended the process

stateVars == <<priv, sock, run, recv_cb, recv_ctx>>
recvVars  == <<rpc, buffer, cancel, arrived>>
sendVars  == <<spc, left, data, senderr, written>>
wireVars  == <<inbound, peerOpen>>
hwioVars  == <<stateVars, recvVars, sendVars, wireVars, depc, fd, killed>>

HwioInit ==
    /\ priv = FALSE /\ sock = FALSE /\ run = FALSE
    /\ recv_cb = FALSE /\ recv_ctx = FALSE
    /\ rpc = "none" /\ buffer = <<>> /\ cancel = FALSE
    /\ spc = [w \in Writers |-> "idle"]
    /\ left = [w \in Writers |-> 0]
    /\ data = [w \in Writers |-> NoData]
    /\ depc = "none" /\ fd = "none"
    /\ inbound = <<>> /\ peerOpen = FALSE
    /\ senderr = FALSE /\ arrived = <<>> /\ written = <<>>
    /\ killed = FALSE

\* close(state->sock): the descriptor's number may belong to another file of
\* the process when it is closed a second time.
CloseFd == fd' = IF fd = "open" THEN "closed" ELSE "reclosed"

-----------------------------------------------------------------------------
\* hwio_tcp_init: allocate, connect and start the receive thread.
hwio_tcp_init ==
    /\ ~priv
    /\ priv' = TRUE /\ sock' = TRUE /\ run' = TRUE
    /\ recv_cb' = FALSE /\ recv_ctx' = FALSE
    /\ fd' = "open" /\ peerOpen' = TRUE /\ inbound' = <<>>
    /\ rpc' = "loop" /\ buffer' = <<>> /\ cancel' = FALSE
    /\ depc' = "none"
    /\ senderr' = FALSE
    /\ UNCHANGED <<arrived, spc, left, data, written, killed>>

\* hwio_tcp_init fails in calloc, socket, connect or thread_create; whatever was
\* opened is closed.  The struct itself is not freed, and transport_create
\* frees the hwio that points to it.
hwio_tcp_init_fails ==
    /\ ~priv
    /\ UNCHANGED hwioVars

\* hwio_tcp_callback with a callback: two stores that the receive thread may
\* observe one at a time.
hwio_tcp_callback ==
    /\ priv /\ ~recv_cb
    /\ recv_cb' = TRUE
    /\ UNCHANGED <<priv, sock, run, recv_ctx, recvVars, sendVars, wireVars, depc, fd, killed>>

hwio_tcp_callback_ctx ==
    /\ priv /\ recv_cb /\ ~recv_ctx
    /\ recv_ctx' = TRUE
    /\ UNCHANGED <<priv, sock, run, recv_cb, recvVars, sendVars, wireVars, depc, fd, killed>>

-----------------------------------------------------------------------------
\* tcp_recv_thread: the loop's condition and the test of sock and recv_cb.
recv_test ==
    /\ rpc = "loop"
    /\ rpc' = CASE ~run -> "exited"
                [] run /\ (~sock \/ ~recv_cb) -> "sleep"
                [] OTHER -> "recv"
    /\ UNCHANGED <<stateVars, buffer, cancel, arrived, sendVars, wireVars, depc, fd, killed>>

\* tcp_recv_thread: usleep returns.
recv_wake ==
    /\ rpc = "sleep"
    /\ rpc' = "loop"
    /\ UNCHANGED <<stateVars, buffer, cancel, arrived, sendVars, wireVars, depc, fd, killed>>

\* tcp_recv_thread: recv reads state->sock.  It fails at once when a writer has
\* closed the descriptor meanwhile; otherwise it waits, and keeps its reference
\* to the connection even if the descriptor is closed while it does.
recv_enter ==
    /\ rpc = "recv"
    /\ rpc' = IF sock /\ fd = "open" THEN "blocked" ELSE "close"
    /\ UNCHANGED <<stateVars, buffer, cancel, arrived, sendVars, wireVars, depc, fd, killed>>

\* tcp_recv_thread: recv returns n > 0 bytes, some of the waiting messages, and
\* the callback is entered.
recv_data ==
    /\ rpc = "blocked"
    /\ \E n \in 1..Len(inbound) :
         /\ buffer' = SubSeq(inbound, 1, n)
         /\ inbound' = SubSeq(inbound, n + 1, Len(inbound))
         /\ arrived' = arrived \o buffer'
    /\ rpc' = "callback"
    /\ UNCHANGED <<stateVars, cancel, sendVars, peerOpen, depc, fd, killed>>

\* tcp_recv_thread: recv returns 0 after the peer closed, or an error when the
\* connection was reset with messages still waiting.
recv_eof ==
    /\ rpc = "blocked"
    /\ ~peerOpen
    /\ rpc' = "close"
    /\ UNCHANGED <<stateVars, buffer, cancel, arrived, sendVars, wireVars, depc, fd, killed>>

\* tcp_recv_thread: a signal interrupts recv while it has nothing to return
\* (EINTR).
recv_interrupted ==
    /\ rpc = "blocked"
    /\ inbound = <<>> /\ peerOpen
    /\ rpc' = "loop"
    /\ UNCHANGED <<stateVars, buffer, cancel, arrived, sendVars, wireVars, depc, fd, killed>>

\* tcp_recv_thread: the callback returns.
recv_callback_return ==
    /\ rpc = "callback"
    /\ rpc' = "loop"
    /\ buffer' = <<>>
    /\ UNCHANGED <<stateVars, cancel, arrived, sendVars, wireVars, depc, fd, killed>>

\* tcp_close by the receive thread: close, then sock = -1; then the thread ends.
recv_close ==
    /\ rpc = "close"
    /\ IF sock THEN rpc' = "clear" /\ CloseFd
               ELSE rpc' = "exited" /\ UNCHANGED fd
    /\ UNCHANGED <<stateVars, buffer, cancel, arrived, sendVars, wireVars, depc, killed>>

\* Faulty variant: tcp_close forgets sock = -1.
recv_clear_missing ==
    /\ rpc = "clear"
    /\ rpc' = "exited"
    /\ UNCHANGED <<stateVars, buffer, cancel, arrived, sendVars, wireVars, depc, fd, killed>>

recv_clear ==
    /\ rpc = "clear"
    /\ sock' = FALSE
    /\ rpc' = "exited"
    /\ UNCHANGED <<priv, run, recv_cb, recv_ctx, buffer, cancel, arrived,
                   sendVars, wireVars, depc, fd, killed>>

\* A pending pthread_cancel acts where the thread calls usleep, recv or close.
recv_cancelled ==
    /\ cancel
    /\ rpc \in {"sleep", "recv", "blocked", "close"}
    /\ rpc' = "exited"
    /\ UNCHANGED <<stateVars, buffer, cancel, arrived, sendVars, wireVars, depc, fd, killed>>

-----------------------------------------------------------------------------
\* hwio_tcp_write(w, d): the checks before the loop.
hwio_tcp_write(w, d) ==
    /\ spc[w] = "idle"
    /\ data' = [data EXCEPT ![w] = d]
    /\ IF priv /\ sock
         THEN /\ spc' = [spc EXCEPT ![w] = "send"]
              /\ left' = [left EXCEPT ![w] = Size]
         ELSE /\ spc' = [spc EXCEPT ![w] = "done"]
              /\ UNCHANGED left
    /\ UNCHANGED <<stateVars, recvVars, senderr, written, wireVars, depc, fd, killed>>

\* One send of the loop takes n of the remaining pieces.  It never returns 0 for
\* a stream socket and a nonempty buffer.
send_pieces(w) ==
    /\ spc[w] = "send"
    /\ sock /\ fd = "open"
    /\ \E n \in 1..left[w] :
         /\ left' = [left EXCEPT ![w] = @ - n]
         /\ IF n = left[w]
              THEN /\ spc' = [spc EXCEPT ![w] = "done"]
                   /\ written' = Append(written, data[w])
              ELSE UNCHANGED <<spc, written>>
    /\ UNCHANGED <<stateVars, recvVars, data, senderr, wireVars, depc, fd, killed>>

\* A send fails: EBADF after somebody closed the descriptor, or an error of a
\* connection whose peer is gone.
send_fails(w) ==
    /\ spc[w] = "send"
    /\ ~sock \/ fd # "open" \/ ~peerOpen
    /\ spc' = [spc EXCEPT ![w] = "close"]
    /\ left' = [left EXCEPT ![w] = 0]
    /\ senderr' = TRUE
    /\ UNCHANGED <<stateVars, recvVars, data, written, wireVars, depc, fd, killed>>

\* A send on a connection whose peer is gone raises SIGPIPE, which nobody
\* handles or ignores.
send_sigpipe(w) ==
    /\ spc[w] = "send"
    /\ sock /\ fd = "open" /\ ~peerOpen
    /\ killed' = TRUE
    /\ UNCHANGED <<stateVars, recvVars, sendVars, wireVars, depc, fd>>

\* tcp_close by a writer.
send_close(w) ==
    /\ spc[w] = "close"
    /\ IF sock THEN spc' = [spc EXCEPT ![w] = "clear"] /\ CloseFd
               ELSE spc' = [spc EXCEPT ![w] = "done"] /\ UNCHANGED fd
    /\ UNCHANGED <<stateVars, recvVars, left, data, senderr, written, wireVars, depc, killed>>

send_clear(w) ==
    /\ spc[w] = "clear"
    /\ sock' = FALSE
    /\ spc' = [spc EXCEPT ![w] = "done"]
    /\ UNCHANGED <<priv, run, recv_cb, recv_ctx, recvVars, left, data, senderr, written,
                   wireVars, depc, fd, killed>>

\* hwio_tcp_write returns to its caller.
write_return(w) ==
    /\ spc[w] = "done"
    /\ spc' = [spc EXCEPT ![w] = "idle"]
    /\ data' = [data EXCEPT ![w] = NoData]
    /\ UNCHANGED <<stateVars, recvVars, left, senderr, written, wireVars, depc, fd, killed>>

WriterStep(w) == \/ send_pieces(w) \/ send_fails(w) \/ send_sigpipe(w)
                 \/ send_close(w) \/ send_clear(w)
-----------------------------------------------------------------------------
\* hwio_tcp_deinit: running = 0.
deinit_stop ==
    /\ priv /\ depc = "none"
    /\ run' = FALSE
    /\ depc' = "cancel"
    /\ UNCHANGED <<priv, sock, recv_cb, recv_ctx, recvVars, sendVars, wireVars, fd, killed>>

\* Faulty variants: thread_stop does not cancel; hwio_tcp_deinit leaves the socket
\* to the receive thread.
deinit_cancel_missing ==
    /\ depc = "cancel"
    /\ depc' = "join"
    /\ UNCHANGED <<stateVars, recvVars, sendVars, wireVars, fd, killed>>

deinit_free_without_close ==
    /\ depc = "close"
    /\ sock' = FALSE
    /\ priv' = FALSE
    /\ depc' = "done"
    /\ UNCHANGED <<run, recv_cb, recv_ctx, recvVars, sendVars, wireVars, fd, killed>>

\* thread_stop: pthread_cancel.
deinit_cancel ==
    /\ depc = "cancel"
    /\ cancel' = TRUE
    /\ depc' = "join"
    /\ UNCHANGED <<stateVars, rpc, buffer, arrived, sendVars, wireVars, fd, killed>>

\* thread_stop: pthread_join.
deinit_join ==
    /\ depc = "join"
    /\ rpc = "exited"
    /\ depc' = "close"
    /\ UNCHANGED <<stateVars, recvVars, sendVars, wireVars, fd, killed>>

\* hwio_tcp_deinit: tcp_close, free(state), hwio->priv = NULL.
deinit_free ==
    /\ depc = "close"
    /\ IF sock THEN CloseFd ELSE UNCHANGED fd
    /\ sock' = FALSE
    /\ priv' = FALSE
    /\ depc' = "done"
    /\ UNCHANGED <<run, recv_cb, recv_ctx, recvVars, sendVars, wireVars, killed>>

-----------------------------------------------------------------------------
\* The peer: sends a message, closes its end.  The connection lasts at most until
\* hwio_tcp_deinit.
peer_send(m) ==
    /\ peerOpen /\ priv
    /\ m \notin Range(arrived) \cup Range(inbound)
    /\ inbound' = Append(inbound, m)
    /\ UNCHANGED <<stateVars, recvVars, sendVars, peerOpen, depc, fd, killed>>

peer_close ==
    /\ peerOpen
    /\ peerOpen' = FALSE
    /\ UNCHANGED <<stateVars, recvVars, sendVars, inbound, depc, fd, killed>>

-----------------------------------------------------------------------------
Receiver == \/ recv_test \/ recv_wake \/ recv_enter \/ recv_data \/ recv_eof
            \/ recv_callback_return \/ recv_close \/ recv_clear \/ recv_cancelled

Deinit == deinit_cancel \/ deinit_join \/ deinit_free

\* The connection on its own.  Its owner writes replies to what arrived, and
\* destroys it when none of its threads is inside hwio_tcp_write; MlinkServer
\* shows that mlink_server_destroy is such an owner.
OwnerWrites(w) ==
    /\ priv /\ depc = "none"
    /\ \E m \in Range(arrived) \ (Range(written) \cup Range(data)) : hwio_tcp_write(w, m)

OwnerDestroys == (\A w \in Writers : spc[w] = "idle") /\ deinit_stop

HwioNext ==
    /\ ~killed
    /\ \/ hwio_tcp_init \/ hwio_tcp_init_fails
       \/ hwio_tcp_callback \/ hwio_tcp_callback_ctx
       \/ Receiver \/ recv_interrupted
       \/ \E w \in Writers : OwnerWrites(w) \/ WriterStep(w) \/ write_return(w)
       \/ OwnerDestroys \/ Deinit
       \/ \E m \in Messages : peer_send(m)
       \/ peer_close

HwioSpec == HwioInit /\ [][HwioNext]_hwioVars
-----------------------------------------------------------------------------
\* The struct is freed only when the receive thread has ended and no thread is
\* inside hwio_tcp_write: nobody dereferences it afterwards.
FreedWhenQuiet ==
    ~priv => /\ rpc \in {"none", "exited"}
             /\ \A w \in Writers : spc[w] \notin {"send", "close", "clear"}

\* Every connection is closed when hwio_tcp_deinit returns, whichever thread got
\* there first.
NoDescriptorLeak == depc = "done" => fd # "open"

\* The descriptor is closed twice only if a writer met a send error: the receive
\* thread and hwio_tcp_deinit never both close it.
ClosedOnceUnlessSendError == fd = "reclosed" => senderr
=============================================================================
