----------------------------- MODULE HwioProofs -----------------------------
(***************************************************************************)
(* Proofs about Hwio, for any messages, any threads that write and any     *)
(* number of pieces: the struct is freed when nobody is inside, the        *)
(* descriptor is closed, and closed twice only after a send error.         *)
(*                                                                         *)
(* The lemmas about single steps ask of the connection's owner only what   *)
(* they need, so that MlinkServerProofs can use them for its own owner.    *)
(***************************************************************************)
EXTENDS Hwio, SequenceTheorems, TLAPS

ReceiverPC == {"none", "loop", "sleep", "recv", "blocked", "callback", "close", "clear", "exited"}
WriterPC == {"idle", "send", "close", "clear", "done"}
DeinitPC == {"none", "cancel", "join", "close", "done"}

ConnTypeOK == /\ priv \in BOOLEAN /\ sock \in BOOLEAN /\ run \in BOOLEAN
              /\ recv_cb \in BOOLEAN /\ recv_ctx \in BOOLEAN
              /\ rpc \in ReceiverPC /\ cancel \in BOOLEAN
              /\ spc \in [Writers -> WriterPC]
              /\ depc \in DeinitPC
              /\ fd \in {"none", "open", "closed", "reclosed"}
              /\ peerOpen \in BOOLEAN /\ senderr \in BOOLEAN

\* w may dereference the struct.
Inside(w) == spc[w] \in {"send", "close", "clear"}
NobodyInside == \A w \in Writers : ~Inside(w)

\* The life of a connection: the receive thread is there from init to join, and
\* from the join on nobody else is inside.
Lifetime == /\ priv <=> rpc # "none" /\ depc # "done"
            /\ sock => priv
            /\ rpc = "none" => depc = "none" /\ fd = "none"
            /\ depc \in {"close", "done"} => rpc = "exited"
            /\ (~priv \/ depc = "close") => NobodyInside

\* The descriptor is open exactly while sock says so and nobody is between its
\* close(fd) and its sock = -1.
OpenIsKnown == fd = "open" <=> sock /\ rpc # "clear" /\ \A w \in Writers : spc[w] # "clear"

\* A writer closes only after an error.
WritersCloseOnError == (\E w \in Writers : spc[w] \in {"close", "clear"}) => senderr

\* What holds whoever the owner of the connection is, if he keeps to the calls that
\* the lemmas below allow him.
ConnInv == /\ ConnTypeOK
           /\ Lifetime
           /\ OpenIsKnown
           /\ WritersCloseOnError
           /\ ClosedOnceUnlessSendError

\* The inductive invariant: the owner of HwioSpec lets nobody write once it destroys.
HwioInv == /\ ConnInv
           /\ depc # "none" => \A w \in Writers : spc[w] = "idle"

-----------------------------------------------------------------------------
\* Before the first connection nothing is open.
LEMMA InitConn == HwioInit => ConnInv
  BY DEF HwioInit, ConnInv, ConnTypeOK, Lifetime, OpenIsKnown, WritersCloseOnError,
     ClosedOnceUnlessSendError, NobodyInside, Inside, ReceiverPC, WriterPC, DeinitPC

\* hwio_tcp_init finds nobody inside an earlier connection, so that it can begin
\* with an open descriptor that nobody is about to close.
LEMMA OpenKeepsConn == ConnInv /\ (hwio_tcp_init \/ hwio_tcp_init_fails) => ConnInv'
<1> SUFFICES ASSUME ConnInv, hwio_tcp_init \/ hwio_tcp_init_fails PROVE ConnInv'
  OBVIOUS
<1>1. CASE hwio_tcp_init
  BY <1>1 DEF hwio_tcp_init, ConnInv, ConnTypeOK, Lifetime, OpenIsKnown, WritersCloseOnError,
     ClosedOnceUnlessSendError, NobodyInside, Inside, ReceiverPC, DeinitPC
<1>2. CASE hwio_tcp_init_fails
  BY <1>2 DEF hwio_tcp_init_fails, hwioVars, stateVars, recvVars, sendVars, wireVars,
     ConnInv, ConnTypeOK, Lifetime, OpenIsKnown, WritersCloseOnError,
     ClosedOnceUnlessSendError, NobodyInside, Inside
<1> QED
  BY <1>1, <1>2

\* A step that leaves every place, sock and the descriptor alone.
LEMMA QuietKeepsConn ==
  ASSUME ConnInv,
         UNCHANGED <<priv, sock, run, rpc, cancel, spc, depc, fd, senderr>>,
         recv_cb' \in BOOLEAN, recv_ctx' \in BOOLEAN, peerOpen' \in BOOLEAN
  PROVE  ConnInv'
  BY DEF ConnInv, ConnTypeOK, Lifetime, OpenIsKnown, WritersCloseOnError,
     ClosedOnceUnlessSendError, NobodyInside, Inside

\* Registering the callback, and what the peer does.
LEMMA OthersKeepConn ==
  ASSUME ConnInv,
         \/ hwio_tcp_callback \/ hwio_tcp_callback_ctx \/ peer_close
         \/ \E m : peer_send(m)
         \/ UNCHANGED hwioVars
  PROVE  ConnInv'
<1>1. /\ UNCHANGED <<priv, sock, run, rpc, cancel, spc, depc, fd, senderr>>
      /\ recv_cb' \in {recv_cb, TRUE} /\ recv_ctx' \in {recv_ctx, TRUE}
      /\ peerOpen' \in {peerOpen, FALSE}
  BY DEF hwio_tcp_callback, hwio_tcp_callback_ctx, peer_close, peer_send,
     hwioVars, stateVars, recvVars, sendVars, wireVars
<1> QED
  BY <1>1, QuietKeepsConn DEF ConnInv, ConnTypeOK

\* The receive thread, outside the callback and around it.
LEMMA ReceiverKeepsConn ==
  ASSUME ConnInv, Receiver \/ recv_interrupted PROVE ConnInv'
<1> USE DEF ConnInv, ConnTypeOK, Lifetime, OpenIsKnown, WritersCloseOnError,
        ClosedOnceUnlessSendError, NobodyInside, Inside,
        stateVars, recvVars, sendVars, wireVars, ReceiverPC
<1>1. CASE recv_test
  BY <1>1 DEF recv_test
<1>2. CASE recv_wake \/ recv_eof \/ recv_interrupted \/ recv_cancelled
  BY <1>2 DEF recv_wake, recv_eof, recv_interrupted, recv_cancelled
<1>3. CASE recv_enter
  BY <1>3 DEF recv_enter
<1>4. CASE recv_data \/ recv_callback_return
  BY <1>4 DEF recv_data, recv_callback_return
<1>5. CASE recv_close
  BY <1>5 DEF recv_close, CloseFd
<1>6. CASE recv_clear
  BY <1>6 DEF recv_clear
<1> QED
  BY <1>1, <1>2, <1>3, <1>4, <1>5, <1>6 DEF Receiver

\* A writer may begin whenever hwio_tcp_deinit has not joined the receive thread, and
\* afterwards when there is no connection any more.
LEMMA WriterKeepsConn ==
  ASSUME ConnInv, NEW w \in Writers,
         \/ WriterStep(w) \/ write_return(w)
         \/ depc # "close" /\ \E d : hwio_tcp_write(w, d)
  PROVE  ConnInv'
<1> USE DEF ConnInv, ConnTypeOK, Lifetime, OpenIsKnown, WritersCloseOnError,
        ClosedOnceUnlessSendError, NobodyInside, Inside,
        stateVars, recvVars, sendVars, wireVars, WriterPC
<1>1. ASSUME depc # "close", NEW d, hwio_tcp_write(w, d) PROVE ConnInv'
  BY <1>1 DEF hwio_tcp_write
<1>2. CASE send_pieces(w)
  BY <1>2 DEF send_pieces
<1>3. CASE send_fails(w)
  BY <1>3 DEF send_fails
<1>4. CASE send_sigpipe(w)
  BY <1>4 DEF send_sigpipe
<1>5. CASE send_close(w)
  BY <1>5 DEF send_close, CloseFd
<1>6. CASE send_clear(w)
  BY <1>6 DEF send_clear
<1>7. CASE write_return(w)
  BY <1>7 DEF write_return
<1> QED
  BY <1>1, <1>2, <1>3, <1>4, <1>5, <1>6, <1>7 DEF WriterStep

\* hwio_tcp_deinit may join when no writer is inside: it frees the struct next.
LEMMA DeinitKeepsConn ==
  ASSUME ConnInv,
         \/ deinit_stop \/ deinit_cancel \/ deinit_free
         \/ NobodyInside /\ deinit_join
  PROVE  ConnInv'
<1> USE DEF ConnInv, ConnTypeOK, Lifetime, OpenIsKnown, WritersCloseOnError,
        ClosedOnceUnlessSendError, NobodyInside, Inside,
        stateVars, recvVars, sendVars, wireVars, DeinitPC, WriterPC
<1>1. CASE deinit_stop
  BY <1>1 DEF deinit_stop
<1>2. CASE deinit_cancel
  BY <1>2 DEF deinit_cancel
<1>3. CASE NobodyInside /\ deinit_join
  BY <1>3 DEF deinit_join
<1>4. CASE deinit_free
  BY <1>4 DEF deinit_free, CloseFd
<1> QED
  BY <1>1, <1>2, <1>3, <1>4
-----------------------------------------------------------------------------
\* The owner of HwioSpec: it writes while depc is "none", destroys when every writer
\* is idle, and nobody begins to write after that.
LEMMA StepKeepsHwio == HwioInv /\ [HwioNext]_hwioVars => HwioInv'
<1> SUFFICES ASSUME HwioInv, [HwioNext]_hwioVars PROVE HwioInv'
  OBVIOUS
<1> DEFINE Idle == \A w \in Writers : spc[w] = "idle"
<1> USE DEF stateVars, recvVars, sendVars, wireVars
<1>1. CASE hwio_tcp_init \/ hwio_tcp_init_fails
  <2>1. ConnInv'
    BY <1>1, OpenKeepsConn DEF HwioInv
  <2>2. depc' = "none" \/ UNCHANGED <<depc, spc>>
    BY <1>1 DEF hwio_tcp_init, hwio_tcp_init_fails, hwioVars
  <2> QED
    BY <2>1, <2>2 DEF HwioInv
<1>2. CASE \/ hwio_tcp_callback \/ hwio_tcp_callback_ctx \/ peer_close
           \/ \E m \in Messages : peer_send(m)
           \/ UNCHANGED hwioVars
  <2>1. ConnInv'
    BY <1>2, OthersKeepConn DEF HwioInv
  <2>2. UNCHANGED <<depc, spc>>
    BY <1>2 DEF hwio_tcp_callback, hwio_tcp_callback_ctx, peer_close, peer_send, hwioVars
  <2> QED
    BY <2>1, <2>2 DEF HwioInv
<1>3. CASE Receiver \/ recv_interrupted
  <2>1. ConnInv'
    BY <1>3, ReceiverKeepsConn DEF HwioInv
  <2>2. UNCHANGED <<depc, spc>>
    BY <1>3 DEF Receiver, recv_test, recv_wake, recv_enter, recv_data, recv_eof,
       recv_interrupted, recv_callback_return, recv_close, recv_clear, recv_cancelled
  <2> QED
    BY <2>1, <2>2 DEF HwioInv
<1>4. ASSUME NEW w \in Writers, OwnerWrites(w) \/ WriterStep(w) \/ write_return(w)
      PROVE  HwioInv'
  <2>1. depc = "none"
    BY <1>4 DEF OwnerWrites, WriterStep, write_return, send_pieces, send_fails,
       send_sigpipe, send_close, send_clear, HwioInv
  <2>2. depc' = depc
    BY <1>4 DEF OwnerWrites, hwio_tcp_write, WriterStep, write_return, send_pieces,
       send_fails, send_sigpipe, send_close, send_clear
  <2>3. ConnInv'
    BY <1>4, <2>1, WriterKeepsConn DEF HwioInv, OwnerWrites
  <2> QED
    BY <2>1, <2>2, <2>3 DEF HwioInv
<1>5. CASE OwnerDestroys \/ Deinit
  <2>1. Idle /\ UNCHANGED spc
    BY <1>5 DEF OwnerDestroys, Deinit, deinit_stop, deinit_cancel, deinit_join,
       deinit_free, HwioInv
  <2>2. NobodyInside
    BY <2>1 DEF NobodyInside, Inside
  <2>3. ConnInv'
    BY <1>5, <2>2, DeinitKeepsConn DEF OwnerDestroys, Deinit, HwioInv
  <2> QED
    BY <2>1, <2>3 DEF HwioInv
<1> QED
  BY <1>1, <1>2, <1>3, <1>4, <1>5 DEF HwioNext

\* The inductive invariant holds in every state of a connection.
THEOREM HwioInvariant == HwioSpec => []HwioInv
<1>1. HwioInit => HwioInv
  BY InitConn DEF HwioInit, HwioInv
<1> QED
  BY <1>1, StepKeepsHwio, PTL DEF HwioSpec

\* hwio_tcp_deinit frees struct tcp_state when the receive thread has ended and no
\* thread is inside hwio_tcp_write.
THEOREM HwioFreedWhenQuiet == HwioSpec => []FreedWhenQuiet
<1>1. HwioInv => FreedWhenQuiet
  BY DEF HwioInv, ConnInv, ConnTypeOK, Lifetime, NobodyInside, Inside, FreedWhenQuiet,
     DeinitPC, ReceiverPC
<1> QED
  BY <1>1, HwioInvariant, PTL

\* The descriptor is closed when hwio_tcp_deinit returns, by whichever thread.
THEOREM HwioNoLeak == HwioSpec => []NoDescriptorLeak
<1>1. HwioInv => NoDescriptorLeak
  BY DEF HwioInv, ConnInv, ConnTypeOK, Lifetime, OpenIsKnown, NoDescriptorLeak
<1> QED
  BY <1>1, HwioInvariant, PTL

\* The receive thread and hwio_tcp_deinit never both close the descriptor: it takes a
\* writer that met a send error.
THEOREM HwioClosedOnce == HwioSpec => []ClosedOnceUnlessSendError
<1>1. HwioInv => ClosedOnceUnlessSendError
  BY DEF HwioInv, ConnInv
<1> QED
  BY <1>1, HwioInvariant, PTL
=============================================================================
