----------------------------- MODULE DataStream ------------------------------
(***************************************************************************)
(* Bytes on their way through a session (src/src/mysql_data_stream.c and   *)
(* session_handler in mysql_session.c): from the sender's socket into the  *)
(* input queue of one data stream, cut into packets, handed to the other   *)
(* data stream, and from its output queue to the receiver's socket.  The   *)
(* queues hold net_buffer_size bytes and do not wrap around.               *)
(*                                                                         *)
(* One direction is modelled, from the client to a server; the other one   *)
(* runs the same code, with ResultSet between the two streams.  A packet   *)
(* is the sequence of its bytes, header first; the first byte of a header  *)
(* is the length of the payload.                                           *)
(*                                                                         *)
(* An operator named Mut_X is a wrong variant of X, used to show that the  *)
(* properties notice the difference.                                       *)
(***************************************************************************)
EXTENDS Integers, Sequences

CONSTANTS Size,       \* net_buffer_size
          Hdr,        \* sizeof(mysql_hdr)
          Payloads,   \* bound: lengths of payloads
          MaxPkts,    \* bound: packets sent
          NoPkt

ASSUME DataStreamAssumption ==
    /\ Hdr \in Nat \ {0} /\ Size \in Nat /\ Size > Hdr
    /\ Payloads \subseteq Nat /\ MaxPkts \in Nat
    /\ NoPkt \notin [length : Nat, data : Seq(Nat)]

VARIABLES pc,         \* where session_handler is
          sent,       \* the packets the sender has sent
          net,        \* bytes of them that have not been read
          hangup,     \* the sender has closed its end
          input,      \* input.queue, input.mypkt, input.pkts
          output,     \* output.pkts, output.mypkt, output.partial, output.queue
          wire,       \* bytes the receiver has been sent
          active,     \* client_myds->active
          backend,    \* server_mybe is set
          polled,     \* last_server_poll_fd is its descriptor
          pollout     \* POLLOUT was returned for it

vars == <<pc, sent, net, hangup, input, output, wire, active, backend, polled, pollout>>

-----------------------------------------------------------------------------
(* The queue macros; tail is where reading goes on, head is behind the data.  *)

EmptyQueue == [data |-> <<>>, tail |-> 0]
queue_data(q) == Len(q.data)
queue_available(q) == Size - (q.tail + Len(q.data))
queue_w(q, bytes) == [q EXCEPT !.data = @ \o bytes]
Mut_queue_zero(q) == q
queue_zero(q) == [q EXCEPT !.tail = 0]
queue_r(q, n) ==
    LET rest == SubSeq(q.data, n + 1, Len(q.data))
    IN  [data |-> rest, tail |-> IF rest = <<>> THEN 0 ELSE q.tail + n]

Smaller(a, b) == IF a < b THEN a ELSE b

(* One call of buffer2array; partial is how much of mypkt is there.           *)
Mut_PktLength(header) == Hdr + header[1] + 1
PktLength(header) == Hdr + header[1]

buffer2array(in) ==
    LET pkt0 == IF in.mypkt = NoPkt THEN [length |-> 0, data |-> <<>>] ELSE in.mypkt
        q0 == IF pkt0.length = 0 /\ queue_data(in.queue) < Hdr
              THEN queue_zero(in.queue) ELSE in.queue
        header == pkt0.length = 0 /\ queue_data(q0) >= Hdr
        q1 == IF header THEN queue_r(q0, Hdr) ELSE q0
        pkt1 == IF header THEN [length |-> PktLength(SubSeq(q0.data, 1, Hdr)),
                                data |-> SubSeq(q0.data, 1, Hdr)]
                ELSE pkt0
        b == IF pkt1.length > 0 THEN Smaller(queue_data(q1), pkt1.length - Len(pkt1.data)) ELSE 0
        pkt2 == [pkt1 EXCEPT !.data = @ \o SubSeq(q1.data, 1, b)]
        whole == pkt2.length > 0 /\ pkt2.length = Len(pkt2.data)
    IN  IF queue_data(in.queue) = 0
        THEN [in |-> in, ret |-> 0]
        ELSE [in |-> [queue |-> IF b > 0 THEN queue_r(q1, b) ELSE q1,
                      mypkt |-> IF whole THEN NoPkt ELSE pkt2,
                      pkts |-> IF whole THEN Append(in.pkts, pkt2.data) ELSE in.pkts],
              ret |-> (IF header THEN Hdr ELSE 0) + b]

(* One call of array2buffer. *)
Mut_StillPartial(out, b, pkt) == 0
StillPartial(out, b, pkt) == IF out.partial + b = Len(pkt) THEN 0 ELSE out.partial + b

array2buffer(out) ==
    LET new == out.partial = 0
        pkt == IF new THEN Head(out.pkts) ELSE out.mypkt
        b == Smaller(queue_available(out.queue), Len(pkt) - out.partial)
        left == StillPartial(out, b, pkt)
    IN  IF queue_available(out.queue) = 0 \/ (new /\ out.pkts = <<>>)
        THEN [out |-> out, ret |-> 0]
        ELSE [out |-> [pkts |-> IF new THEN Tail(out.pkts) ELSE out.pkts,
                       mypkt |-> IF left = 0 THEN NoPkt ELSE pkt,
                       partial |-> left,
                       queue |-> queue_w(out.queue, SubSeq(pkt, out.partial + 1, out.partial + b))],
              ret |-> b]

-----------------------------------------------------------------------------
Init ==
    /\ pc = "poll"
    /\ sent = <<>> /\ net = <<>> /\ hangup = FALSE
    /\ input = [queue |-> EmptyQueue, mypkt |-> NoPkt, pkts |-> <<>>]
    /\ output = [pkts |-> <<>>, mypkt |-> NoPkt, partial |-> 0, queue |-> EmptyQueue]
    /\ wire = <<>>
    /\ active = TRUE /\ backend = FALSE /\ polled = FALSE /\ pollout = FALSE

(* The sender. *)
Packet(n, l) == <<l>> \o [i \in 1 .. Hdr - 1 |-> 0] \o [i \in 1 .. l |-> n]

SenderSends ==
    /\ Len(sent) < MaxPkts /\ ~hangup
    /\ \E l \in Payloads :
          LET p == Packet(Len(sent) + 1, l)
          IN  sent' = Append(sent, p) /\ net' = net \o p
    /\ UNCHANGED <<pc, hangup, input, output, wire, active, backend, polled, pollout>>

SenderHangsUp ==
    /\ ~hangup /\ hangup' = TRUE
    /\ UNCHANGED <<pc, sent, net, input, output, wire, active, backend, polled, pollout>>

(* conn_poll and poll(): the receiver may be able to take something or not.   *)
Pending == queue_data(output.queue) > 0 \/ output.partial > 0 \/ output.pkts # <<>>

Poll(ready) ==
    /\ pc = "poll" /\ active
    /\ pc' = "read"
    /\ polled' = backend
    /\ pollout' = (backend /\ Pending /\ ready)
    /\ UNCHANGED <<sent, net, hangup, input, output, wire, active, backend>>

(* The session is closed: by check_fds_errors when poll() reports the hang-up *)
(* itself, or because read_from_net shut the client's stream before.          *)
Close ==
    /\ pc = "poll" /\ (hangup \/ ~active)
    /\ pc' = "closed" /\ active' = FALSE
    /\ UNCHANGED <<sent, net, hangup, input, output, wire, backend, polled, pollout>>

(* read_from_net: as many bytes as recv() gives; the end of the sender's data *)
(* shuts the stream, and this pass of the handler goes on.  The queue is      *)
(* polled only when it has room.                                              *)
ReadFromNet ==
    /\ pc = "read"
    /\ pc' = "write"
    /\ IF queue_available(input.queue) > 0 /\ net # <<>>
       THEN /\ \E r \in 1 .. Smaller(Len(net), queue_available(input.queue)) :
                  /\ input' = [input EXCEPT !.queue = queue_w(@, SubSeq(net, 1, r))]
                  /\ net' = SubSeq(net, r + 1, Len(net))
            /\ UNCHANGED active
       ELSE /\ active' = ~(hangup /\ queue_available(input.queue) > 0)
            /\ UNCHANGED <<input, net>>
    /\ UNCHANGED <<sent, hangup, output, wire, backend, polled, pollout>>

(* write_to_net: some of what is queued, or the send() fails; one that would  *)
(* block is such a failure.  A server's stream that is shut ends the session. *)
Written(next) ==
    /\ pc' = next
    /\ \E r \in 1 .. queue_data(output.queue) :
          /\ output' = [output EXCEPT !.queue = queue_r(@, r)]
          /\ wire' = wire \o SubSeq(output.queue.data, 1, r)
    /\ UNCHANGED <<sent, net, hangup, input, active, backend, polled, pollout>>

SendFails ==
    /\ pc' = "closed" /\ active' = FALSE
    /\ UNCHANGED <<sent, net, hangup, input, output, wire, backend, polled, pollout>>

WriteToNet(when, next) ==
    IF when /\ queue_data(output.queue) > 0
    THEN Written(next) \/ SendFails
    ELSE /\ pc' = next
         /\ UNCHANGED <<sent, net, hangup, input, output, wire, active, backend, polled, pollout>>

Write == pc = "write" /\ WriteToNet(pollout, "parse")

Buffer2Array ==
    /\ pc = "parse"
    /\ LET r == buffer2array(input)
       IN  /\ input' = r.in
           /\ pc' = IF r.ret > 0 THEN "parse" ELSE "process"
    /\ UNCHANGED <<sent, net, hangup, output, wire, active, backend, polled, pollout>>

(* process_client_pkts, with every packet for the same server. *)
ProcessPkts ==
    /\ pc = "process"
    /\ pc' = "fill"
    /\ output' = [output EXCEPT !.pkts = @ \o input.pkts]
    /\ input' = [input EXCEPT !.pkts = <<>>]
    /\ backend' = (backend \/ input.pkts # <<>>)
    /\ UNCHANGED <<sent, net, hangup, wire, active, polled, pollout>>

Array2Buffer ==
    /\ pc = "fill"
    /\ LET r == array2buffer(output)
       IN  /\ output' = r.out
           /\ pc' = IF r.ret > 0 THEN "fill" ELSE "flush"
    /\ UNCHANGED <<sent, net, hangup, input, wire, active, backend, polled, pollout>>

(* sync_net with write_only, unless the connection was not polled yet.        *)
Flush == pc = "flush" /\ WriteToNet(backend /\ polled, "poll")

Handler == (\E ready \in BOOLEAN : Poll(ready)) \/ Close \/ ReadFromNet \/ Write
           \/ Buffer2Array \/ ProcessPkts \/ Array2Buffer \/ Flush

Next == Handler \/ SenderSends \/ SenderHangsUp

(* The mysql thread goes on; a send() at the end of a pass takes bytes or     *)
(* fails, so nothing is asked of the receiver.                                *)
Spec == Init /\ [][Next]_vars /\ WF_vars(Handler)

-----------------------------------------------------------------------------
(* The bytes of some packets, one after the other. *)
Bytes(pkts) ==
    LET upto[i \in 0 .. Len(pkts)] == IF i = 0 THEN <<>> ELSE upto[i - 1] \o pkts[i]
    IN  upto[Len(pkts)]

(* The receiver gets the sender's bytes, all of them, in order, whatever the  *)
(* sizes of packets, buffers and reads: the two streams implement Relay.      *)
Abstract == INSTANCE Relay WITH sent <- Bytes(sent), got <- wire, broken <- pc = "closed"
BytesInOrder == Abstract!RelaySpec

(* The packets that wait in the two streams are packets as they were sent, in *)
(* their order: buffer2array cuts the bytes where the sender's packets end.   *)
WholePackets ==
    LET waiting == output.pkts \o input.pkts
    IN  \E i \in 0 .. Len(sent) - Len(waiting) :
           waiting = [j \in 1 .. Len(waiting) |-> sent[i + j]]

(* Every byte that is sent reaches the receiver, or the session ends: the     *)
(* input queue always has room when the session polls, as one that has none   *)
(* is not polled for input and would never be read again.  The sender sends   *)
(* MaxPkts packets at most, so the receiver can catch up.                     *)
AllDelivered == []<>(pc = "closed" \/ Len(wire) = Len(Bytes(sent)))
=============================================================================
