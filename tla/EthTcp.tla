------------------------------- MODULE EthTcp -------------------------------
(***************************************************************************)
(* The TCP and telnet server of the Ethernet boot loader (tcp.c,           *)
(* telnet.c), its clients and the network between them.  The interrupt     *)
(* handles a received segment in one go; the main loop polls the sockets.  *)
(* Both call tcp_reply, and only tcp_tx masks the interrupt for it.        *)
(*                                                                         *)
(* Payloads are tokens, one sequence number each: "opt" (options), "hi"    *)
(* (the greeting, with the first prompt), "ans" (an answer and the next    *)
(* prompt), "echo", and from the client "do" (DO ECHO) and its commands.   *)
(* A retransmission timer, on either side, expires when nothing of the     *)
(* connection is on its way any more: a segment and its answer travel for  *)
(* less than the 500 ms of the timers.                                     *)
(***************************************************************************)
EXTENDS Integers, Sequences, FiniteSetsExt, SequencesExt, TLC

CONSTANTS
  Ports,       \* source ports: one connection of a client each
  Plans,       \* what may happen in a behaviour: what the client of each port
               \* sends (options at first, or none, then commands), bounds on
               \* the segments lost in each direction and on those duplicated,
               \* whether clients answer unexpected segments with RST
  NBuf,        \* TCP_TX_BUFFERS (256)
  MaxSockets   \* bound on the sockets that listen_socket makes

ASSUME EthTcpAssumption ==
  /\ Ports \subseteq Nat \ {0}
  /\ \A plan \in Plans :
       /\ DOMAIN plan.script \subseteq Ports
       /\ Range(plan.script) \subseteq [first : Seq({"do"}), cmds : Seq({"h", "x"})]
       /\ {plan.lost, plan.dup} \subseteq Nat /\ plan.resets \in BOOLEAN
  /\ {NBuf, MaxSockets} \subseteq Nat \ {0}

VARIABLES
  sock,    \* the chain of sockets from first_socket_g, each with its telnet_t
  main,    \* telnet_options in progress in the main loop
  client,  \* the clients, by port
  plan,    \* the plan of this behaviour
  up,      \* segments on the way to the server
  down,    \* segments on the way to the clients
  faults   \* history: segments lost and duplicated, resets sent

vars == <<sock, main, client, plan, up, down, faults>>

Idle == [at |-> "idle", s |-> 0, slot |-> 0]

NoFrame == [port |-> 0, seq |-> 0, ack |-> 0, syn |-> FALSE, fin |-> FALSE, data |-> <<>>]
NoSlot == [payload_valid |-> FALSE, ack_received |-> FALSE, ending_seq |-> 0, frame |-> NoFrame]

(* new_telnet                                                              *)
new_telnet ==
  [options_sent |-> FALSE, sent_opening_message |-> FALSE, echo_mode |-> FALSE,
   rxbuf |-> <<>>, txbuf |-> <<>>, said |-> <<>>, ran |-> <<>>]

(* new_socket, which listen_socket makes LISTENING; its telnet_t with it.  *)
new_socket ==
  [state |-> "LISTENING", tcp_buf |-> [i \in 0 .. NBuf - 1 |-> NoSlot], tcp_current_buf |-> 0,
   tcp_disconnect |-> FALSE, tcp_tx_seq |-> 0, tcp_rx_ack |-> 0, opened |-> FALSE,
   rx |-> [port |-> 0, seq |-> 0, len |-> 0, fin |-> FALSE]] @@ new_telnet

(* listen_telnet: one more socket at the end of the chain.                 *)
listen_telnet(chain) == Append(chain, new_socket)

-----------------------------------------------------------------------------
(* Each of these takes a socket and returns it with the segments it sends. *)
Out(s, frames) == [s |-> s, out |-> frames]

(* tcp_header: the sequence number moves on by the payload, the ack number *)
(* is worked out from whatever segment the socket received last.           *)
tcp_header(s, data, new) ==
  [port |-> s.rx.port, seq |-> s.tcp_tx_seq, syn |-> new, fin |-> s.tcp_disconnect, data |-> data,
   ack |-> s.rx.seq + (IF new \/ s.rx.fin THEN 1 ELSE s.rx.len)]

NextSlot(s) == [s EXCEPT !.tcp_current_buf = (@ + 1) % NBuf]

Fill(s, frame, valid, ending) ==
  [s EXCEPT !.tcp_buf[s.tcp_current_buf] =
     [payload_valid |-> valid, ack_received |-> FALSE, ending_seq |-> ending, frame |-> frame]]

(* Before tcp_open has stored the client's addresses, a segment is sent to *)
(* whatever the memory held, and reaches nobody.                           *)
Transmit(s, frame) == Out(NextSlot(s), IF s.opened THEN {frame} ELSE {})

tcp_open(s) ==
  LET frame == tcp_header(s, <<>>, TRUE)
  IN Transmit([Fill(s, frame, TRUE, s.tcp_tx_seq + 1) EXCEPT !.opened = TRUE], frame)

(* A bug: the slot is not made valid, nothing is sent again.               *)
tcp_reply_NoValid(s, data) ==
  LET frame == tcp_header(s, data, FALSE)
      ending == s.tcp_tx_seq + Len(data)
  IN Transmit([Fill(s, frame, FALSE, ending) EXCEPT !.tcp_tx_seq = ending,
                                                    !.said = @ \o data], frame)

tcp_reply(s, data) ==
  LET frame == tcp_header(s, data, FALSE)
      ending == s.tcp_tx_seq + Len(data)
  IN Transmit([Fill(s, frame, data # <<>>, ending) EXCEPT !.tcp_tx_seq = ending,
                                                          !.said = @ \o data], frame)

(* tcp_ack.  An ack that is not higher than the last one is taken for one  *)
(* that has wrapped around, and acknowledges all that ends behind it.      *)
AckValid(s, i, ack) ==
  LET ending == s.tcp_buf[i].ending_seq
  IN /\ s.tcp_buf[i].payload_valid
     /\ IF ack > s.tcp_rx_ack THEN ending > s.tcp_rx_ack /\ ending <= ack
        ELSE ending < s.tcp_rx_ack => ending <= ack

Ends(s, i, ack) == AckValid(s, i, ack) /\ s.tcp_buf[i].ending_seq = ack

tcp_ack(s, ack) ==
  [s EXCEPT !.tcp_rx_ack = ack,
            !.tcp_buf = [i \in DOMAIN @ |->
              IF AckValid(s, i, ack) /\ ~\E e \in 0 .. i - 1 : Ends(s, e, ack)
              THEN [@[i] EXCEPT !.ack_received = TRUE] ELSE @[i]]]

parse_telnet_payload(s, data) ==
  LET s1 == [s EXCEPT !.rxbuf = @ \o data]
  IN IF s.echo_mode THEN tcp_reply(s1, <<"echo">>) ELSE Out(s1, {})

parse_telnet_options(s, data) ==
  IF data = <<"do">> THEN Out([s EXCEPT !.echo_mode = TRUE], {})
  ELSE parse_telnet_payload(s, data)

(* tcp_response.  Every payload is acknowledged and taken, whatever its    *)
(* sequence number.                                                        *)
tcp_response(s, f) ==
  CASE f.kind = "rst" -> Out([s EXCEPT !.tcp_disconnect = TRUE], {})
    [] f.kind = "syn" /\ s.state = "LISTENING" ->
         LET r == tcp_open(s) IN Out([r.s EXCEPT !.state = "PENDING"], r.out)
    [] f.kind = "fin" /\ s.state = "LISTENING" -> tcp_reply(s, <<>>)
    [] f.kind # "rst" /\ s.state = "PENDING" ->
         Out([s EXCEPT !.tcp_tx_seq = @ + 1, !.state = "OPEN"], {})
    [] f.kind # "rst" /\ s.state = "OPEN" /\ f.data # <<>> ->
         LET r == tcp_reply(s, <<>>)
             t == parse_telnet_options(r.s, f.data)
         IN Out(t.s, r.out \cup t.out)
    [] OTHER -> Out(s, {})

(* A bug: the port of the client is not compared.                          *)
SocketFor_AnyPort(f) ==
  LET Match == {i \in DOMAIN sock : sock[i].state \in {"PENDING", "OPEN"}}
      Listen == {i \in DOMAIN sock : sock[i].state = "LISTENING"}
  IN IF Match # {} THEN {Min(Match)} ELSE IF Listen # {} THEN {Min(Listen)} ELSE {}

(* parse_tcp_packet: the first socket that is connected to the port, else  *)
(* the first one that listens.                                             *)
SocketFor(f) ==
  LET Match == {i \in DOMAIN sock : sock[i].state \in {"PENDING", "OPEN"} /\ sock[i].rx.port = f.port}
      Listen == {i \in DOMAIN sock : sock[i].state = "LISTENING"}
  IN IF Match # {} THEN {Min(Match)} ELSE IF Listen # {} THEN {Min(Listen)} ELSE {}

Put(i, r) == /\ sock' = [sock EXCEPT ![i] = r.s]
             /\ down' = down \cup r.out

Received(s, f) ==
  LET s1 == [s EXCEPT !.rx = [port |-> f.port, seq |-> f.seq, len |-> Len(f.data), fin |-> f.kind = "fin"]]
  IN IF f.kind \in {"syn", "rst"} THEN s1 ELSE tcp_ack(s1, f.ack)

parse_tcp_packet(f) ==
  \/ SocketFor(f) = {} /\ UNCHANGED <<sock, down>>
  \/ \E i \in SocketFor(f) : \E s \in {Received(sock[i], f)} : Put(i, tcp_response(s, f))

-----------------------------------------------------------------------------
(* The main loop, process_sockets: one socket after the other.             *)
InFlight(p) == \E f \in up \cup down : f.port = p

(* tcp_retransmit *)
Retransmit(i, k) ==
  LET slot == sock[i].tcp_buf[k]
  IN /\ main = Idle
     /\ slot.payload_valid /\ ~slot.ack_received
     /\ sock[i].opened /\ ~InFlight(sock[i].rx.port)
     /\ down' = down \cup {slot.frame}
     /\ UNCHANGED <<sock, main, client, plan, up, faults>>

telnet_disconnect(s) ==
  [s EXCEPT !.options_sent = FALSE, !.sent_opening_message = FALSE, !.echo_mode = FALSE]

(* The socket is closed before the reply, so that no interrupt touches it  *)
(* any more; the reply carries the FIN.                                    *)
tcp_disconnect(s) ==
  LET r == tcp_reply([s EXCEPT !.state = "CLOSED"], <<>>)
  IN Out([telnet_disconnect(r.s) EXCEPT !.tcp_disconnect = FALSE], r.out)

Disconnect(i) ==
  /\ main = Idle
  /\ sock[i].tcp_disconnect /\ sock[i].state = "OPEN"
  /\ Put(i, tcp_disconnect(sock[i]))
  /\ UNCHANGED <<main, client, plan, up, faults>>

Serves(i) == sock[i].state = "OPEN" /\ ~sock[i].tcp_disconnect

(* telnet_options calls tcp_reply with the interrupt on.  It copies the    *)
(* payload into the current slot, writes the header, and sends; a reply of *)
(* the interrupt in between takes the same slot and moves on to the next.  *)
OptionsCopy(i) ==
  /\ main = Idle /\ Serves(i) /\ ~sock[i].options_sent
  /\ sock' = [sock EXCEPT ![i] = Fill(@, [NoFrame EXCEPT !.data = <<"opt">>], TRUE, 0)]
  /\ main' = [at |-> "header", s |-> i, slot |-> sock[i].tcp_current_buf]
  /\ UNCHANGED <<client, plan, up, down, faults>>

OptionsHeader ==
  LET s == sock[main.s]
  IN /\ main.at = "header"
     /\ sock' = [sock EXCEPT ![main.s] =
          [s EXCEPT !.tcp_buf[main.slot].frame = tcp_header(s, <<"opt">>, FALSE),
                    !.tcp_buf[s.tcp_current_buf].ack_received = FALSE,
                    !.tcp_tx_seq = @ + 1, !.said = Append(@, "opt")]]
     /\ main' = [main EXCEPT !.at = "send"]
     /\ UNCHANGED <<client, plan, up, down, faults>>

(* The segment is as it should be only if it still has its own header.     *)
OptionsSend ==
  LET s == sock[main.s]
      frame == s.tcp_buf[main.slot].frame
  IN /\ main.at = "send"
     /\ sock' = [sock EXCEPT ![main.s] =
          [NextSlot(s) EXCEPT !.tcp_buf[s.tcp_current_buf].ending_seq = frame.seq + 1,
                              !.options_sent = TRUE]]
     /\ down' = IF frame.data = <<"opt">> THEN down \cup {frame} ELSE down
     /\ main' = Idle
     /\ UNCHANGED <<client, plan, up, faults>>

(* The greeting of process_telnet, and the socket for the next client.     *)
Greet(s) ==
  IF s.sent_opening_message THEN s
  ELSE [s EXCEPT !.sent_opening_message = TRUE, !.txbuf = Append(@, "hi")]

(* get_line returns all that has come since, as one line; parse_command    *)
(* looks at its first character only.                                      *)
parse_command(s) ==
  LET command == s.rxbuf[1]
  IN [s EXCEPT !.txbuf = IF command = "h" THEN Append(@, "ans") ELSE @,
               !.tcp_disconnect = (command = "x"),
               !.ran = Append(@, command),
               !.rxbuf = <<>>]

(* process_telnet up to telnet_tx, for a socket that has something to do.  *)
ProcessTelnet(i) ==
  LET s == sock[i]
      greets == ~s.sent_opening_message
      s1 == IF s.rxbuf = <<>> THEN Greet(s) ELSE parse_command(Greet(s))
      chain == [sock EXCEPT ![i] = s1]
  IN /\ main = Idle /\ Serves(i) /\ s.options_sent
     /\ greets \/ s.rxbuf # <<>>
     /\ greets => Len(sock) < MaxSockets
     /\ sock' = IF greets THEN listen_telnet(chain) ELSE chain
     /\ main' = [at |-> "tx", s |-> i, slot |-> 0]
     /\ UNCHANGED <<client, plan, up, down, faults>>

(* tcp_tx keeps the interrupt off during tcp_reply.                        *)
tcp_tx(s, data) == tcp_reply(s, data)

(* telnet_tx: every line there is goes into one segment.                   *)
TelnetTx ==
  LET s == sock[main.s]
  IN /\ main.at = "tx"
     /\ IF s.txbuf = <<>> THEN UNCHANGED <<sock, down>>
        ELSE Put(main.s, tcp_tx([s EXCEPT !.txbuf = <<>>], s.txbuf))
     /\ main' = Idle
     /\ UNCHANGED <<client, plan, up, faults>>

(* ethmac_interrupt, for a segment that has arrived.                       *)
Interrupt(f) ==
  /\ f \in up
  /\ parse_tcp_packet(f)
  /\ \/ up' = up \ {f} /\ UNCHANGED faults
     \/ faults.dup < plan.dup /\ faults' = [faults EXCEPT !.dup = @ + 1] /\ UNCHANGED up
  /\ UNCHANGED <<main, client, plan>>

-----------------------------------------------------------------------------
(* The clients: TCP as everybody else does it, one segment at a time, with *)
(* a user who waits for the prompt.  Segments out of order are dropped.    *)
Line(p) == plan.script[p].first \o plan.script[p].cmds
Prompts(p) == Len(SelectSeq(client[p].recv, LAMBDA t : t \in {"hi", "ans"}))

Segment(p, kind, seq, data) ==
  [port |-> p, kind |-> kind, seq |-> seq, ack |-> client[p].nxt, data |-> data]

Connect(p) ==
  /\ p \in DOMAIN plan.script /\ client[p].state = "closed"
  /\ client' = [client EXCEPT ![p].state = "syn"]
  /\ up' = up \cup {Segment(p, "syn", 0, <<>>)}
  /\ UNCHANGED <<sock, main, plan, down, faults>>

Type(p) ==
  LET c == client[p]
  IN /\ c.state = "open" /\ c.sent = c.acked /\ c.sent < Len(Line(p))
     /\ c.sent < Len(plan.script[p].first) \/ Prompts(p) > c.sent - Len(plan.script[p].first)
     /\ client' = [client EXCEPT ![p].sent = @ + 1]
     /\ up' = up \cup {Segment(p, "ack", c.sent + 1, <<Line(p)[c.sent + 1]>>)}
     /\ UNCHANGED <<sock, main, plan, down, faults>>

ClientTimeout(p) ==
  LET c == client[p]
  IN /\ ~InFlight(p)
     /\ \/ c.state = "syn" /\ up' = up \cup {Segment(p, "syn", 0, <<>>)}
        \/ c.state = "open" /\ c.sent > c.acked
           /\ up' = up \cup {Segment(p, "ack", c.sent, <<Line(p)[c.sent]>>)}
     /\ UNCHANGED <<sock, main, client, plan, down, faults>>

Take(c, f) ==
  LET inOrder == f.syn \/ f.seq = c.nxt
      end == f.seq + Len(f.data) + (IF f.syn THEN 1 ELSE 0) + (IF f.fin THEN 1 ELSE 0)
  IN [c EXCEPT !.state = IF f.fin /\ inOrder THEN "done" ELSE "open",
               !.nxt = IF inOrder THEN Max({@, end}) ELSE @,
               !.recv = IF inOrder THEN @ \o f.data ELSE @,
               !.acked = Max({@, Min({f.ack - 1, c.sent})})]

ClientReceive(f) ==
  LET p == f.port
      c == Take(client[p], f)
  IN /\ f \in down
     /\ down' = down \ {f}
     /\ \/ /\ client[p].state = "open" \/ (client[p].state = "syn" /\ f.syn)
           /\ client' = [client EXCEPT ![p] = c]
           /\ up' = IF f.data = <<>> /\ ~f.syn /\ ~f.fin THEN up
                    ELSE up \cup {[port |-> p, kind |-> IF c.state = "done" THEN "fin" ELSE "ack",
                                   seq |-> c.sent + 1, ack |-> c.nxt, data |-> <<>>]}
           /\ UNCHANGED faults
        \/ /\ client[p].state \in {"closed", "done"} \/ (client[p].state = "syn" /\ ~f.syn)
           /\ UNCHANGED client
           /\ IF plan.resets
              THEN up' = up \cup {Segment(p, "rst", f.ack, <<>>)} /\ faults' = [faults EXCEPT !.rst = TRUE]
              ELSE UNCHANGED <<up, faults>>
     /\ UNCHANGED <<sock, main, plan>>

LoseUp(f) ==
  /\ f \in up /\ faults.up < plan.lost
  /\ up' = up \ {f} /\ faults' = [faults EXCEPT !.up = @ + 1]
  /\ UNCHANGED <<sock, main, client, plan, down>>

LoseDown(f) ==
  /\ f \in down /\ faults.down < plan.lost
  /\ down' = down \ {f} /\ faults' = [faults EXCEPT !.down = @ + 1]
  /\ UNCHANGED <<sock, main, client, plan, up>>

-----------------------------------------------------------------------------
(* main has called listen_telnet once.                                     *)
Init ==
  /\ sock = <<new_socket>> /\ main = Idle
  /\ client = [p \in Ports |-> [state |-> "closed", nxt |-> 0, recv |-> <<>>, sent |-> 0, acked |-> 0]]
  /\ plan \in Plans
  /\ up = {} /\ down = {}
  /\ faults = [up |-> 0, down |-> 0, dup |-> 0, rst |-> FALSE]

PollSocket(i) == \/ \E k \in 0 .. NBuf - 1 : Retransmit(i, k)
                 \/ Disconnect(i) \/ OptionsCopy(i) \/ ProcessTelnet(i)

Next == \/ \E i \in DOMAIN sock : PollSocket(i)
        \/ OptionsHeader \/ OptionsSend \/ TelnetTx
        \/ \E f \in up : Interrupt(f) \/ LoseUp(f)
        \/ \E f \in down : ClientReceive(f) \/ LoseDown(f)
        \/ \E p \in Ports : Connect(p) \/ Type(p) \/ ClientTimeout(p)

Spec == Init /\ [][Next]_vars

(* The main loop comes round to every socket and the interrupt is not kept *)
(* off for ever; the network delivers; the clients go on and try again.    *)
FairSpec ==
  /\ Spec
  /\ \A i \in 1 .. MaxSockets : WF_vars(i \in DOMAIN sock /\ PollSocket(i))
  /\ WF_vars(OptionsHeader \/ OptionsSend \/ TelnetTx)
  /\ \A p \in Ports : /\ WF_vars(\E f \in up : f.port = p /\ Interrupt(f))
                      /\ WF_vars(\E f \in down : f.port = p /\ ClientReceive(f))
                       /\ WF_vars(Connect(p) \/ Type(p) \/ ClientTimeout(p))

-----------------------------------------------------------------------------
TypeOK ==
  /\ Len(sock) \in 1 .. MaxSockets
  /\ \A i \in DOMAIN sock :
       /\ sock[i].state \in {"CLOSED", "LISTENING", "PENDING", "OPEN"}
       /\ sock[i].tcp_current_buf \in 0 .. NBuf - 1
       /\ {sock[i].tcp_tx_seq, sock[i].tcp_rx_ack} \subseteq Nat
  /\ main.at \in {"idle", "header", "send", "tx"}
  /\ \A p \in Ports : client[p].state \in {"closed", "syn", "open", "done"}

Polite(p) == p \in DOMAIN plan.script /\ plan.script[p].first = <<>>

(* The socket of a client's connection.                                    *)
SocketOf(p) == {i \in DOMAIN sock : sock[i].opened /\ sock[i].rx.port = p}

(* Whatever is lost, repeated, reordered and sent again, and wherever the  *)
(* interrupt sends its acknowledgements between the lines of the main      *)
(* loop, what a client reads is a prefix of what the server said to it.    *)
OutputInOrder ==
  \A p \in Ports : client[p].recv # <<>> =>
    \E i \in SocketOf(p) : IsPrefix(client[p].recv, sock[i].said)

(* A command of a user who waits for the prompt runs once, and in its turn *)
(* - unless the acknowledgement of the server is lost or a segment comes   *)
(* twice: the server does not look at the sequence numbers it receives.    *)
RunsOnce ==
  faults.down = 0 /\ faults.dup = 0 =>
    \A p \in Ports : \A i \in SocketOf(p) :
      Polite(p) => IsPrefix(sock[i].ran, plan.script[p].cmds)

(* A command that the server has acknowledged to such a user has been run, *)
(* or waits in rxbuf to be.  It is not so of what a client sends before it *)
(* sees the prompt: the payload of a segment that arrives in PENDING is    *)
(* dropped, and acknowledged by the next segment of the server.  Nor after *)
(* a reset, which makes the server send a FIN that acknowledges a command  *)
(* overtaken by its client's ack.                                          *)
AckedWasTaken ==
  \A p \in Ports : Polite(p) /\ ~faults.rst /\ client[p].acked > 0 =>
    \E i \in SocketOf(p) : client[p].acked <= Len(sock[i].ran) + Len(sock[i].rxbuf)

(* While nobody sends a reset, there is always a socket that listens or    *)
(* that will make one that does.                                           *)
Available ==
  \/ faults.rst
  \/ \E i \in DOMAIN sock : \/ sock[i].state \in {"LISTENING", "PENDING"}
                            \/ sock[i].state = "OPEN" /\ ~sock[i].sent_opening_message
  \/ Len(sock) = MaxSockets

(* The four together: no session goes wrong, and the next one can begin.   *)
SessionsRight == OutputInOrder /\ RunsOnce /\ AckedWasTaken /\ Available

(* "Find the packets lower than or equal to seq and mark them as acked"    *)
(* (tcp.c:486): what is marked as acked, the client has received.          *)
AckedWasReceived ==
  \A p \in Ports : \A i \in SocketOf(p) : \A k \in 0 .. NBuf - 1 :
    LET slot == sock[i].tcp_buf[k]
    IN slot.payload_valid /\ slot.ack_received => client[p].nxt >= slot.ending_seq

(* Every user who waits for the prompts and quits, and whose connection    *)
(* loses no segment of the server and sees no reset, gets to the end of    *)
(* his session and is disconnected, though his own segments may be lost.   *)
Quits(p) == Polite(p) /\ plan.script[p].cmds # <<>> /\ Last(plan.script[p].cmds) = "x"

Served ==
  \A p \in Ports : Quits(p) =>
    <>(client[p].state = "done" \/ faults.down > 0 \/ faults.rst \/ faults.dup > 0)

-----------------------------------------------------------------------------
(* Instances for TLC.  Each behaviour follows one plan, so that the sum of *)
(* the cases is checked and not their product:                             *)
(*   losing     one user who asks for help and quits, while the network    *)
(*              loses a segment in each direction;                         *)
(*   options    a client that starts with DO ECHO, then quits;             *)
(*   repeating  one user, while the network delivers a segment twice;      *)
(*   crowd      a user who quits and one who only connects;                *)
(*   resetting  a client that answers unexpected segments with a reset.    *)
User(cmds) == [first |-> <<>>, cmds |-> cmds]

Losing == [script |-> 1 :> User(<<"h", "x">>), lost |-> 1, dup |-> 0, resets |-> FALSE]
Options == [script |-> 1 :> [first |-> <<"do">>, cmds |-> <<"x">>],
            lost |-> 0, dup |-> 0, resets |-> FALSE]
Repeating == [script |-> 1 :> User(<<"x">>), lost |-> 0, dup |-> 1, resets |-> FALSE]
Crowd == [script |-> 1 :> User(<<"x">>) @@ 2 :> User(<<>>),
          lost |-> 0, dup |-> 0, resets |-> FALSE]
Resetting == [script |-> 1 :> User(<<"x">>), lost |-> 0, dup |-> 0, resets |-> TRUE]

AllPlans == {Losing, Options, Repeating, Crowd, Resetting}
OptionsPlan == {Options}
TwoPorts == {1, 2}

=============================================================================
