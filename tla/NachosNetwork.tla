----------------------------- MODULE NachosNetwork -----------------------------
(***************************************************************************)
(* The network device of machine/network.cc: several Nachos processes,     *)
(* each with a socket from which its Network polls one packet at a time.   *)
(* Packets may be lost by the device, as its reliability says; a process   *)
(* may start, die and start again, which unlinks its socket.  Who sends    *)
(* and receives (the post office) is not in this repository: a packet is   *)
(* sent whenever Send's ASSERT lets it, and received when the handler has  *)
(* told of one.  The sockets of machine/sysdep.cc deliver in order.        *)
(***************************************************************************)
EXTENDS Integers, Sequences

CONSTANTS
  Machine,      \* network addresses
  MaxPackets,   \* bound on the packets that each machine sends
  MaxBoots      \* bound on the starts of machines after the first

NoPacket == [to |-> 0, from |-> 0, length |-> 0, data |-> 0]

VARIABLES
  up,           \* the machines that run
  lossy,        \* machine -> TRUE if its reliability is less than one
  inHdr,        \* machine -> header and data of the packet it has read; length 0 if none
  sendBusy,     \* machine -> Network::sendBusy
  sending,      \* machine -> send interrupts that are pending
  socket,       \* machine -> packets in its socket
  received,     \* machine -> packets that Receive returned since it started
  carried,      \* machine -> packets that were put into its socket since it started
  sent, boots   \* packets sent by each machine; starts of machines

networkVars == <<up, lossy, inHdr, sendBusy, sending, socket, received, carried, sent, boots>>

-----------------------------------------------------------------------------
(* What the process of m had is gone with it; its socket too.               *)
Fresh(m) ==
  /\ inHdr' = [inHdr EXCEPT ![m] = NoPacket] /\ sendBusy' = [sendBusy EXCEPT ![m] = FALSE]
  /\ sending' = [sending EXCEPT ![m] = 0] /\ socket' = [socket EXCEPT ![m] = <<>>]
  /\ received' = [received EXCEPT ![m] = <<>>] /\ carried' = [carried EXCEPT ![m] = <<>>]

(* The destination must have a socket, or SendToSocket's ASSERT stops the   *)
(* sender; a packet that is lost is not put there.                          *)
Send(from, to) ==
  /\ from \in up /\ ~sendBusy[from] /\ sent[from] < MaxPackets
  /\ sent' = [sent EXCEPT ![from] = @ + 1]
  /\ LET packet == [to |-> to, from |-> from, length |-> 1, data |-> sent'[from]] IN
     \/ /\ lossy[from]
        /\ sending' = [sending EXCEPT ![from] = @ + 1]
        /\ UNCHANGED <<up, inHdr, sendBusy, socket, received, carried>>
     \/ /\ to \in up
        /\ sending' = [sending EXCEPT ![from] = @ + 1]
        /\ socket' = [socket EXCEPT ![to] = Append(@, packet)]
        /\ carried' = [carried EXCEPT ![to] = Append(@, packet)]
        /\ UNCHANGED <<up, inHdr, sendBusy, received>>
     \/ /\ to \notin up
        /\ up' = up \ {from} /\ Fresh(from)
  /\ UNCHANGED <<lossy, boots>>

SendDone(m) ==
  /\ m \in up /\ sending[m] > 0
  /\ sendBusy' = [sendBusy EXCEPT ![m] = FALSE]
  /\ sending' = [sending EXCEPT ![m] = @ - 1]
  /\ UNCHANGED <<up, lossy, inHdr, socket, received, carried, sent, boots>>

(* Faulty: a packet is read though the inbox is full.                       *)
FaultyInboxEmpty(m) == TRUE

InboxEmpty(m) == inHdr[m].length = 0

(* A packet is left in the socket while the one before it is in inbox.      *)
CheckPktAvail(m) ==
  /\ m \in up /\ InboxEmpty(m) /\ socket[m] # <<>>
  /\ inHdr' = [inHdr EXCEPT ![m] = Head(socket[m])]
  /\ socket' = [socket EXCEPT ![m] = Tail(@)]
  /\ UNCHANGED <<up, lossy, sendBusy, sending, received, carried, sent, boots>>

Receive(m) ==
  /\ m \in up /\ inHdr[m].length # 0
  /\ received' = [received EXCEPT ![m] = Append(@, inHdr[m])]
  /\ inHdr' = [inHdr EXCEPT ![m].length = 0]
  /\ UNCHANGED <<up, lossy, sendBusy, sending, socket, carried, sent, boots>>

(* Network::Network, in a new process.                                      *)
NetworkStart(m) ==
  /\ m \notin up /\ boots < MaxBoots /\ boots' = boots + 1
  /\ up' = up \cup {m} /\ Fresh(m)
  /\ UNCHANGED <<lossy, sent>>

(* Network::~Network, or the end of the process.                            *)
NetworkStop(m) ==
  /\ m \in up /\ up' = up \ {m} /\ Fresh(m)
  /\ UNCHANGED <<lossy, sent, boots>>

-----------------------------------------------------------------------------
NetworkInit ==
  /\ up = {} /\ lossy \in [Machine -> BOOLEAN]
  /\ inHdr = [m \in Machine |-> NoPacket]
  /\ sendBusy = [m \in Machine |-> FALSE] /\ sending = [m \in Machine |-> 0]
  /\ socket = [m \in Machine |-> <<>>] /\ received = [m \in Machine |-> <<>>]
  /\ carried = [m \in Machine |-> <<>>]
  /\ sent = [m \in Machine |-> 0] /\ boots = 0

NetworkIdle == NetworkInit /\ lossy = [m \in Machine |-> FALSE]

NetworkNext ==
  \E m \in Machine :
    \/ \E to \in Machine : Send(m, to)
    \/ SendDone(m) \/ CheckPktAvail(m) \/ Receive(m)
    \/ NetworkStart(m) \/ NetworkStop(m)

NetworkSpec == NetworkInit /\ [][NetworkNext]_networkVars

-----------------------------------------------------------------------------
(* Delivery is in order: what a machine has received, and what waits in its *)
(* inbox and its socket, are the packets that the network carried to it     *)
(* since it started, each once and in the order in which it was sent; none  *)
(* is overwritten in the inbox before it was received.                      *)
PacketsInOrder ==
  \A m \in up :
    LET held == IF inHdr[m].length = 0 THEN <<>> ELSE <<inHdr[m]>>
    IN  /\ received[m] \o held \o socket[m] = carried[m]
        /\ \A j, k \in DOMAIN carried[m] :
             j < k /\ carried[m][j].from = carried[m][k].from
               => carried[m][j].data < carried[m][k].data
=============================================================================
