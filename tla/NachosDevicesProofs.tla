------------------------- MODULE NachosDevicesProofs -------------------------
(***************************************************************************)
(* Proofs about the devices: that the network of NachosNetwork delivers in *)
(* order, each packet once, for any number of machines, packets, losses    *)
(* and restarts; and that NachosConsole puts one character at a time, for  *)
(* any threads, print calls and keys.  And that a request to the disk of   *)
(* NachosDisk completes when its sector has passed under the head, for any *)
(* geometry and any times.                                                 *)
(***************************************************************************)
EXTENDS NachosConsole, NachosDisk, NachosNetwork, NachosLists

-----------------------------------------------------------------------------
(* The network.                                                             *)
Packet == [to : Machine, from : Machine, length : {1}, data : Nat]

(* What the inbox holds.                                                    *)
Held(m) == IF inHdr[m].length = 0 THEN <<>> ELSE <<inHdr[m]>>

NetworkTypes ==
  /\ sent \in [Machine -> Nat]
  /\ socket \in [Machine -> Seq(Packet)] /\ received \in [Machine -> Seq(Packet)]
  /\ carried \in [Machine -> Seq(Packet)]
  /\ DOMAIN inHdr = Machine
  /\ \A m \in Machine : inHdr[m].length # 0 => inHdr[m] \in Packet

(* Nothing that the network carried to a machine is lost or reordered on    *)
(* the way to its post office, whether the machine runs or not.             *)
InOrder(m) == received[m] \o Held(m) \o socket[m] = carried[m]

(* The packets of one sender are numbered, up to what it has sent.          *)
Numbered(m) ==
  /\ \A k \in DOMAIN carried[m] : carried[m][k].data <= sent[carried[m][k].from]
  /\ \A j, k \in DOMAIN carried[m] :
       j < k /\ carried[m][j].from = carried[m][k].from
         => carried[m][j].data < carried[m][k].data

NInv == NetworkTypes /\ \A m \in Machine : InOrder(m) /\ Numbered(m)

(* A packet that arrives goes behind all others.                            *)
LEMMA ConcatAppend ==
  ASSUME NEW S, NEW q \in Seq(S), NEW w \in Seq(S), NEW x \in S
  PROVE  q \o Append(w, x) = Append(q \o w, x)
OBVIOUS

(* A packet goes from the socket to the inbox.                              *)
LEMMA ConcatHead ==
  ASSUME NEW S, NEW q \in Seq(S), NEW w \in Seq(S), w # <<>>
  PROVE  /\ Head(w) \in S /\ Tail(w) \in Seq(S)
         /\ q \o <<Head(w)>> \o Tail(w) = q \o <<>> \o w
<1>1. Head(w) \in S /\ Tail(w) \in Seq(S) /\ w = <<Head(w)>> \o Tail(w)
  OBVIOUS
<1>2. q \o <<Head(w)>> \o Tail(w) = q \o (<<Head(w)>> \o Tail(w)) /\ q \o <<>> = q
  BY <1>1
<1> QED BY <1>1, <1>2

(* A process that ends, or starts, leaves nothing in its socket.            *)
LEMMA FreshKeeps ==
  ASSUME NInv, NEW from \in Machine, Fresh(from), sent' \in [Machine -> Nat],
         \A m \in Machine : carried'[m] = carried[m] => Numbered(m)'
  PROVE  NInv'
<1>1. /\ inHdr' = [inHdr EXCEPT ![from] = NoPacket] /\ socket' = [socket EXCEPT ![from] = <<>>]
      /\ received' = [received EXCEPT ![from] = <<>>] /\ carried' = [carried EXCEPT ![from] = <<>>]
  BY DEF Fresh
<1>2. /\ inHdr'[from] = NoPacket /\ socket'[from] = <<>> /\ received'[from] = <<>>
      /\ carried'[from] = <<>>
      /\ \A m \in Machine : m # from => /\ inHdr'[m] = inHdr[m] /\ socket'[m] = socket[m]
                                        /\ received'[m] = received[m] /\ carried'[m] = carried[m]
  BY <1>1 DEF NInv, NetworkTypes
<1>3. <<>> \in Seq(Packet) /\ NoPacket.length = 0
  BY DEF NoPacket
<1>4. NetworkTypes'
  BY <1>1, <1>2, <1>3 DEF NInv, NetworkTypes
<1>5. InOrder(from)' /\ Numbered(from)'
  BY <1>2, <1>3 DEF InOrder, Held, Numbered
<1>6. \A m \in Machine : m # from => InOrder(m)'
  BY <1>2 DEF NInv, InOrder, Held
<1> QED BY <1>2, <1>4, <1>5, <1>6 DEF NInv

(* Whatever Send does with the packet.                                      *)
LEMMA SendKeeps ==
  ASSUME NInv, NEW from \in Machine, NEW to \in Machine, Send(from, to)
  PROVE  NInv'
<1> DEFINE packet == [to |-> to, from |-> from, length |-> 1, data |-> sent[from] + 1]
<1>1. /\ sent' = [sent EXCEPT ![from] = sent[from] + 1] /\ sent[from] \in Nat
      /\ sent'[from] = sent[from] + 1 /\ \A m \in Machine : m # from => sent'[m] = sent[m]
      /\ sent' \in [Machine -> Nat] /\ packet \in Packet
  BY DEF NInv, NetworkTypes, Send, Packet
<1>2. \A m \in Machine : \A k \in DOMAIN carried[m] :
        carried[m][k] \in Packet /\ carried[m][k].from \in Machine /\ carried[m][k].data \in Nat
        /\ sent[carried[m][k].from] \in Nat
  <2> SUFFICES ASSUME NEW m \in Machine, NEW k \in DOMAIN carried[m]
               PROVE  /\ carried[m][k] \in Packet /\ carried[m][k].from \in Machine
                      /\ carried[m][k].data \in Nat /\ sent[carried[m][k].from] \in Nat
    OBVIOUS
  <2>1. carried[m] \in Seq(Packet) /\ sent \in [Machine -> Nat]
    BY DEF NInv, NetworkTypes
  <2>2. carried[m][k] \in Packet
    BY <2>1
  <2>3. carried[m][k].from \in Machine /\ carried[m][k].data \in Nat
    BY <2>2 DEF Packet
  <2> QED BY <2>1, <2>2, <2>3
<1>3. \A m \in Machine : carried'[m] = carried[m] => Numbered(m)'
  BY <1>1, <1>2 DEF NInv, Numbered
<1>4. CASE UNCHANGED <<inHdr, socket, received, carried>>
  BY <1>1, <1>3, <1>4 DEF NInv, NetworkTypes, InOrder, Held
<1>5. CASE /\ socket' = [socket EXCEPT ![to] = Append(socket[to], packet)]
           /\ carried' = [carried EXCEPT ![to] = Append(carried[to], packet)]
           /\ UNCHANGED <<inHdr, received>>
  <2>1. /\ socket'[to] = Append(socket[to], packet) /\ carried'[to] = Append(carried[to], packet)
        /\ \A m \in Machine : m # to => socket'[m] = socket[m] /\ carried'[m] = carried[m]
        /\ socket[to] \in Seq(Packet) /\ carried[to] \in Seq(Packet)
    BY <1>5 DEF NInv, NetworkTypes
  <2>2. NetworkTypes'
    BY <1>1, <1>5, <2>1 DEF NInv, NetworkTypes
  <2>3. InOrder(to)'
    <3>1. received[to] \o Held(to) \in Seq(Packet)
      BY DEF NInv, NetworkTypes, Held
    <3>a. packet \in Packet /\ socket[to] \in Seq(Packet)
      BY <1>1, <2>1
    <3> HIDE DEF packet
    <3>b. \A q \in Seq(Packet), w \in Seq(Packet), x \in Packet :
            q \o Append(w, x) = Append(q \o w, x)
      BY ConcatAppend
    <3>2. received[to] \o Held(to) \o Append(socket[to], packet)
            = Append(received[to] \o Held(to) \o socket[to], packet)
      BY <3>1, <3>a, <3>b, Zenon
    <3> QED BY <1>5, <2>1, <3>2 DEF NInv, InOrder, Held
  <2>4. \A m \in Machine : m # to => InOrder(m)'
    BY <1>5, <2>1 DEF NInv, InOrder, Held
  <2>5. Numbered(to)'
    <3>1. /\ Len(carried'[to]) = Len(carried[to]) + 1 /\ DOMAIN carried[to] = 1 .. Len(carried[to])
          /\ DOMAIN carried'[to] = 1 .. Len(carried[to]) + 1 /\ Len(carried[to]) \in Nat
          /\ carried'[to][Len(carried[to]) + 1] = packet
          /\ \A k \in 1 .. Len(carried[to]) : carried'[to][k] = carried[to][k]
      BY <2>1
    <3>2. packet.from = from /\ packet.data = sent[from] + 1
      OBVIOUS
    <3> HIDE DEF packet
    <3>3. \A k \in DOMAIN carried'[to] : carried'[to][k].data <= sent'[carried'[to][k].from]
      <4> SUFFICES ASSUME NEW k \in DOMAIN carried'[to]
                   PROVE  carried'[to][k].data <= sent'[carried'[to][k].from]
        OBVIOUS
      <4>1. CASE k = Len(carried[to]) + 1
        BY <1>1, <3>1, <3>2, <4>1
      <4>2. CASE k \in 1 .. Len(carried[to])
        <5>1. carried'[to][k] = carried[to][k] /\ carried[to][k].data <= sent[carried[to][k].from]
          BY <3>1, <4>2 DEF NInv, Numbered
        <5>2. /\ carried[to][k].from \in Machine /\ carried[to][k].data \in Nat
              /\ sent[carried[to][k].from] \in Nat
          BY <1>2, <3>1, <4>2
        <5>3. sent'[carried[to][k].from] >= sent[carried[to][k].from]
          BY <1>1, <5>2
        <5>4. sent'[carried[to][k].from] \in Nat
          BY <1>1, <5>2
        <5> QED BY <5>1, <5>2, <5>3, <5>4
      <4> QED BY <3>1, <4>1, <4>2
    <3>4. ASSUME NEW j \in DOMAIN carried'[to], NEW k \in DOMAIN carried'[to], j < k,
                 carried'[to][j].from = carried'[to][k].from
          PROVE  carried'[to][j].data < carried'[to][k].data
      <4>1. CASE k = Len(carried[to]) + 1
        <5>1. j \in 1 .. Len(carried[to]) /\ carried'[to][j] = carried[to][j]
          BY <3>1, <3>4, <4>1
        <5>2. carried[to][j].from = from /\ carried'[to][k].data = sent[from] + 1
          BY <3>1, <3>2, <3>4, <4>1, <5>1
        <5>3. carried[to][j].data <= sent[from] /\ carried[to][j].data \in Nat
          BY <1>2, <3>1, <5>1, <5>2 DEF NInv, Numbered
        <5> QED BY <1>1, <5>1, <5>2, <5>3
      <4>2. CASE k \in 1 .. Len(carried[to])
        <5>1. j \in 1 .. Len(carried[to])
          BY <3>1, <3>4, <4>2
        <5> QED BY <3>1, <3>4, <4>2, <5>1 DEF NInv, Numbered
      <4> QED BY <3>1, <3>4, <4>1, <4>2
    <3> QED BY <3>3, <3>4 DEF Numbered
  <2> QED BY <1>3, <2>1, <2>2, <2>3, <2>4, <2>5 DEF NInv
<1>6. CASE Fresh(from)
  BY <1>1, <1>3, <1>6, FreshKeeps
<1> QED
  <2>1. sent'[from] = sent[from] + 1
    BY <1>1
  <2> QED BY <1>4, <1>5, <1>6, <2>1 DEF Send

(* The send interrupt: nothing is carried by it.                            *)
LEMMA SendDoneKeeps ==
  ASSUME NInv, NEW m \in Machine, SendDone(m)
  PROVE  NInv'
BY DEF SendDone, NInv, NetworkTypes, InOrder, Held, Numbered

(* The network poll: the head of the socket goes to the empty inbox.        *)
LEMMA CheckPktAvailKeeps ==
  ASSUME NInv, NEW m \in Machine, CheckPktAvail(m)
  PROVE  NInv'
<1>1. /\ inHdr' = [inHdr EXCEPT ![m] = Head(socket[m])]
      /\ socket' = [socket EXCEPT ![m] = Tail(socket[m])]
      /\ UNCHANGED <<received, carried, sent>> /\ inHdr[m].length = 0 /\ socket[m] # <<>>
  BY DEF CheckPktAvail, InboxEmpty
<1>2. /\ inHdr'[m] = Head(socket[m]) /\ socket'[m] = Tail(socket[m])
      /\ \A n \in Machine : n # m => inHdr'[n] = inHdr[n] /\ socket'[n] = socket[n]
      /\ socket[m] \in Seq(Packet) /\ received[m] \in Seq(Packet)
  BY <1>1 DEF NInv, NetworkTypes
<1>3. /\ Head(socket[m]) \in Packet /\ Tail(socket[m]) \in Seq(Packet)
      /\ received[m] \o <<Head(socket[m])>> \o Tail(socket[m]) = received[m] \o <<>> \o socket[m]
  <2>1. \A q \in Seq(Packet), w \in Seq(Packet) :
          w # <<>> => /\ Head(w) \in Packet /\ Tail(w) \in Seq(Packet)
                      /\ q \o <<Head(w)>> \o Tail(w) = q \o <<>> \o w
    BY ConcatHead
  <2> QED BY <1>1, <1>2, <2>1, Zenon
<1>4. inHdr'[m].length = 1
  BY <1>2, <1>3 DEF Packet
<1>5. NetworkTypes'
  BY <1>1, <1>2, <1>3 DEF NInv, NetworkTypes
<1>6. InOrder(m)'
  <2>1. Held(m) = <<>> /\ Held(m)' = <<Head(socket[m])>>
    BY <1>1, <1>2, <1>4 DEF Held
  <2>2. received[m] \o Held(m) \o socket[m] = carried[m]
    BY DEF NInv, InOrder
  <2> QED BY <1>1, <1>2, <1>3, <2>1, <2>2 DEF InOrder
<1>7. \A n \in Machine : n # m => InOrder(n)'
  BY <1>1, <1>2 DEF NInv, InOrder, Held
<1>8. \A n \in Machine : Numbered(n)'
  BY <1>1 DEF NInv, Numbered
<1> QED BY <1>5, <1>6, <1>7, <1>8 DEF NInv

(* The post office takes the packet out of the inbox.                       *)
LEMMA ReceiveKeeps ==
  ASSUME NInv, NEW m \in Machine, Receive(m)
  PROVE  NInv'
<1>1. /\ received' = [received EXCEPT ![m] = Append(received[m], inHdr[m])]
      /\ inHdr' = [inHdr EXCEPT ![m].length = 0]
      /\ UNCHANGED <<socket, carried, sent>> /\ inHdr[m].length # 0
  BY DEF Receive
<1>2. /\ received'[m] = Append(received[m], inHdr[m])
      /\ \A n \in Machine : n # m => inHdr'[n] = inHdr[n] /\ received'[n] = received[n]
      /\ received[m] \in Seq(Packet) /\ inHdr[m] \in Packet /\ DOMAIN inHdr' = Machine
      /\ socket[m] \in Seq(Packet)
  BY <1>1 DEF NInv, NetworkTypes
<1>3. inHdr'[m].length = 0
  <2>1. inHdr'[m] = [inHdr[m] EXCEPT !.length = 0]
    BY <1>1 DEF NInv, NetworkTypes
  <2> QED BY <1>2, <2>1 DEF Packet
<1>4. NetworkTypes'
  BY <1>1, <1>2, <1>3 DEF NInv, NetworkTypes
<1>5. InOrder(m)'
  <2>1. Held(m) = <<inHdr[m]>> /\ Held(m)' = <<>>
    BY <1>1, <1>3 DEF Held
  <2>2. Append(received[m], inHdr[m]) \o <<>> = received[m] \o <<inHdr[m]>>
    BY <1>2
  <2>3. received[m] \o Held(m) \o socket[m] = carried[m]
    BY DEF NInv, InOrder
  <2> QED BY <1>1, <1>2, <2>1, <2>2, <2>3 DEF InOrder
<1>6. ASSUME NEW n \in Machine, n # m PROVE InOrder(n)'
  <2>1. /\ inHdr'[n] = inHdr[n] /\ received'[n] = received[n] /\ socket' = socket
        /\ carried' = carried /\ InOrder(n)
    BY <1>1, <1>2, <1>6 DEF NInv
  <2>2. Held(n)' = Held(n)
    BY <2>1 DEF Held
  <2> QED BY <2>1, <2>2 DEF InOrder
<1>7. \A n \in Machine : Numbered(n)'
  BY <1>1 DEF NInv, Numbered
<1> QED BY <1>4, <1>5, <1>6, <1>7 DEF NInv

(* Network::Network and Network::~Network                                   *)
LEMMA StartStopKeeps ==
  ASSUME NInv, NEW m \in Machine, NetworkStart(m) \/ NetworkStop(m)
  PROVE  NInv'
<1>1. Fresh(m) /\ sent' = sent
  BY DEF NetworkStart, NetworkStop
<1>2. sent' \in [Machine -> Nat]
  BY <1>1 DEF NInv, NetworkTypes
<1>3. \A n \in Machine : carried'[n] = carried[n] => Numbered(n)'
  BY <1>1 DEF NInv, Numbered
<1> QED BY <1>1, <1>2, <1>3, FreshKeeps

(* NInv is an invariant of the network, whatever is lost and whoever        *)
(* starts, dies and starts again.                                           *)
THEOREM NetworkInvariant == NetworkSpec => []NInv
<1>1. NetworkInit => NInv
  <2> SUFFICES ASSUME NetworkInit PROVE NInv
    OBVIOUS
  <2>1. <<>> \in Seq(Packet) /\ NoPacket.length = 0
    BY DEF NoPacket
  <2>2. NetworkTypes
    BY <2>1 DEF NetworkInit, NetworkTypes
  <2>3. \A m \in Machine : InOrder(m) /\ Numbered(m)
    BY <2>1 DEF NetworkInit, InOrder, Held, Numbered
  <2> QED BY <2>2, <2>3 DEF NInv
<1>2. NInv /\ [NetworkNext]_networkVars => NInv'
  <2> SUFFICES ASSUME NInv, [NetworkNext]_networkVars PROVE NInv'
    OBVIOUS
  <2>1. ASSUME NetworkNext PROVE NInv'
    <3>1. PICK m \in Machine : \/ \E to \in Machine : Send(m, to)
                               \/ SendDone(m) \/ CheckPktAvail(m) \/ Receive(m)
                               \/ NetworkStart(m) \/ NetworkStop(m)
      BY <2>1 DEF NetworkNext
    <3>2. CASE \E to \in Machine : Send(m, to)
      BY <3>2, SendKeeps
    <3>3. CASE SendDone(m)
      BY <3>3, SendDoneKeeps
    <3>4. CASE CheckPktAvail(m)
      BY <3>4, CheckPktAvailKeeps
    <3>5. CASE Receive(m)
      BY <3>5, ReceiveKeeps
    <3>6. CASE NetworkStart(m) \/ NetworkStop(m)
      BY <3>6, StartStopKeeps
    <3> QED BY <3>1, <3>2, <3>3, <3>4, <3>5, <3>6
  <2>2. CASE UNCHANGED networkVars
    BY <2>2 DEF networkVars, NInv, NetworkTypes, InOrder, Held, Numbered
  <2> QED BY <2>1, <2>2
<1> QED BY <1>1, <1>2, PTL DEF NetworkSpec

(* Delivery is in order and each packet arrives once, as the interrupt      *)
(* handlers of machine/network.cc promise the post office: whatever is      *)
(* lost, and whatever processes start and die.                              *)
THEOREM DeliveredInOrder == NetworkSpec => []PacketsInOrder
<1>1. ASSUME NEW m \in Machine, NInv
      PROVE  /\ received[m] \o Held(m) \o socket[m] = carried[m]
             /\ \A j, k \in DOMAIN carried[m] :
                  j < k /\ carried[m][j].from = carried[m][k].from
                    => carried[m][j].data < carried[m][k].data
  BY <1>1 DEF NInv, InOrder, Numbered
<1>2. NetworkInit => up \subseteq Machine
  BY DEF NetworkInit
<1>3. up \subseteq Machine /\ [NetworkNext]_networkVars => (up \subseteq Machine)'
  BY DEF NetworkNext, networkVars, Send, SendDone, CheckPktAvail, Receive, NetworkStart, NetworkStop
<1>4. NInv /\ up \subseteq Machine => PacketsInOrder
  BY <1>1 DEF PacketsInOrder, Held
<1> QED BY <1>2, <1>3, <1>4, NetworkInvariant, PTL DEF NetworkSpec

-----------------------------------------------------------------------------
(* The console.                                                             *)

(* V takes the first waiting thread off the queue.                          *)
LEMMA HeadDistinct ==
  ASSUME NEW S, NEW q \in Seq(S), q # <<>>, Distinct(q)
  PROVE  /\ Head(q) \in ToSet(q) /\ Tail(q) \in Seq(S) /\ Distinct(Tail(q))
         /\ ToSet(Tail(q)) = ToSet(q) \ {Head(q)}
<1>1. Len(q) \in Nat /\ Len(q) >= 1 /\ DOMAIN q = 1 .. Len(q) /\ Head(q) = q[1]
      /\ Tail(q) = SubSeq(q, 1 + 1, Len(q)) /\ 1 \in 0 .. Len(q)
  OBVIOUS
<1>2. {q[i] : i \in 1 .. 1} = {Head(q)}
  BY <1>1
<1>3. /\ SubSeq(q, 1 + 1, Len(q)) \in Seq(S) /\ Distinct(SubSeq(q, 1 + 1, Len(q)))
      /\ ToSet(SubSeq(q, 1 + 1, Len(q))) = ToSet(q) \ {q[i] : i \in 1 .. 1}
  BY <1>1, DropDistinct
<1>4. Head(q) \in ToSet(q)
  BY <1>1 DEF ToSet
<1> QED BY <1>1, <1>2, <1>3, <1>4

(* Where the one permit of the print calls is: in the semaphore, with the   *)
(* thread that is about to put, or with the character on its way.           *)
InSemaphore == value["writeDone"] = 1 /\ putBusy = {} /\ \A t \in Thread : pc[t] # "put"
WithThread  == /\ value["writeDone"] = 0 /\ putBusy = {}
               /\ \E t \in Thread : pc[t] = "put" /\ \A u \in Thread : pc[u] = "put" => u = t
OnItsWay    == /\ value["writeDone"] = 0 /\ \A t \in Thread : pc[t] # "put"
               /\ \E c : putBusy = {c}

(* The queue of writeDone holds each sleeping thread once; no one waits for *)
(* the keyboard.                                                            *)
Printing ==
  /\ queue["readAvail"] = <<>>
  /\ queue["writeDone"] \in Seq(Thread) /\ Distinct(queue["writeDone"])
  /\ \A t \in ToSet(queue["writeDone"]) : pc[t] = "asleep"
  /\ InSemaphore \/ WithThread \/ OnItsWay

(* ConsoleTest is the only thread that runs: it sleeps on one semaphore at  *)
(* most, and its character is on its way only while it waits for it.        *)
Waiting == \/ pc[ConsoleTester] \in {"awaiting", "echo", "done"}
              /\ queue["readAvail"] = <<>> /\ queue["writeDone"] = <<>>
              /\ value["writeDone"] = 0 /\ putBusy = {}
           \/ pc[ConsoleTester] = "asleep"
              /\ queue["readAvail"] = <<ConsoleTester>> /\ queue["writeDone"] = <<>>
              /\ value["writeDone"] = 0 /\ putBusy = {}
Writing == /\ queue["readAvail"] = <<>>
           /\ \/ pc[ConsoleTester] = "writing" /\ queue["writeDone"] = <<>>
                 /\ value["writeDone"] = 1 /\ putBusy = {}
              \/ pc[ConsoleTester] = "writing" /\ queue["writeDone"] = <<>>
                 /\ value["writeDone"] = 0 /\ \E c : putBusy = {c}
              \/ pc[ConsoleTester] = "asleep" /\ queue["writeDone"] = <<ConsoleTester>>
                 /\ value["writeDone"] = 0 /\ \E c : putBusy = {c}
Echoing ==
  /\ \A t \in Thread \ {ConsoleTester} : pc[t] = "user"
  /\ Waiting \/ Writing

(* A machine started for something else leaves the console alone.           *)
Off == made = 0 /\ \A t \in ConsoleThread : pc[t] \in {"user", "awaiting"}

CInv ==
  /\ ~aborted /\ mode \in {"print", "echo", "off"}
  /\ DOMAIN value = Semaphore /\ DOMAIN queue = Semaphore /\ DOMAIN pc = ConsoleThread
  /\ mode = "print" => Printing
  /\ mode = "echo" => Echoing
  /\ mode = "off" => Off

(* Only the print calls bring a thread of a user program out of it.         *)
LEMMA PrintsOnly ==
  ASSUME CInv, NEW t \in Thread, pc[t] \in {"print", "faulted", "put"}
  PROVE  mode = "print"
<1>1. mode # "echo"
  <2>1. mode = "echo" /\ t # ConsoleTester => pc[t] = "user"
    BY DEF CInv, Echoing
  <2>2. mode = "echo" => pc[ConsoleTester] \in {"awaiting", "echo", "done", "asleep", "writing"}
    BY DEF CInv, Echoing, Waiting, Writing
  <2> QED BY <2>1, <2>2
<1>2. mode # "off"
  BY DEF CInv, Off, ConsoleThread
<1> QED BY <1>1, <1>2 DEF CInv

(* The exception makes a Console, gets the string in, or returns: none of   *)
(* these touches the permit.                                                *)
LEMMA CallKeeps ==
  ASSUME CInv, NEW t \in Thread,
         EnterPrint(t) \/ StringFaults(t) \/ PageArrives(t) \/ PrintReturns(t)
  PROVE  CInv'
<1>1. /\ UNCHANGED <<mode, putBusy, value, queue, aborted>>
      /\ pc[t] \in {"user", "print", "faulted"} /\ (pc[t] = "user" => mode = "print")
      /\ \E l \in {"print", "faulted", "user"} : pc' = [pc EXCEPT ![t] = l]
  BY DEF EnterPrint, StringFaults, PageArrives, PrintReturns
<1>2. t \in ConsoleThread /\ DOMAIN pc = ConsoleThread
  BY DEF ConsoleThread, CInv
<1>3. mode = "print"
  BY <1>1, PrintsOnly
<1>4. /\ DOMAIN pc' = ConsoleThread /\ pc'[t] \in {"print", "faulted", "user"}
      /\ \A u \in Thread : u # t => pc'[u] = pc[u]
  BY <1>1, <1>2
<1>5. t \notin ToSet(queue["writeDone"]) /\ ToSet(queue["writeDone"]) \subseteq Thread
  <2>1. queue["writeDone"] \in Seq(Thread)
    BY <1>3 DEF CInv, Printing
  <2> QED BY <1>1, <1>3, <2>1 DEF CInv, Printing, ToSet
<1>6. (InSemaphore \/ WithThread \/ OnItsWay)'
  <2>1. pc[t] # "put" /\ pc'[t] # "put"
    BY <1>1, <1>4
  <2>2. \A u \in Thread : pc'[u] = "put" <=> pc[u] = "put"
    BY <1>4, <2>1
  <2>3. /\ InSemaphore => InSemaphore'
        /\ WithThread => WithThread'
        /\ OnItsWay => OnItsWay'
    BY <1>1, <2>2 DEF InSemaphore, WithThread, OnItsWay
  <2> QED BY <1>3, <2>3 DEF CInv, Printing
<1>7. Printing'
  BY <1>1, <1>3, <1>4, <1>5, <1>6 DEF CInv, Printing
<1> QED BY <1>1, <1>3, <1>4, <1>7 DEF CInv

(* A thread takes the permit, or sleeps for it.                             *)
LEMMA PrintPKeeps ==
  ASSUME CInv, NEW t \in Thread, PrintP(t)
  PROVE  CInv'
<1>1. /\ UNCHANGED <<mode, putBusy, aborted>> /\ pc[t] = "print" /\ P(t, "writeDone", "put")
  BY DEF PrintP
<1>2. t \in ConsoleThread /\ DOMAIN pc = ConsoleThread
      /\ DOMAIN value = Semaphore /\ DOMAIN queue = Semaphore
      /\ "writeDone" \in Semaphore /\ "readAvail" \in Semaphore
  BY DEF ConsoleThread, CInv, Semaphore
<1>3. mode = "print"
  BY <1>1, PrintsOnly
<1>4. /\ queue["writeDone"] \in Seq(Thread) /\ ToSet(queue["writeDone"]) \subseteq Thread
      /\ t \notin ToSet(queue["writeDone"]) /\ Distinct(queue["writeDone"])
  BY <1>1, <1>3 DEF CInv, Printing, ToSet
<1>5. CASE value["writeDone"] > 0
  <2>1. /\ value' = [value EXCEPT !["writeDone"] = value["writeDone"] - 1]
        /\ pc' = [pc EXCEPT ![t] = "put"] /\ UNCHANGED queue
    BY <1>1, <1>5 DEF P
  <2>2. InSemaphore
    BY <1>3, <1>5 DEF CInv, Printing, WithThread, OnItsWay
  <2>3. /\ value'["writeDone"] = 0 /\ DOMAIN value' = Semaphore /\ DOMAIN pc' = ConsoleThread
        /\ pc'[t] = "put" /\ \A u \in Thread : u # t => pc'[u] = pc[u]
    BY <1>2, <2>1, <2>2 DEF InSemaphore
  <2>4. WithThread'
    BY <1>1, <2>2, <2>3 DEF InSemaphore, WithThread
  <2>5. Printing'
    BY <1>3, <1>4, <2>1, <2>3, <2>4 DEF CInv, Printing
  <2> QED BY <1>1, <1>2, <1>3, <2>1, <2>3, <2>5 DEF CInv
<1>6. CASE ~(value["writeDone"] > 0)
  <2>1. /\ queue' = [queue EXCEPT !["writeDone"] = Append(queue["writeDone"], t)]
        /\ pc' = [pc EXCEPT ![t] = "asleep"] /\ UNCHANGED value
    BY <1>1, <1>6 DEF P
  <2>2. /\ queue'["writeDone"] = Append(queue["writeDone"], t)
        /\ queue'["readAvail"] = queue["readAvail"] /\ DOMAIN queue' = Semaphore
        /\ DOMAIN pc' = ConsoleThread
        /\ pc'[t] = "asleep" /\ \A u \in Thread : u # t => pc'[u] = pc[u]
    BY <1>2, <2>1
  <2>3. /\ queue'["writeDone"] \in Seq(Thread) /\ Distinct(queue'["writeDone"])
        /\ ToSet(queue'["writeDone"]) = ToSet(queue["writeDone"]) \cup {t}
    BY <1>4, <2>2, AppendDistinct
  <2>4. (InSemaphore \/ WithThread \/ OnItsWay)'
    <3>1. pc[t] # "put" /\ pc'[t] # "put"
      BY <1>1, <2>2
    <3>2. \A u \in Thread : pc'[u] = "put" <=> pc[u] = "put"
      BY <2>2, <3>1
    <3>3. /\ InSemaphore => InSemaphore'
          /\ WithThread => WithThread'
          /\ OnItsWay => OnItsWay'
      BY <1>1, <2>1, <3>2 DEF InSemaphore, WithThread, OnItsWay
    <3> QED BY <1>3, <3>3 DEF CInv, Printing
  <2>5. \A u \in ToSet(queue'["writeDone"]) : pc'[u] = "asleep"
    BY <1>3, <1>4, <2>2, <2>3 DEF CInv, Printing
  <2>6. Printing'
    BY <1>3, <2>2, <2>3, <2>4, <2>5 DEF CInv, Printing
  <2> QED BY <1>1, <1>2, <1>3, <2>1, <2>2, <2>6 DEF CInv
<1> QED BY <1>5, <1>6

(* The thread that has the permit puts its character: no other is on its    *)
(* way, and the ASSERT of PutChar holds.                                    *)
LEMMA PrintPutKeeps ==
  ASSUME CInv, NEW t \in Thread, PrintPut(t)
  PROVE  CInv'
<1>1. /\ UNCHANGED <<mode, value, queue>> /\ pc[t] = "put"
      /\ pc' = [pc EXCEPT ![t] = "print"] /\ PutChar(t, Head(text[t]))
  BY DEF PrintPut
<1>2. t \in ConsoleThread /\ DOMAIN pc = ConsoleThread
  BY DEF ConsoleThread, CInv
<1>3. mode = "print"
  BY <1>1, PrintsOnly
<1>4. WithThread
  BY <1>1, <1>3 DEF CInv, Printing, InSemaphore, OnItsWay
<1>5. putBusy' = {console[t]} /\ aborted' = aborted
  BY <1>1, <1>4 DEF WithThread, PutChar
<1>6. /\ DOMAIN pc' = ConsoleThread /\ pc'[t] = "print"
      /\ \A u \in Thread : u # t => pc'[u] = pc[u]
  BY <1>1, <1>2
<1>7. OnItsWay'
  BY <1>1, <1>4, <1>5, <1>6 DEF WithThread, OnItsWay
<1>8. queue["writeDone"] \in Seq(Thread) /\ t \notin ToSet(queue["writeDone"])
      /\ ToSet(queue["writeDone"]) \subseteq Thread
  BY <1>1, <1>3 DEF CInv, Printing, ToSet
<1>9. Printing'
  BY <1>1, <1>3, <1>6, <1>7, <1>8 DEF CInv, Printing
<1> QED BY <1>1, <1>3, <1>5, <1>6, <1>9 DEF CInv

(* The write interrupt of a print: the permit is back in the semaphore, and *)
(* the first waiting thread will look for it.                               *)
LEMMA WriteDoneKeepsPrinting ==
  ASSUME CInv, mode = "print", NEW c, WriteDone(c)
  PROVE  CInv'
<1>1. /\ UNCHANGED <<mode, aborted>> /\ c \in putBusy /\ putBusy' = putBusy \ {c}
      /\ value' = [value EXCEPT !["writeDone"] = value["writeDone"] + 1]
      /\ queue' = [queue EXCEPT !["writeDone"] =
                     IF queue["writeDone"] = <<>> THEN queue["writeDone"] ELSE Tail(queue["writeDone"])]
      /\ pc' = IF queue["writeDone"] = <<>> THEN pc
               ELSE [pc EXCEPT ![Head(queue["writeDone"])] = "print"]
  BY DEF WriteDone, V, Before
<1>2. /\ DOMAIN value = Semaphore /\ DOMAIN queue = Semaphore /\ DOMAIN pc = ConsoleThread
      /\ "writeDone" \in Semaphore /\ "readAvail" \in Semaphore /\ Thread \subseteq ConsoleThread
  BY DEF ConsoleThread, CInv, Semaphore
<1>3. /\ OnItsWay /\ queue["writeDone"] \in Seq(Thread) /\ Distinct(queue["writeDone"])
      /\ \A t \in ToSet(queue["writeDone"]) : pc[t] = "asleep"
      /\ queue["readAvail"] = <<>>
  BY <1>1 DEF CInv, Printing, InSemaphore, WithThread
<1>4. ToSet(queue["writeDone"]) \subseteq Thread
  BY <1>3 DEF ToSet
<1>5. /\ value'["writeDone"] = 1 /\ putBusy' = {} /\ DOMAIN value' = Semaphore
      /\ DOMAIN queue' = Semaphore
      /\ queue'["readAvail"] = <<>>
  BY <1>1, <1>2, <1>3 DEF OnItsWay
<1>6. CASE queue["writeDone"] = <<>>
  <2>1. pc' = pc /\ queue'["writeDone"] = queue["writeDone"]
    BY <1>1, <1>2, <1>6
  <2>2. InSemaphore'
    BY <1>3, <1>5, <2>1 DEF InSemaphore, OnItsWay
  <2> QED BY <1>1, <1>2, <1>3, <1>5, <2>1, <2>2 DEF CInv, Printing
<1>7. CASE queue["writeDone"] # <<>>
  <2>1. /\ Head(queue["writeDone"]) \in ToSet(queue["writeDone"])
        /\ Tail(queue["writeDone"]) \in Seq(Thread) /\ Distinct(Tail(queue["writeDone"]))
        /\ ToSet(Tail(queue["writeDone"])) = ToSet(queue["writeDone"]) \ {Head(queue["writeDone"])}
    BY <1>3, <1>7, HeadDistinct
  <2>2. PICK h \in Thread : h = Head(queue["writeDone"])
    BY <1>4, <2>1
  <2>3. queue'["writeDone"] = Tail(queue["writeDone"]) /\ pc' = [pc EXCEPT ![h] = "print"]
    BY <1>1, <1>2, <1>7, <2>2
  <2>4. /\ pc'[h] = "print" /\ DOMAIN pc' = ConsoleThread
        /\ \A u \in Thread : u # h => pc'[u] = pc[u]
    BY <1>2, <2>2, <2>3
  <2>5. InSemaphore'
    BY <1>3, <1>5, <2>4 DEF InSemaphore, OnItsWay
  <2>6. \A u \in ToSet(queue'["writeDone"]) : pc'[u] = "asleep"
    BY <1>3, <1>4, <2>1, <2>2, <2>3, <2>4
  <2>7. Printing'
    BY <1>5, <2>1, <2>3, <2>5, <2>6 DEF Printing
  <2> QED BY <1>1, <1>2, <1>5, <2>4, <2>7 DEF CInv
<1> QED BY <1>6, <1>7

(* The keyboard interrupt does not wake a thread that prints.               *)
LEMMA CheckCharKeepsPrinting ==
  ASSUME CInv, mode = "print", NEW c, CheckCharAvail(c)
  PROVE  CInv'
<1>1. /\ UNCHANGED <<mode, aborted, putBusy>>
      /\ value' = [value EXCEPT !["readAvail"] = value["readAvail"] + 1]
      /\ queue' = [queue EXCEPT !["readAvail"] =
                     IF queue["readAvail"] = <<>> THEN queue["readAvail"] ELSE Tail(queue["readAvail"])]
      /\ pc' = IF queue["readAvail"] = <<>> THEN pc
               ELSE [pc EXCEPT ![Head(queue["readAvail"])] = Before("readAvail")]
  BY DEF CheckCharAvail, V
<1>2. /\ DOMAIN value = Semaphore /\ DOMAIN queue = Semaphore /\ queue["readAvail"] = <<>>
      /\ "writeDone" \in Semaphore /\ "readAvail" \in Semaphore
  BY DEF CInv, Semaphore, Printing
<1>3. /\ pc' = pc /\ value'["writeDone"] = value["writeDone"] /\ DOMAIN value' = Semaphore
      /\ queue'["writeDone"] = queue["writeDone"] /\ queue'["readAvail"] = <<>>
      /\ DOMAIN queue' = Semaphore
  BY <1>1, <1>2
<1>4. Printing'
  BY <1>1, <1>2, <1>3 DEF CInv, Printing, InSemaphore, WithThread, OnItsWay
<1> QED BY <1>1, <1>3, <1>4 DEF CInv

(* The interrupts while ConsoleTest runs.                                   *)
LEMMA WriteDoneKeepsEchoing ==
  ASSUME CInv, mode = "echo", NEW c, WriteDone(c)
  PROVE  CInv'
<1>1. /\ UNCHANGED <<mode, aborted>> /\ c \in putBusy /\ putBusy' = putBusy \ {c}
      /\ value' = [value EXCEPT !["writeDone"] = value["writeDone"] + 1]
      /\ queue' = [queue EXCEPT !["writeDone"] =
                     IF queue["writeDone"] = <<>> THEN queue["writeDone"] ELSE Tail(queue["writeDone"])]
      /\ pc' = IF queue["writeDone"] = <<>> THEN pc
               ELSE [pc EXCEPT ![Head(queue["writeDone"])] = "writing"]
  BY DEF WriteDone, V, Before
<1>2. /\ DOMAIN value = Semaphore /\ DOMAIN queue = Semaphore /\ DOMAIN pc = ConsoleThread
      /\ "writeDone" \in Semaphore /\ "readAvail" \in Semaphore /\ ConsoleTester \in ConsoleThread
      /\ \A t \in Thread \ {ConsoleTester} : pc[t] = "user"
  BY DEF ConsoleThread, CInv, Semaphore, Echoing
<1>3. /\ Writing /\ value["writeDone"] = 0 /\ \E d : putBusy = {d}
      /\ queue["readAvail"] = <<>>
      /\ \/ pc[ConsoleTester] = "writing" /\ queue["writeDone"] = <<>>
         \/ pc[ConsoleTester] = "asleep" /\ queue["writeDone"] = <<ConsoleTester>>
  BY <1>1 DEF CInv, Echoing, Waiting, Writing
<1>4. /\ value'["writeDone"] = 1 /\ putBusy' = {} /\ DOMAIN value' = Semaphore
      /\ DOMAIN queue' = Semaphore /\ queue'["readAvail"] = <<>> /\ queue'["writeDone"] = <<>>
  <2>1. putBusy' = {}
    BY <1>1, <1>3
  <2>2. queue["writeDone"] # <<>> => Tail(queue["writeDone"]) = <<>>
    <3>1. Tail(<<ConsoleTester>>) = <<>>
      OBVIOUS
    <3> QED BY <1>3, <3>1
  <2>3. queue'["writeDone"] = <<>>
    BY <1>1, <1>2, <2>2
  <2>4. queue'["readAvail"] = queue["readAvail"] /\ DOMAIN queue' = Semaphore
    BY <1>1, <1>2
  <2>5. value'["writeDone"] = 0 + 1 /\ DOMAIN value' = Semaphore
    BY <1>1, <1>2, <1>3
  <2> QED BY <1>3, <2>1, <2>3, <2>4, <2>5
<1>5. /\ pc'[ConsoleTester] = "writing" /\ DOMAIN pc' = ConsoleThread
      /\ \A t \in Thread \ {ConsoleTester} : pc'[t] = "user"
  <2>1. CASE queue["writeDone"] = <<>>
    BY <1>1, <1>2, <1>3, <2>1
  <2>2. CASE queue["writeDone"] = <<ConsoleTester>>
    <3>1. queue["writeDone"] # <<>> /\ Head(queue["writeDone"]) = ConsoleTester
      BY <2>2
    <3>2. pc' = [pc EXCEPT ![ConsoleTester] = "writing"]
      BY <1>1, <3>1
    <3> QED BY <1>2, <3>2 DEF ConsoleThread
  <2> QED BY <1>3, <2>1, <2>2
<1>6. Echoing'
  BY <1>4, <1>5 DEF Echoing, Writing
<1> QED BY <1>1, <1>4, <1>5, <1>6 DEF CInv

(* A key wakes ConsoleTest if it waits for one.                              *)
LEMMA CheckCharKeepsEchoing ==
  ASSUME CInv, mode = "echo", NEW c, CheckCharAvail(c)
  PROVE  CInv'
<1>1. /\ UNCHANGED <<mode, aborted, putBusy>>
      /\ value' = [value EXCEPT !["readAvail"] = value["readAvail"] + 1]
      /\ queue' = [queue EXCEPT !["readAvail"] =
                     IF queue["readAvail"] = <<>> THEN queue["readAvail"] ELSE Tail(queue["readAvail"])]
      /\ pc' = IF queue["readAvail"] = <<>> THEN pc
               ELSE [pc EXCEPT ![Head(queue["readAvail"])] = "awaiting"]
  BY DEF CheckCharAvail, V, Before
<1>2. /\ DOMAIN value = Semaphore /\ DOMAIN queue = Semaphore /\ DOMAIN pc = ConsoleThread
      /\ "writeDone" \in Semaphore /\ "readAvail" \in Semaphore /\ ConsoleTester \in ConsoleThread
      /\ \A t \in Thread \ {ConsoleTester} : pc[t] = "user"
  BY DEF ConsoleThread, CInv, Semaphore, Echoing
<1>3. /\ value'["writeDone"] = value["writeDone"] /\ DOMAIN value' = Semaphore
      /\ queue'["writeDone"] = queue["writeDone"] /\ DOMAIN queue' = Semaphore
  BY <1>1, <1>2
<1>4. CASE queue["readAvail"] = <<>>
  <2>1. pc' = pc /\ queue'["readAvail"] = <<>>
    BY <1>1, <1>2, <1>4
  <2>2. Echoing'
    BY <1>1, <1>3, <1>4, <2>1 DEF CInv, Echoing, Waiting, Writing
  <2> QED BY <1>1, <1>2, <1>3, <2>1, <2>2 DEF CInv
<1>5. CASE queue["readAvail"] # <<>>
  <2>1. /\ queue["readAvail"] = <<ConsoleTester>> /\ queue["writeDone"] = <<>>
        /\ value["writeDone"] = 0 /\ putBusy = {}
    BY <1>5 DEF CInv, Echoing, Waiting, Writing
  <2>2. Head(queue["readAvail"]) = ConsoleTester /\ Tail(queue["readAvail"]) = <<>>
    BY <2>1
  <2>3. pc' = [pc EXCEPT ![ConsoleTester] = "awaiting"] /\ queue'["readAvail"] = <<>>
    BY <1>1, <1>2, <1>5, <2>2
  <2>4. /\ pc'[ConsoleTester] = "awaiting" /\ DOMAIN pc' = ConsoleThread
        /\ \A t \in Thread \ {ConsoleTester} : pc'[t] = "user"
    BY <1>2, <2>3 DEF ConsoleThread
  <2>5. Echoing'
    BY <1>1, <1>3, <2>1, <2>3, <2>4 DEF Echoing, Waiting
  <2> QED BY <1>1, <1>3, <2>4, <2>5 DEF CInv
<1> QED BY <1>4, <1>5

(* ConsoleTest itself: it puts only when no character is on its way.        *)
LEMMA EchoKeeps ==
  ASSUME CInv, ConsoleStep
  PROVE  CInv'
<1>1. mode = "echo" /\ mode' = mode
  BY DEF ConsoleStep, EchoAwaits, EchoPuts, EchoWrites
<1>2. /\ DOMAIN value = Semaphore /\ DOMAIN queue = Semaphore /\ DOMAIN pc = ConsoleThread
      /\ "writeDone" \in Semaphore /\ "readAvail" \in Semaphore /\ ConsoleTester \in ConsoleThread
      /\ \A t \in Thread \ {ConsoleTester} : pc[t] = "user" /\ t \in ConsoleThread
      /\ Waiting \/ Writing
  BY <1>1 DEF ConsoleThread, CInv, Semaphore, Echoing
<1>3. ASSUME NEW l, pc' = [pc EXCEPT ![ConsoleTester] = l]
      PROVE  /\ pc'[ConsoleTester] = l /\ DOMAIN pc' = ConsoleThread
             /\ \A t \in Thread \ {ConsoleTester} : pc'[t] = "user"
  BY <1>2, <1>3
<1>4. CASE EchoAwaits
  <2>1. /\ pc[ConsoleTester] = "awaiting" /\ P(ConsoleTester, "readAvail", "echo")
        /\ UNCHANGED <<putBusy, aborted>>
    BY <1>4 DEF EchoAwaits
  <2>2. Waiting /\ queue["readAvail"] = <<>> /\ queue["writeDone"] = <<>>
        /\ value["writeDone"] = 0 /\ putBusy = {}
    BY <1>2, <2>1 DEF Waiting, Writing
  <2>3. CASE value["readAvail"] > 0
    <3>1. /\ value' = [value EXCEPT !["readAvail"] = value["readAvail"] - 1]
          /\ pc' = [pc EXCEPT ![ConsoleTester] = "echo"] /\ UNCHANGED queue
      BY <2>1, <2>3 DEF P
    <3>2. value'["writeDone"] = 0 /\ DOMAIN value' = Semaphore
      BY <1>2, <2>2, <3>1
    <3>3. Echoing'
      BY <1>3, <2>1, <2>2, <3>1, <3>2 DEF Echoing, Waiting
    <3> QED BY <1>1, <1>2, <1>3, <2>1, <3>1, <3>2, <3>3 DEF CInv
  <2>4. CASE ~(value["readAvail"] > 0)
    <3>1. /\ queue' = [queue EXCEPT !["readAvail"] = Append(queue["readAvail"], ConsoleTester)]
          /\ pc' = [pc EXCEPT ![ConsoleTester] = "asleep"] /\ UNCHANGED value
      BY <2>1, <2>4 DEF P
    <3>2. queue'["readAvail"] = <<ConsoleTester>> /\ queue'["writeDone"] = <<>>
          /\ DOMAIN queue' = Semaphore
      BY <1>2, <2>2, <3>1
    <3>3. Echoing'
      BY <1>3, <2>1, <2>2, <3>1, <3>2 DEF Echoing, Waiting
    <3> QED BY <1>1, <1>2, <1>3, <2>1, <3>1, <3>2, <3>3 DEF CInv
  <2> QED BY <2>3, <2>4
<1>5. CASE EchoPuts
  <2>1. /\ pc[ConsoleTester] = "echo" /\ pc' = [pc EXCEPT ![ConsoleTester] = "writing"]
        /\ UNCHANGED <<value, queue>> /\ \E ch : PutChar(ConsoleTester, ch)
    BY <1>5 DEF EchoPuts
  <2>2. queue["readAvail"] = <<>> /\ queue["writeDone"] = <<>>
        /\ value["writeDone"] = 0 /\ putBusy = {}
    BY <1>2, <2>1 DEF Waiting, Writing
  <2>3. putBusy' = {console[ConsoleTester]} /\ aborted' = aborted
    BY <2>1, <2>2 DEF PutChar
  <2>4. Echoing'
    BY <1>3, <2>1, <2>2, <2>3 DEF Echoing, Writing
  <2> QED BY <1>1, <1>2, <1>3, <2>1, <2>3, <2>4 DEF CInv
<1>6. CASE EchoWrites
  <2>1. /\ pc[ConsoleTester] = "writing" /\ UNCHANGED <<putBusy, aborted>>
        /\ \E l \in {"done", "awaiting"} : P(ConsoleTester, "writeDone", l)
    BY <1>6 DEF EchoWrites
  <2>2. /\ queue["readAvail"] = <<>> /\ queue["writeDone"] = <<>>
        /\ \/ value["writeDone"] = 1 /\ putBusy = {}
           \/ value["writeDone"] = 0 /\ \E c : putBusy = {c}
    BY <1>2, <2>1 DEF Waiting, Writing
  <2>3. PICK l \in {"done", "awaiting"} : P(ConsoleTester, "writeDone", l)
    BY <2>1
  <2>4. CASE value["writeDone"] = 1
    <3>1. /\ value' = [value EXCEPT !["writeDone"] = value["writeDone"] - 1]
          /\ pc' = [pc EXCEPT ![ConsoleTester] = l] /\ UNCHANGED queue
      BY <2>3, <2>4 DEF P
    <3>2. value'["writeDone"] = 0 /\ DOMAIN value' = Semaphore
      BY <1>2, <2>4, <3>1
    <3>4. putBusy' = {}
      BY <2>1, <2>2, <2>4
    <3>5. pc'[ConsoleTester] = l
      BY <1>3, <3>1
    <3>6. Waiting'
      BY <2>2, <3>1, <3>2, <3>4, <3>5 DEF Waiting
    <3>3. Echoing'
      BY <1>3, <3>1, <3>6 DEF Echoing
    <3> QED BY <1>1, <1>2, <1>3, <2>1, <3>1, <3>2, <3>3 DEF CInv
  <2>5. CASE value["writeDone"] = 0
    <3>1. /\ queue' = [queue EXCEPT !["writeDone"] = Append(queue["writeDone"], ConsoleTester)]
          /\ pc' = [pc EXCEPT ![ConsoleTester] = "asleep"] /\ UNCHANGED value
      BY <2>3, <2>5 DEF P
    <3>2. queue'["writeDone"] = <<ConsoleTester>> /\ queue'["readAvail"] = <<>>
          /\ DOMAIN queue' = Semaphore
      BY <1>2, <2>2, <3>1
    <3>4. \E c : putBusy' = {c}
      <4>1. value["writeDone"] # 1
        BY <2>5
      <4> QED BY <2>1, <2>2, <4>1
    <3>5. pc'[ConsoleTester] = "asleep" /\ value'["writeDone"] = 0
      BY <1>3, <2>5, <3>1
    <3>6. Writing'
      BY <3>2, <3>4, <3>5 DEF Writing
    <3>3. Echoing'
      BY <1>3, <3>1, <3>6 DEF Echoing
    <3> QED BY <1>1, <1>2, <1>3, <2>1, <3>1, <3>2, <3>3 DEF CInv
  <2> QED BY <2>2, <2>4, <2>5
<1> QED BY <1>4, <1>5, <1>6 DEF ConsoleStep

(* CInv is an invariant of the console, in every mode.                      *)
THEOREM ConsoleInvariant == ConsoleSpec => []CInv
<1>1. ConsoleInit \/ ConsoleIdle => CInv
  <2> SUFFICES ASSUME NEW m \in {"print", "echo", "off"}, ConsoleStart(m) PROVE CInv
    BY DEF ConsoleInit, ConsoleIdle
  <2>1. /\ mode = m /\ ~aborted /\ putBusy = {}
        /\ DOMAIN value = Semaphore /\ DOMAIN queue = Semaphore /\ DOMAIN pc = ConsoleThread
        /\ \A t \in ConsoleThread : pc[t] = IF t = ConsoleTester THEN "awaiting" ELSE "user"
        /\ Thread \subseteq ConsoleThread /\ ConsoleTester \in ConsoleThread
    BY DEF ConsoleStart, ConsoleThread
  <2>2. /\ queue["readAvail"] = <<>> /\ queue["writeDone"] = <<>>
        /\ value["writeDone"] = IF m = "print" THEN 1 ELSE 0
    BY DEF ConsoleStart, Semaphore
  <2>3. <<>> \in Seq(Thread) /\ Distinct(<<>>) /\ ToSet(<<>>) = {}
    BY DEF Distinct, ToSet
  <2>4. m = "print" => Printing
    BY <2>1, <2>2, <2>3 DEF Printing, InSemaphore
  <2>5. m = "echo" => Echoing
    BY <2>1, <2>2 DEF Echoing, Waiting
  <2>6. m = "off" => Off
    BY <2>1 DEF Off, ConsoleStart
  <2> QED BY <2>1, <2>4, <2>5, <2>6 DEF CInv
<1>2. CInv /\ [ConsoleNext]_consoleVars => CInv'
  <2> SUFFICES ASSUME CInv, [ConsoleNext]_consoleVars PROVE CInv'
    OBVIOUS
  <2>1. ASSUME NEW t \in Thread, PrintStep(t) PROVE CInv'
    BY <2>1, CallKeeps, PrintPKeeps, PrintPutKeeps DEF PrintStep
  <2>2. ASSUME NEW c \in 1 .. made, WriteDone(c) \/ CheckCharAvail(c) PROVE CInv'
    <3>1. mode # "off"
      BY <2>2 DEF CInv, Off
    <3> QED BY <2>2, <3>1, WriteDoneKeepsPrinting, WriteDoneKeepsEchoing, CheckCharKeepsPrinting,
               CheckCharKeepsEchoing DEF CInv
  <2>3. CASE UNCHANGED consoleVars
    BY <2>3 DEF consoleVars, CInv, Printing, InSemaphore, WithThread, OnItsWay, Echoing, Waiting,
                Writing, Off
  <2> QED BY <2>1, <2>2, <2>3, EchoKeeps DEF ConsoleNext
<1> QED BY <1>1, <1>2, PTL DEF ConsoleSpec

(* One character at a time is on its way to the display, whatever print     *)
(* calls are interleaved on whatever Consoles, and in ConsoleTest; so the   *)
(* ASSERT of PutChar (machine/console.cc) never fails.                      *)
THEOREM OneCharacterAtATime == ConsoleSpec => []OneCharOnItsWay
<1>1. CInv => OneCharOnItsWay
  <2> SUFFICES ASSUME CInv PROVE OneCharOnItsWay
    OBVIOUS
  <2> DEFINE Putting == {t \in Thread : pc[t] = "put"}
  <2>0. Cardinality({}) = 0 /\ \A x : Cardinality({x}) = 1
    BY FS_EmptySet, FS_Singleton
  <2>1. mode = "print" => value["writeDone"] + Cardinality(Putting) + Cardinality(putBusy) = 1
    <3> SUFFICES ASSUME mode = "print"
                 PROVE  value["writeDone"] + Cardinality(Putting) + Cardinality(putBusy) = 1
      OBVIOUS
    <3>1. CASE InSemaphore
      <4>1. Putting = {}
        BY <3>1 DEF InSemaphore
      <4> HIDE DEF Putting
      <4> QED BY <2>0, <3>1, <4>1 DEF InSemaphore
    <3>2. CASE WithThread
      <4>1. PICK t \in Thread : pc[t] = "put" /\ \A u \in Thread : pc[u] = "put" => u = t
        BY <3>2 DEF WithThread
      <4>2. Putting = {t}
        BY <4>1
      <4> HIDE DEF Putting
      <4> QED BY <2>0, <3>2, <4>2 DEF WithThread
    <3>3. CASE OnItsWay
      <4>1. Putting = {}
        BY <3>3 DEF OnItsWay
      <4> HIDE DEF Putting
      <4> QED BY <2>0, <3>3, <4>1 DEF OnItsWay
    <3> QED BY <3>1, <3>2, <3>3 DEF CInv, Printing
  <2>2. mode = "echo" =>
          value["writeDone"] + Cardinality(putBusy) = (IF pc[ConsoleTester] \in {"writing", "asleep"}
                                                          /\ queue["readAvail"] = <<>> THEN 1 ELSE 0)
    <3>1. CASE Waiting
      <4>1. ~(pc[ConsoleTester] \in {"writing", "asleep"} /\ queue["readAvail"] = <<>>)
        BY <3>1 DEF Waiting
      <4>2. value["writeDone"] = 0 /\ putBusy = {}
        BY <3>1 DEF Waiting
      <4> QED BY <2>0, <4>1, <4>2
    <3>2. CASE Writing
      <4>1. pc[ConsoleTester] \in {"writing", "asleep"} /\ queue["readAvail"] = <<>>
        BY <3>2 DEF Writing
      <4>2. \/ value["writeDone"] = 1 /\ putBusy = {}
            \/ value["writeDone"] = 0 /\ \E c : putBusy = {c}
        BY <3>2 DEF Writing
      <4>3. value["writeDone"] + Cardinality(putBusy) = 1
        <5>1. CASE value["writeDone"] = 1 /\ putBusy = {}
          <6>1. Cardinality(putBusy) = 0
            BY <2>0, <5>1
          <6> QED BY <5>1, <6>1
        <5>2. CASE value["writeDone"] = 0 /\ \E c : putBusy = {c}
          <6>1. PICK c : putBusy = {c}
            BY <5>2
          <6>2. Cardinality(putBusy) = 1
            BY <2>0, <6>1
          <6> QED BY <5>2, <6>2
        <5> QED BY <4>2, <5>1, <5>2
      <4> QED BY <4>1, <4>3
    <3> QED BY <3>1, <3>2 DEF CInv, Echoing
  <2> QED BY <2>1, <2>2 DEF OneCharOnItsWay, CInv
<1> QED BY <1>1, ConsoleInvariant, PTL

-----------------------------------------------------------------------------
(* What the print calls put.                                                *)

(* Division by the two bases of the numerals.                               *)
Base == {10, 16}
(* Division by a base, with its remainder: the quotient is smaller.         *)
LEMMA DivBase ==
  ASSUME NEW b \in Base, NEW n \in Nat
  PROVE  /\ n \div b \in Nat /\ n % b \in 0 .. b - 1 /\ (n # 0 => n \div b < n)
         /\ \E q \in Nat, r \in 0 .. b - 1 : q = n \div b /\ r = n % b /\ n = b * q + r
<1>1. b \in Nat \ {0} /\ n \in Int
  BY DEF Base
<1>2. PICK q \in Int, r \in 0 .. b - 1 : q = n \div b /\ r = n % b /\ n = b * q + r
  BY <1>1, DivMod
<1>3. q \in Nat /\ (n # 0 => q < n)
  <2>1. CASE b = 10
    BY <1>2, <2>1
  <2>2. CASE b = 16
    BY <1>2, <2>2
  <2> QED BY <2>1, <2>2 DEF Base
<1> QED BY <1>2, <1>3, Zenon

Divided(b) == [n \in Nat |-> n \div b]

(* Recursion on a number without its last digit goes down.                  *)
LEMMA DividedLower ==
  ASSUME NEW b \in Base
  PROVE  Divided(b) \in [Nat -> Nat] /\ Lower(Divided(b))
<1>1. Divided(b) \in [Nat -> Nat]
  BY DivBase DEF Divided
<1>2. ASSUME NEW n \in Nat \ {0} PROVE Divided(b)[n] < n
  BY DivBase DEF Divided
<1> QED BY <1>1, <1>2 DEF Lower

(* The functions of the model that go down by a digit are what their        *)
(* definitions say.                                                         *)
LEMMA ReversedIs ==
  ASSUME NEW b \in Base
  PROVE  /\ Reversed(b) \in [Nat -> Seq(Int)] /\ Reversed(b)[0] = <<>>
         /\ \A n \in Nat \ {0} : Reversed(b)[n] = <<HexDigit(n % b)>> \o Reversed(b)[n \div b]
<1> DEFINE G == [n \in Nat |-> [q \in Seq(Int) |-> <<HexDigit(n % b)>> \o q]]
           Def(d) == d = [k \in Nat |-> IF k = 0 THEN <<>>
                                      ELSE <<HexDigit(k % b)>> \o d[k \div b]]
<1>1. \A n \in Nat : HexDigit(n % b) \in Int
  <2> TAKE n \in Nat
  <2>1. n % b \in Int
    BY DivBase
  <2> QED BY <2>1 DEF HexDigit, Zero
<1>2. G \in [Nat -> [Seq(Int) -> Seq(Int)]]
  BY <1>1
<1>3. \E f \in [Nat -> Seq(Int)] : Recurs(f, <<>>, Divided(b), G)
  <2>1. <<>> \in Seq(Int)
    OBVIOUS
  <2> HIDE DEF G
  <2> QED BY <1>2, <2>1, DividedLower, RecursionExists
<1>4. PICK f \in [Nat -> Seq(Int)] : Recurs(f, <<>>, Divided(b), G)
  BY <1>3
<1>5. ASSUME NEW n \in Nat PROVE f[n] = IF n = 0 THEN <<>> ELSE <<HexDigit(n % b)>> \o f[n \div b]
  <2>1. f[n] = IF n = 0 THEN <<>> ELSE G[n][f[n \div b]]
    <3> HIDE DEF G
    <3> QED BY <1>4 DEF Recurs, Divided
  <2>2. f[n \div b] \in Seq(Int)
    BY DivBase
  <2> QED BY <2>1, <2>2
<1>6. Def(f)
  <2>1. f = [n \in Nat |-> f[n]]
    OBVIOUS
  <2>2. [n \in Nat |-> f[n]]
          = [n \in Nat |-> IF n = 0 THEN <<>> ELSE <<HexDigit(n % b)>> \o f[n \div b]]
    BY <1>5
  <2> QED BY <2>1, <2>2
<1>7. Def(Reversed(b))
  <2>1. Reversed(b) = CHOOSE d : Def(d)
    BY DEF Reversed
  <2> HIDE DEF Def
  <2> QED BY <1>6, <2>1
<1> DEFINE r == Reversed(b)
<1>8. \A n \in Nat : r[n] = IF n = 0 THEN <<>> ELSE <<HexDigit(n % b)>> \o r[n \div b]
  <2>1. r = [k \in Nat |-> IF k = 0 THEN <<>> ELSE <<HexDigit(k % b)>> \o r[k \div b]]
    BY <1>7
  <2> HIDE DEF r
  <2> QED BY <2>1
<1>9. \A n \in Nat : r[n] \in Seq(Int)
  <2> HIDE DEF r
  <2> DEFINE S == {n \in Nat : r[n] \notin Seq(Int)}
  <2> SUFFICES ASSUME S # {} PROVE FALSE
    OBVIOUS
  <2>1. PICK n \in S : \A k \in S : n <= k
    <3>1. S \in SUBSET Nat
      OBVIOUS
    <3> HIDE DEF S
    <3> QED BY <3>1, MinExists
  <2>5. n \in Nat /\ r[n] \notin Seq(Int)
    BY <2>1
  <2>2. n # 0
    <3>1. r[0] = <<>> /\ <<>> \in Seq(Int)
      <4>1. 0 \in Nat /\ <<>> \in Seq(Int)
        OBVIOUS
      <4> QED BY <1>8, <4>1
    <3> QED BY <2>5, <3>1
  <2>3. r[n \div b] \in Seq(Int)
    <3>1. n \div b \in Nat /\ ~(n <= n \div b)
      <4>1. n \div b \in Nat /\ n \div b < n
        BY <2>2, <2>5, DivBase
      <4> QED BY <2>5, <4>1
    <3> QED BY <2>1, <3>1
  <2>4. r[n] \in Seq(Int)
    <3>1. r[n] = <<HexDigit(n % b)>> \o r[n \div b]
      BY <1>8, <2>2, <2>5
    <3>2. HexDigit(n % b) \in Int
      BY <1>1, <2>5
    <3> QED BY <2>3, <3>1, <3>2
  <2> QED BY <2>4, <2>5
<1>10. r = [k \in Nat |-> IF k = 0 THEN <<>> ELSE <<HexDigit(k % b)>> \o r[k \div b]]
  BY <1>7
<1>11. r \in [Nat -> Seq(Int)]
  <2>1. DOMAIN r = Nat /\ r = [k \in Nat |-> r[k]]
    <3> HIDE DEF r
    <3>1. DOMAIN r
            = DOMAIN [k \in Nat |-> IF k = 0 THEN <<>> ELSE <<HexDigit(k % b)>> \o r[k \div b]]
      BY <1>10
    <3>2. DOMAIN r = Nat
      BY <3>1
    <3>3. r = [k \in Nat |-> r[k]]
      BY <1>8, <1>10
    <3> QED BY <3>2, <3>3
  <2> HIDE DEF r
  <2> QED BY <1>9, <2>1
<1> QED BY <1>8, <1>11

(* An int that is not too large is what it is.                              *)
LEMMA AsIntIs ==
  ASSUME NEW n \in Int
  PROVE  AsInt(n) \in Int /\ (n \in 0 .. MaxInt => AsInt(n) = n)
<1>1. PICK m \in Nat \ {0} : m = Ints /\ MaxInt \in Nat /\ MaxInt < m
  BY ConsoleAssumption DEF Ints
<1>2. n % m \in Int
  BY <1>1, DivMod
<1>3. n \in 0 .. MaxInt => n % m = n
  <2> SUFFICES ASSUME n \in 0 .. MaxInt PROVE n % m = n
    OBVIOUS
  <2>1. n \in 0 .. m - 1
    BY <1>1
  <2>2. (m * 0 + n) % m = n
    BY <1>1, <2>1, Remainder
  <2>3. m * 0 + n = n
    BY <1>1
  <2> QED BY <2>2, <2>3
<1>4. m - m \in Int
  BY <1>1
<1> QED BY <1>1, <1>2, <1>3 DEF AsInt

(* So is a character.                                                       *)
LEMMA AsCharIs ==
  ASSUME NEW n \in Nat
  PROVE  AsChar(n) \in Int /\ (n < 256 => AsChar(n) = n)
BY DEF AsChar

(* ConvertIntToHex appends the last digit to those before it.               *)
LEMMA ConvertIntToHexIs ==
  \A n \in Nat : ConvertIntToHex[n] = IF n = 0 THEN <<>>
                                      ELSE Append(ConvertIntToHex[n \div 16], HexDigit(n % 16))
<1> DEFINE G == [n \in Nat |-> [q \in Seq(Int) |-> Append(q, HexDigit(n % 16))]]
           Def(d) == d = [n \in Nat |-> IF n = 0 THEN <<>>
                                      ELSE Append(d[n \div 16], HexDigit(n % 16))]
<1>0. 16 \in Base
  BY DEF Base
<1>1. \A n \in Nat : HexDigit(n % 16) \in Int
  BY DEF HexDigit, Zero
<1>2. G \in [Nat -> [Seq(Int) -> Seq(Int)]]
  BY <1>1
<1>3. \E f \in [Nat -> Seq(Int)] : Recurs(f, <<>>, Divided(16), G)
  <2>1. <<>> \in Seq(Int)
    OBVIOUS
  <2> HIDE DEF G
  <2> QED BY <1>0, <1>2, <2>1, DividedLower, RecursionExists
<1>4. PICK f \in [Nat -> Seq(Int)] : Recurs(f, <<>>, Divided(16), G)
  BY <1>3
<1>5. ASSUME NEW n \in Nat
      PROVE  f[n] = IF n = 0 THEN <<>> ELSE Append(f[n \div 16], HexDigit(n % 16))
  <2>1. f[n] = IF n = 0 THEN <<>> ELSE G[n][f[n \div 16]]
    <3> HIDE DEF G
    <3> QED BY <1>4 DEF Recurs, Divided
  <2>2. f[n \div 16] \in Seq(Int)
    BY <1>0, DivBase
  <2> QED BY <2>1, <2>2
<1>6. Def(f)
  <2>1. f = [n \in Nat |-> f[n]]
    OBVIOUS
  <2>2. [n \in Nat |-> f[n]]
          = [n \in Nat |-> IF n = 0 THEN <<>> ELSE Append(f[n \div 16], HexDigit(n % 16))]
    BY <1>5
  <2> QED BY <2>1, <2>2
<1>7. Def(ConvertIntToHex)
  <2>1. ConvertIntToHex = CHOOSE d : Def(d)
    BY DEF ConvertIntToHex
  <2> HIDE DEF Def
  <2> QED BY <1>6, <2>1
<1>8. PICK r : r = ConvertIntToHex /\ Def(r)
  BY <1>7
<1>9. \A n \in Nat : r[n] = IF n = 0 THEN <<>> ELSE Append(r[n \div 16], HexDigit(n % 16))
  BY <1>8
<1> QED BY <1>8, <1>9

(* The loop of PrintInt that multiplies exp by ten.                         *)
LEMMA PowerAboveIs ==
  \A n \in Nat : PowerAbove[n] = IF n = 0 THEN 1 ELSE AsInt(10 * PowerAbove[n \div 10])
<1> DEFINE G == [n \in Nat |-> [x \in Int |-> AsInt(10 * x)]]
           Def(d) == d = [n \in Nat |-> IF n = 0 THEN 1 ELSE AsInt(10 * d[n \div 10])]
<1>0. 10 \in Base
  BY DEF Base
<1>2. G \in [Nat -> [Int -> Int]]
  <2>1. \A x \in Int : 10 * x \in Int
    OBVIOUS
  <2>2. \A x \in Int : AsInt(10 * x) \in Int
    BY <2>1, AsIntIs
  <2> QED BY <2>2
<1>3. \E f \in [Nat -> Int] : Recurs(f, 1, Divided(10), G)
  <2>1. 1 \in Int
    OBVIOUS
  <2> HIDE DEF G
  <2> QED BY <1>0, <1>2, <2>1, DividedLower, RecursionExists
<1>4. PICK f \in [Nat -> Int] : Recurs(f, 1, Divided(10), G)
  BY <1>3
<1>5. ASSUME NEW n \in Nat PROVE f[n] = IF n = 0 THEN 1 ELSE AsInt(10 * f[n \div 10])
  <2>1. f[n] = IF n = 0 THEN 1 ELSE G[n][f[n \div 10]]
    <3> HIDE DEF G
    <3> QED BY <1>4 DEF Recurs, Divided
  <2>2. f[n \div 10] \in Int
    BY <1>0, DivBase
  <2> QED BY <2>1, <2>2
<1>6. Def(f)
  <2>1. f = [n \in Nat |-> f[n]]
    OBVIOUS
  <2>2. [n \in Nat |-> f[n]] = [n \in Nat |-> IF n = 0 THEN 1 ELSE AsInt(10 * f[n \div 10])]
    BY <1>5
  <2> QED BY <2>1, <2>2
<1>7. Def(PowerAbove)
  <2>1. PowerAbove = CHOOSE d : Def(d)
    BY DEF PowerAbove
  <2> HIDE DEF Def
  <2> QED BY <1>6, <2>1
<1>8. PICK r : r = PowerAbove /\ Def(r)
  BY <1>7
<1>9. \A n \in Nat : r[n] = IF n = 0 THEN 1 ELSE AsInt(10 * r[n \div 10])
  BY <1>8
<1> QED BY <1>8, <1>9

(* The loop of PrintInt that puts the digits.                               *)
LEMMA DigitsFromIs ==
  \A e, v \in Nat : DigitsFrom[e][v] =
    IF e = 0 THEN <<>> ELSE <<AsChar(Zero + v \div e)>> \o DigitsFrom[e \div 10][v % e]
<1> DEFINE X == [Nat -> Seq(Int)]
           none == [v \in Nat |-> <<>>]
           G == [e \in Nat |-> [q \in X |-> [v \in Nat |-> 
                   IF e = 0 THEN <<>> ELSE <<AsChar(Zero + v \div e)>> \o q[v % e]]]]
           Body(d, e) == [v \in Nat |-> IF e = 0 THEN <<>>
                                        ELSE <<AsChar(Zero + v \div e)>> \o d[e \div 10][v % e]]
           Def(d) == d = [e \in Nat |-> Body(d, e)]
<1>0. 10 \in Base
  BY DEF Base
<1>1. \A e \in Nat \ {0}, v \in Nat : AsChar(Zero + v \div e) \in Int /\ v % e \in Nat
  <2> SUFFICES ASSUME NEW e \in Nat \ {0}, NEW v \in Nat
               PROVE  AsChar(Zero + v \div e) \in Int /\ v % e \in Nat
    OBVIOUS
  <2>1. v \div e \in Nat /\ v % e \in Nat
    <3>1. v \div e \in Nat
      OBVIOUS
    <3>2. v % e \in 0 .. e - 1
      BY DivMod
    <3> QED BY <3>1, <3>2
  <2>2. PICK q \in Nat : q = v \div e
    BY <2>1
  <2>3. Zero + q \in Nat
    BY DEF Zero
  <2> QED BY <2>1, <2>2, <2>3, AsCharIs
<1>2. G \in [Nat -> [X -> X]]
  <2> SUFFICES ASSUME NEW e \in Nat, NEW q \in X, NEW v \in Nat
               PROVE  (IF e = 0 THEN <<>> ELSE <<AsChar(Zero + v \div e)>> \o q[v % e]) \in Seq(Int)
    OBVIOUS
  <2>1. CASE e = 0
    BY <2>1
  <2>2. CASE e # 0
    <3>1. PICK c \in Int : c = AsChar(Zero + v \div e)
      BY <1>1, <2>2
    <3>2. PICK w \in Seq(Int) : w = q[v % e]
      BY <1>1, <2>2
    <3>3. <<c>> \o w \in Seq(Int)
      BY <3>1, <3>2
    <3> QED BY <2>2, <3>1, <3>2, <3>3
  <2> QED BY <2>1, <2>2
<1>3. \E f \in [Nat -> X] : Recurs(f, none, Divided(10), G)
  <2>1. none \in X
    OBVIOUS
  <2> HIDE DEF G, none, X
  <2> QED BY <1>0, <1>2, <2>1, DividedLower, RecursionExists
<1>4. PICK f \in [Nat -> X] : Recurs(f, none, Divided(10), G)
  BY <1>3
<1>5. ASSUME NEW e \in Nat PROVE f[e] = Body(f, e)
  <2>1. f[e] = IF e = 0 THEN none ELSE G[e][f[e \div 10]]
    <3> HIDE DEF G, X, none
    <3> QED BY <1>4 DEF Recurs, Divided
  <2>2. e \div 10 \in Nat /\ f[e \div 10] \in X
    <3> HIDE DEF X
    <3> QED BY <1>0, DivBase
  <2>3. CASE e = 0
    BY <2>1, <2>3
  <2>4. CASE e # 0
    <3>1. PICK p \in X : p = f[e \div 10]
      BY <2>2
    <3>2. G[e][p]
            = [v \in Nat |-> IF e = 0 THEN <<>> ELSE <<AsChar(Zero + v \div e)>> \o p[v % e]]
      <4> HIDE DEF X
      <4> QED OBVIOUS
    <3> HIDE DEF G
    <3> QED BY <2>1, <2>4, <3>1, <3>2
  <2> QED BY <2>3, <2>4
<1>6. Def(f)
  <2> HIDE DEF Body, X
  <2>1. f = [e \in Nat |-> f[e]]
    OBVIOUS
  <2>2. [e \in Nat |-> f[e]] = [e \in Nat |-> Body(f, e)]
    BY <1>5
  <2> QED BY <2>1, <2>2
<1>7. Def(DigitsFrom)
  <2>1. DigitsFrom = CHOOSE d : Def(d)
    BY DEF DigitsFrom
  <2> HIDE DEF Def
  <2> QED BY <1>6, <2>1
<1>8. PICK r : r = DigitsFrom /\ Def(r)
  BY <1>7
<1>9. \A e \in Nat : r[e] = Body(r, e)
  <2> HIDE DEF Body
  <2> QED BY <1>8
<1>10. \A e, v \in Nat :
         r[e][v] = IF e = 0 THEN <<>> ELSE <<AsChar(Zero + v \div e)>> \o r[e \div 10][v % e]
  <2> TAKE e, v \in Nat
  <2>1. r[e] = Body(r, e)
    BY <1>9
  <2> QED BY <2>1
<1> QED BY <1>8, <1>10

(* The reference, digit by digit, read from the left.                       *)
FromLeft(b, n) == Reverse(Reversed(b)[n])

(* It has one digit more than that of a tenth, or a sixteenth.              *)
LEMMA FromLeftIs ==
  ASSUME NEW b \in Base, NEW n \in Nat
  PROVE  /\ FromLeft(b, n) \in Seq(Int) /\ FromLeft(b, 0) = <<>>
         /\ n # 0 => FromLeft(b, n) = Append(FromLeft(b, n \div b), HexDigit(n % b))
<1>1. Reversed(b)[n] \in Seq(Int) /\ n \div b \in Nat /\ Reversed(b)[0] = <<>>
  BY ReversedIs, DivBase
<1>2. FromLeft(b, n) \in Seq(Int)
  <2>1. \A s \in Seq(Int), x \in Int : Reverse(s) \in Seq(Int)
    BY ReverseCons
  <2>2. 0 \in Int
    OBVIOUS
  <2> QED BY <1>1, <2>1, <2>2, Zenon DEF FromLeft
<1>3. FromLeft(b, 0) = <<>>
  <2>1. Reverse(<<>>) = <<>>
    BY DEF Reverse
  <2> QED BY <1>1, <2>1 DEF FromLeft
<1>4. n # 0 => FromLeft(b, n) = Append(FromLeft(b, n \div b), HexDigit(n % b))
  <2> SUFFICES ASSUME n # 0 PROVE FromLeft(b, n) = Append(FromLeft(b, n \div b), HexDigit(n % b))
    OBVIOUS
  <2>1. PICK q \in Seq(Int), x \in Int : q = Reversed(b)[n \div b] /\ x = HexDigit(n % b)
    <3>1. n % b \in Int
      BY DivBase
    <3>2. HexDigit(n % b) \in Int
      BY <3>1 DEF HexDigit, Zero
    <3>3. Reversed(b)[n \div b] \in Seq(Int)
      BY <1>1, ReversedIs
    <3> QED BY <3>2, <3>3
  <2>2. Reversed(b)[n] = <<x>> \o q
    BY <2>1, ReversedIs
  <2>3. Reverse(<<x>> \o q) = Append(Reverse(q), x)
    BY ReverseCons
  <2> QED BY <2>1, <2>2, <2>3 DEF FromLeft
<1> QED BY <1>2, <1>3, <1>4

(* PrintIntHex prints this numeral.                                         *)
LEMMA HexIsNumeral ==
  ASSUME NEW n \in Nat
  PROVE  ConvertIntToHex[n] = FromLeft(16, n)
<1> DEFINE S == {k \in Nat : ConvertIntToHex[k] # FromLeft(16, k)}
<1> SUFFICES ASSUME S # {} PROVE FALSE
  OBVIOUS
<1>1. PICK k \in S : \A j \in S : k <= j
  <2>1. S \in SUBSET Nat
    OBVIOUS
  <2> HIDE DEF S
  <2> QED BY <2>1, MinExists
<1>2. k \in Nat /\ 16 \in Base /\ ConvertIntToHex[k] # FromLeft(16, k)
  BY <1>1 DEF Base
<1>3. k # 0
  BY <1>2, FromLeftIs, ConvertIntToHexIs
<1>4. PICK j \in Nat : j = k \div 16 /\ j < k
  BY <1>2, <1>3, DivBase
<1>5. ConvertIntToHex[j] = FromLeft(16, j)
  <2>1. ~(k <= j)
    BY <1>2, <1>4
  <2> QED BY <1>1, <2>1
<1>6. ConvertIntToHex[k] = Append(ConvertIntToHex[j], HexDigit(k % 16))
  BY <1>2, <1>3, <1>4, ConvertIntToHexIs
<1>7. FromLeft(16, k) = Append(FromLeft(16, j), HexDigit(k % 16))
  BY <1>2, <1>3, <1>4, FromLeftIs
<1> QED BY <1>2, <1>5, <1>6, <1>7

(* The power of ten above a number is an int when the bound is.             *)
PowersTo(T) == \A v \in Nat : v < T =>
  /\ PowerAbove[v] \in 1 .. T /\ v < PowerAbove[v]
  /\ v # 0 => PowerAbove[v] = 10 * PowerAbove[v \div 10]

(* The power of ten above 0 is 1.                                           *)
LEMMA PowersStart == PowersTo(1)
<1> SUFFICES ASSUME NEW v \in Nat, v < 1
             PROVE  PowerAbove[v] \in 1 .. 1 /\ v < PowerAbove[v] /\ v = 0
  BY DEF PowersTo
<1>1. v = 0
  OBVIOUS
<1>2. PowerAbove[0] = 1
  BY PowerAboveIs
<1> QED BY <1>1, <1>2

(* One digit more, as long as ten times the bound is an int.                *)
LEMMA PowersNext ==
  ASSUME NEW T \in Nat, T >= 1, 10 * T <= MaxInt, PowersTo(T)
  PROVE  PowersTo(10 * T)
<1>0. MaxInt \in Nat
  BY ConsoleAssumption
<1> SUFFICES ASSUME NEW v \in Nat, v < 10 * T
             PROVE  /\ PowerAbove[v] \in 1 .. 10 * T /\ v < PowerAbove[v]
                    /\ v # 0 => PowerAbove[v] = 10 * PowerAbove[v \div 10]
  BY DEF PowersTo
<1>1. CASE v = 0
  <2>1. PowerAbove[0] = 1
    BY PowerAboveIs
  <2> QED BY <1>1, <2>1
<1>2. CASE v # 0
  <2>1. PICK q \in Nat, r \in 0 .. 9 : q = v \div 10 /\ v = 10 * q + r
    <3>1. PICK b \in Base : b = 10
      BY DEF Base
    <3>2. PICK q \in Nat, r \in 0 .. b - 1 : q = v \div b /\ r = v % b /\ v = b * q + r
      BY DivBase
    <3> QED BY <3>1, <3>2
  <2>2. q < T
    BY <2>1
  <2>3. PICK p \in 1 .. T : p = PowerAbove[q] /\ q < p
    BY <2>2 DEF PowersTo
  <2>4. 10 * p \in 0 .. MaxInt /\ 10 * p \in 1 .. 10 * T /\ v < 10 * p
    BY <1>0, <2>1, <2>3
  <2>5. PowerAbove[v] = AsInt(10 * p)
    BY <1>2, <2>1, <2>3, PowerAboveIs
  <2>6. PowerAbove[v] = 10 * p
    BY <2>4, <2>5, AsIntIs
  <2> QED BY <2>1, <2>3, <2>4, <2>6
<1> QED BY <1>1, <1>2

(* So it is for all the numbers that PrintInt can print.                    *)
LEMMA PowersPrintable ==
  ASSUME NEW p \in 1 .. 9, 10^p <= MaxInt
  PROVE  PowersTo(10^p) /\ 10^p \in Nat
<1>0. MaxInt \in Nat
  BY ConsoleAssumption
<1>1. ASSUME NEW T \in Nat, T >= 1, T <= MaxInt => PowersTo(T)
      PROVE  10 * T <= MaxInt => PowersTo(10 * T)
  <2>1. 10 * T <= MaxInt => T <= MaxInt
    BY <1>0, <1>1
  <2> QED BY <1>1, <2>1, PowersNext
<1>2. 10 <= MaxInt => PowersTo(10)
  <2>1. 10 * 1 = 10 /\ 1 \in Nat /\ 1 >= 1
    OBVIOUS
  <2> QED BY <1>1, PowersStart, <2>1
<1>3. 100 <= MaxInt => PowersTo(100)
  <2>1. 10 * 10 = 100 /\ 10 \in Nat /\ 10 >= 1
    OBVIOUS
  <2> QED BY <1>1, <1>2, <2>1
<1>4. 1000 <= MaxInt => PowersTo(1000)
  <2>1. 10 * 100 = 1000 /\ 100 \in Nat /\ 100 >= 1
    OBVIOUS
  <2> QED BY <1>1, <1>3, <2>1
<1>5. 10000 <= MaxInt => PowersTo(10000)
  <2>1. 10 * 1000 = 10000 /\ 1000 \in Nat /\ 1000 >= 1
    OBVIOUS
  <2> QED BY <1>1, <1>4, <2>1
<1>6. 100000 <= MaxInt => PowersTo(100000)
  <2>1. 10 * 10000 = 100000 /\ 10000 \in Nat /\ 10000 >= 1
    OBVIOUS
  <2> QED BY <1>1, <1>5, <2>1
<1>7. 1000000 <= MaxInt => PowersTo(1000000)
  <2>1. 10 * 100000 = 1000000 /\ 100000 \in Nat /\ 100000 >= 1
    OBVIOUS
  <2> QED BY <1>1, <1>6, <2>1
<1>8. 10000000 <= MaxInt => PowersTo(10000000)
  <2>1. 10 * 1000000 = 10000000 /\ 1000000 \in Nat /\ 1000000 >= 1
    OBVIOUS
  <2> QED BY <1>1, <1>7, <2>1
<1>9. 100000000 <= MaxInt => PowersTo(100000000)
  <2>1. 10 * 10000000 = 100000000 /\ 10000000 \in Nat /\ 10000000 >= 1
    OBVIOUS
  <2> QED BY <1>1, <1>8, <2>1
<1>10. 1000000000 <= MaxInt => PowersTo(1000000000)
  <2>1. 10 * 100000000 = 1000000000 /\ 100000000 \in Nat /\ 100000000 >= 1
    OBVIOUS
  <2> QED BY <1>1, <1>9, <2>1
<1>11. CASE p = 1
  <2>1. 10^p = 10
    BY <1>11
  <2> QED BY <1>2, <2>1
<1>12. CASE p = 2
  <2>1. 10^p = 100
    BY <1>12
  <2> QED BY <1>3, <2>1
<1>13. CASE p = 3
  <2>1. 10^p = 1000
    BY <1>13
  <2> QED BY <1>4, <2>1
<1>14. CASE p = 4
  <2>1. 10^p = 10000
    BY <1>14
  <2> QED BY <1>5, <2>1
<1>15. CASE p = 5
  <2>1. 10^p = 100000
    BY <1>15
  <2> QED BY <1>6, <2>1
<1>16. CASE p = 6
  <2>1. 10^p = 1000000
    BY <1>16
  <2> QED BY <1>7, <2>1
<1>17. CASE p = 7
  <2>1. 10^p = 10000000
    BY <1>17
  <2> QED BY <1>8, <2>1
<1>18. CASE p = 8
  <2>1. 10^p = 100000000
    BY <1>18
  <2> QED BY <1>9, <2>1
<1>19. CASE p = 9
  <2>1. 10^p = 1000000000
    BY <1>19
  <2> QED BY <1>10, <2>1
<1> QED BY <1>11, <1>12, <1>13, <1>14, <1>15, <1>16, <1>17, <1>18, <1>19

(* Quotient and remainder.                                                  *)
Parts(n, m, q, r) == q = n \div m /\ r = n % m

(* A number without its last digit, and that digit.                         *)
LEMMA PartsOfTen ==
  ASSUME NEW v \in Nat
  PROVE  \E u \in Nat, x \in 0 .. 9 : Parts(v, 10, u, x) /\ v = 10 * u + x /\ (v # 0 => u < v)
<1>1. PICK b \in Base : b = 10
  BY DEF Base
<1>2. PICK u \in Nat, x \in 0 .. b - 1 : u = v \div b /\ x = v % b /\ v = b * u + x
  BY DivBase
<1>3. (v # 0 => u < v) /\ v = 10 * u + x /\ x \in 0 .. 9
  BY <1>1, <1>2
<1> QED BY <1>1, <1>2, <1>3 DEF Parts

(* There is one quotient and one remainder.                                 *)
LEMMA PartsOnce ==
  ASSUME NEW n, NEW m, NEW q, NEW r, NEW p, NEW s, Parts(n, m, q, r), Parts(n, m, p, s)
  PROVE  p = q /\ s = r
BY DEF Parts

(* They are those of the division.                                          *)
LEMMA PartsOf ==
  ASSUME NEW m \in Nat \ {0}, NEW q \in Nat, NEW r \in 0 .. m - 1
  PROVE  Parts(m * q + r, m, q, r)
<1>1. (m * q + r) \div m = q
  OBVIOUS
<1>2. (m * q + r) % m = r
  OBVIOUS
<1> QED BY <1>1, <1>2 DEF Parts

(* Every division has them.                                                 *)
LEMMA PartsExist ==
  ASSUME NEW m \in Nat \ {0}, NEW v \in Nat
  PROVE  \E q \in Nat, r \in 0 .. m - 1 : Parts(v, m, q, r) /\ v = m * q + r
<1>1. v \in Int /\ v \div m \in Nat
  OBVIOUS
<1> QED BY <1>1, DivMod DEF Parts

(* Products in either order, for the solver.                                *)
LEMMA TenTimes ==
  ASSUME NEW f \in Nat, NEW q \in Nat
  PROVE  (10 * f) * q = 10 * (f * q) /\ f * q \in Nat
OBVIOUS

(* A number without its last digit, divided by a power of ten.              *)
LEMMA WithoutLast ==
  ASSUME NEW f \in Nat \ {0}, NEW v \in Nat, NEW e \in Nat \ {0}, e = 10 * f
  PROVE  \E q, r, u, s \in Nat, x \in 0 .. 9 :
           /\ Parts(v, e, q, r) /\ Parts(v, 10, u, x) /\ Parts(u, f, q, s) /\ Parts(r, 10, s, x)
           /\ r < 10 * f
<1>1. PICK q \in Nat, r \in 0 .. e - 1 : Parts(v, e, q, r) /\ v = e * q + r
  BY PartsExist
<1>2. r \in Nat /\ r < 10 * f
  BY <1>1
<1>3. PICK u \in Nat, x \in 0 .. 9 : Parts(v, 10, u, x) /\ v = 10 * u + x
  BY PartsOfTen
<1>4. PICK s \in Nat, y \in 0 .. 9 : Parts(r, 10, s, y) /\ r = 10 * s + y
  BY <1>2, PartsOfTen
<1>5. s \in 0 .. f - 1
  BY <1>2, <1>4
<1>6. PICK m \in Nat : m = f * q /\ e * q = 10 * m
  BY <1>1, TenTimes
<1>7. 10 * u + x = 10 * m + (10 * s + y)
  BY <1>1, <1>3, <1>4, <1>6
<1>8. u = m + s /\ x = y
  BY <1>3, <1>4, <1>6, <1>7
<1>9. Parts(u, f, q, s)
  <2>1. u = f * q + s
    BY <1>6, <1>8
  <2>2. Parts(f * q + s, f, q, s)
    BY <1>1, <1>5, PartsOf
  <2> QED BY <2>1, <2>2, Zenon
<1> QED BY <1>1, <1>2, <1>3, <1>4, <1>8, <1>9, Zenon

WithFirst(q, d) == <<AsChar(Zero + q)>> \o d
WithLast(d, x) == Append(d, AsChar(Zero + x))

(* A digit before and a digit behind do not disturb each other.             *)
LEMMA FirstLast ==
  ASSUME NEW d \in Seq(Int), NEW q \in Nat, NEW x \in Nat
  PROVE  /\ WithFirst(q, d) \in Seq(Int)
         /\ WithFirst(q, WithLast(d, x)) = WithLast(WithFirst(q, d), x)
<1>1. PICK a \in Int, c \in Int : a = AsChar(Zero + q) /\ c = AsChar(Zero + x)
  <2>1. Zero + q \in Nat /\ Zero + x \in Nat
    BY DEF Zero
  <2> QED BY <2>1, AsCharIs
<1>2. <<a>> \o Append(d, c) = Append(<<a>> \o d, c) /\ <<a>> \o d \in Seq(Int)
  <2>1. \A S : \A w \in Seq(S), e \in Seq(S), y \in S :
          w \o Append(e, y) = Append(w \o e, y) /\ w \o e \in Seq(S)
    OBVIOUS
  <2>2. <<a>> \in Seq(Int)
    OBVIOUS
  <2> QED BY <2>1, <2>2, Zenon
<1> QED BY <1>1, <1>2, Zenon DEF WithFirst, WithLast

(* The first digit that PrintInt puts, and the rest.                        *)
LEMMA FirstDigit ==
  ASSUME NEW e \in Nat \ {0}, NEW v \in Nat,
         NEW q \in Nat, NEW r \in Nat, NEW g \in Nat, NEW z \in Nat,
         Parts(v, e, q, r), Parts(e, 10, g, z)
  PROVE  DigitsFrom[e][v] = WithFirst(q, DigitsFrom[g][r])
BY DigitsFromIs DEF Parts, WithFirst

(* A decimal digit is one character.                                        *)
LEMMA DigitChar ==
  ASSUME NEW x \in 0 .. 9
  PROVE  AsChar(Zero + x) = HexDigit(x) /\ HexDigit(x) \in Int
<1>1. Zero + x \in Nat /\ Zero + x < 256
  BY DEF Zero
<1>2. AsChar(Zero + x) = Zero + x
  BY <1>1, AsCharIs
<1> QED BY <1>1, <1>2 DEF HexDigit

(* The digits taken from the left end with the last digit.                  *)
EndsWithLast(e, v) ==
  \A g, z, u, x \in Nat : Parts(e, 10, g, z) /\ Parts(v, 10, u, x) =>
    /\ DigitsFrom[g][u] \in Seq(Int)
    /\ DigitsFrom[e][v] = WithLast(DigitsFrom[g][u], x)
Splits(e) == \A v \in Nat : v < 10 * e => EndsWithLast(e, v)

(* A number of one digit.                                                   *)
LEMMA OneDigit ==
  ASSUME NEW v \in 0 .. 9
  PROVE  EndsWithLast(1, v)
<1>1. /\ Parts(1, 10, 0, 1) /\ Parts(v, 1, v, 0) /\ Parts(v, 10, 0, v)
  BY DEF Parts
<1>2. SUFFICES ASSUME NEW g \in Nat, NEW z \in Nat, NEW u \in Nat, NEW x \in Nat,
                      Parts(1, 10, g, z), Parts(v, 10, u, x)
               PROVE  /\ DigitsFrom[g][u] \in Seq(Int)
                      /\ DigitsFrom[1][v] = WithLast(DigitsFrom[g][u], x)
  BY DEF EndsWithLast
<1>3. g = 0 /\ u = 0 /\ x = v
  BY <1>1, <1>2, PartsOnce
<1>4. DigitsFrom[0][0] = <<>>
  BY DigitsFromIs
<1>5. DigitsFrom[1][v] = WithFirst(v, DigitsFrom[0][0])
  <2>1. PICK e \in Nat \ {0}, q \in Nat, r \in Nat, d \in Nat, y \in Nat :
          e = 1 /\ q = v /\ r = 0 /\ d = 0 /\ y = 1
    OBVIOUS
  <2>2. Parts(v, e, q, r) /\ Parts(e, 10, d, y) /\ v \in Nat
    BY <1>1, <2>1
  <2>3. DigitsFrom[e][v] = WithFirst(q, DigitsFrom[d][r])
    BY <2>2, FirstDigit
  <2> QED BY <2>1, <2>3
<1>6. PICK c \in Int : c = AsChar(Zero + v)
  BY DigitChar
<1>7. <<c>> \o <<>> = Append(<<>>, c) /\ <<>> \in Seq(Int)
  OBVIOUS
<1> QED BY <1>3, <1>4, <1>5, <1>6, <1>7 DEF WithFirst, WithLast

(* EndsWithLast for one choice of the quotients.                            *)
LEMMA EndsIs ==
  ASSUME NEW e, NEW v, NEW g \in Nat, NEW z \in Nat, NEW u \in Nat, NEW x \in Nat,
         Parts(e, 10, g, z), Parts(v, 10, u, x), EndsWithLast(e, v)
  PROVE  /\ DigitsFrom[g][u] \in Seq(Int)
         /\ DigitsFrom[e][v] = WithLast(DigitsFrom[g][u], x)
BY DEF EndsWithLast

(* One choice is enough.                                                    *)
LEMMA EndsIf ==
  ASSUME NEW e, NEW v, NEW g, NEW z, NEW u, NEW x, Parts(e, 10, g, z), Parts(v, 10, u, x),
         DigitsFrom[g][u] \in Seq(Int),
         DigitsFrom[e][v] = WithLast(DigitsFrom[g][u], x)
  PROVE  EndsWithLast(e, v)
<1>1. SUFFICES ASSUME NEW h \in Nat, NEW k \in Nat, NEW i \in Nat, NEW y \in Nat,
                      Parts(e, 10, h, k), Parts(v, 10, i, y)
               PROVE  /\ DigitsFrom[h][i] \in Seq(Int)
                      /\ DigitsFrom[e][v] = WithLast(DigitsFrom[h][i], y)
  BY Zenon DEF EndsWithLast
<1>2. h = g /\ i = u /\ y = x
  BY <1>1, PartsOnce
<1> QED BY <1>2, Zenon

(* Numbers of one digit more: the first digit is put in front of both.      *)
LEMMA OneMoreDigit ==
  ASSUME NEW f \in Nat \ {0}, NEW e \in Nat \ {0}, NEW v \in Nat,
         NEW q \in Nat, NEW r \in Nat, NEW u \in Nat, NEW s \in Nat, NEW x \in Nat,
         Parts(v, e, q, r), Parts(v, 10, u, x), Parts(u, f, q, s), Parts(r, 10, s, x),
         Parts(e, 10, f, 0), EndsWithLast(f, r)
  PROVE  EndsWithLast(e, v)
<1>1. PICK g \in Nat, z \in Nat : Parts(f, 10, g, z)
  BY PartsOfTen
<1>2. DigitsFrom[g][s] \in Seq(Int) /\ DigitsFrom[f][r] = WithLast(DigitsFrom[g][s], x)
  <2>1. Parts(f, 10, g, z) /\ Parts(r, 10, s, x) /\ EndsWithLast(f, r)
    BY <1>1
  <2> QED BY <2>1, EndsIs
<1>3. DigitsFrom[e][v] = WithFirst(q, DigitsFrom[f][r])
  BY FirstDigit
<1>4. DigitsFrom[f][u] = WithFirst(q, DigitsFrom[g][s])
  BY <1>1, FirstDigit
<1>5. DigitsFrom[e][v] = WithLast(DigitsFrom[f][u], x) /\ DigitsFrom[f][u] \in Seq(Int)
  BY <1>2, <1>3, <1>4, FirstLast
<1> QED BY <1>5, EndsIf

(* For all such numbers.                                                    *)
LEMMA MoreDigits ==
  ASSUME NEW f \in Nat \ {0}, NEW e \in Nat \ {0}, e = 10 * f, Splits(f)
  PROVE  Splits(e)
<1> SUFFICES ASSUME NEW v \in Nat PROVE EndsWithLast(e, v)
  BY DEF Splits
<1>1. PICK q, r, u, s \in Nat, x \in 0 .. 9 :
        /\ Parts(v, e, q, r) /\ Parts(v, 10, u, x) /\ Parts(u, f, q, s) /\ Parts(r, 10, s, x)
        /\ r < 10 * f
  BY WithoutLast
<1>2. x \in Nat
  OBVIOUS
<1>3. Parts(e, 10, f, 0)
  <2>1. 10 \in Nat \ {0} /\ 0 \in 0 .. 10 - 1 /\ 10 * f + 0 = e
    OBVIOUS
  <2>2. Parts(10 * f + 0, 10, f, 0)
    BY <2>1, PartsOf
  <2> QED BY <2>1, <2>2, Zenon
<1>4. EndsWithLast(f, r)
  BY <1>1 DEF Splits
<1> QED BY <1>1, <1>2, <1>3, <1>4, OneMoreDigit

(* For every power of ten at which PrintInt starts.                         *)
LEMMA LastDigit ==
  ASSUME NEW T \in Nat, PowersTo(T), NEW w \in Nat, w < T
  PROVE  Splits(PowerAbove[w])
<1> DEFINE S == {k \in Nat : k < T /\ ~Splits(PowerAbove[k])}
<1> SUFFICES ASSUME S # {} PROVE FALSE
  OBVIOUS
<1>1. PICK k \in S : \A j \in S : k <= j
  <2>1. S \in SUBSET Nat
    OBVIOUS
  <2> HIDE DEF S
  <2> QED BY <2>1, MinExists
<1>2. k \in Nat /\ k < T /\ ~Splits(PowerAbove[k])
  BY <1>1
<1>3. CASE k = 0
  <2>1. PowerAbove[k] = 1
    BY <1>3, PowerAboveIs
  <2>2. ASSUME NEW v \in Nat, v < 10 PROVE EndsWithLast(1, v)
    BY <2>2, OneDigit
  <2>3. Splits(1)
    BY <2>2 DEF Splits
  <2> QED BY <1>2, <2>1, <2>3
<1>4. CASE k # 0
  <2>1. PICK j \in Nat : j = k \div 10 /\ j < k
    BY <1>2, <1>4, PartsOfTen DEF Parts
  <2>2. Splits(PowerAbove[j])
    <3>1. j < T /\ ~(k <= j)
      BY <1>2, <2>1
    <3> QED BY <1>1, <2>1, <3>1
  <2>3. PICK f \in Nat \ {0}, e \in Nat \ {0} :
          f = PowerAbove[j] /\ e = PowerAbove[k] /\ e = 10 * f
    <3>1. PowerAbove[k] = 10 * PowerAbove[j] /\ PowerAbove[j] \in 1 .. T
      <4>1. j < T
        BY <1>2, <2>1
      <4> QED BY <1>2, <1>4, <2>1, <4>1 DEF PowersTo
    <3>2. PICK f \in Nat \ {0} : f = PowerAbove[j]
      BY <3>1
    <3>3. 10 * f \in Nat \ {0}
      OBVIOUS
    <3> QED BY <3>1, <3>2, <3>3
  <2>4. Splits(e)
    BY <2>2, <2>3, MoreDigits
  <2> QED BY <1>2, <2>3, <2>4
<1> QED BY <1>3, <1>4

(* So they are the digits of the number.                                    *)
LEMMA DigitsAreNumeral ==
  ASSUME NEW T \in Nat, PowersTo(T), NEW n \in Nat, n < T, n # 0
  PROVE  Digits(n) = FromLeft(10, n)
<1> DEFINE S == {k \in Nat : k < T /\ k # 0 /\ Digits(k) # FromLeft(10, k)}
<1> SUFFICES ASSUME S # {} PROVE FALSE
  OBVIOUS
<1>1. PICK k \in S : \A j \in S : k <= j
  <2>1. S \in SUBSET Nat
    OBVIOUS
  <2> HIDE DEF S
  <2> QED BY <2>1, MinExists
<1>2. k \in Nat /\ k < T /\ k # 0 /\ Digits(k) # FromLeft(10, k) /\ 10 \in Base
  BY <1>1 DEF Base
<1>3. PICK w \in Nat, x \in 0 .. 9 : Parts(k, 10, w, x) /\ w < k
  BY <1>2, PartsOfTen
<1>4. w < T /\ w = k \div 10 /\ x = k % 10
  BY <1>2, <1>3 DEF Parts
<1>5. PICK e \in Nat : e = PowerAbove[w] /\ PowerAbove[k] = 10 * e /\ k < 10 * e
  BY <1>2, <1>3, <1>4 DEF PowersTo
<1>6. Digits(k) = DigitsFrom[e][k]
  <2>1. (10 * e) \div 10 = e
    OBVIOUS
  <2> QED BY <1>5, <2>1 DEF Digits
<1>7. PICK g \in Nat, z \in Nat : Parts(e, 10, g, z)
  BY PartsOfTen
<1>8. /\ DigitsFrom[g][w] \in Seq(Int)
      /\ DigitsFrom[e][k] = WithLast(DigitsFrom[g][w], x)
  <2>1. Splits(PowerAbove[w])
    BY <1>4, LastDigit
  <2>2. EndsWithLast(e, k)
    BY <1>2, <1>5, <2>1 DEF Splits
  <2>3. x \in Nat
    OBVIOUS
  <2> QED BY <1>2, <1>3, <1>7, <2>2, <2>3, EndsIs
<1>9. DigitsFrom[g][w] = FromLeft(10, w)
  <2>1. CASE w = 0
    <3>1. e = 1
      BY <1>5, <2>1, PowerAboveIs
    <3>2. g = 0
      <4>1. Parts(1, 10, 0, 1)
        BY DEF Parts
      <4> QED BY <1>7, <3>1, <4>1, PartsOnce
    <3>3. DigitsFrom[0][w] = <<>>
      BY DigitsFromIs
    <3> QED BY <1>2, <2>1, <3>2, <3>3, FromLeftIs
  <2>2. CASE w # 0
    <3>1. Digits(w) = FromLeft(10, w)
      <4>1. ~(k <= w)
        BY <1>2, <1>3
      <4> QED BY <1>1, <1>4, <2>2, <4>1
    <3>2. Digits(w) = DigitsFrom[g][w]
      BY <1>5, <1>7 DEF Digits, Parts
    <3> QED BY <3>1, <3>2
  <2> QED BY <2>1, <2>2
<1>10. FromLeft(10, k) = Append(FromLeft(10, w), HexDigit(x))
  BY <1>2, <1>3, <1>4, FromLeftIs
<1> QED BY <1>2, <1>6, <1>8, <1>9, <1>10, DigitChar DEF WithLast

(* The reference numeral of a number, 0 included.                           *)
LEMMA NumeralIs ==
  ASSUME NEW n \in Nat
  PROVE  /\ Numeral(n, 10) = (IF n = 0 THEN <<Zero>> ELSE FromLeft(10, n))
         /\ Numeral(n, 16) = (IF n = 0 THEN <<Zero>> ELSE FromLeft(16, n))
         /\ Numeral(n, 10) \in Seq(Int) /\ Numeral(n, 16) \in Seq(Int)
<1>1. 10 \in Base /\ 16 \in Base
  BY DEF Base
<1>2. FromLeft(10, n) \in Seq(Int) /\ FromLeft(16, n) \in Seq(Int)
  BY <1>1, FromLeftIs
<1>3. <<Zero>> \in Seq(Int)
  BY DEF Zero
<1> QED BY <1>2, <1>3 DEF Numeral, FromLeft

(* PrintInt puts the numeral of its argument.                               *)
LEMMA PrintsInt ==
  ASSUME NEW call \in Call, call.kind = "PrintInt"
  PROVE  Put(call) = Expected(call) /\ Expected(call) \in Seq(Int)
<1>1. PICK v \in Printable : v = call.arg
  BY DEF Call
<1>2. PICK p \in 1 .. 9 : 10^p <= MaxInt /\ v \in 1 - 10^p .. 10^p - 1
  BY DEF Printable
<1>3. PICK T \in Nat : T = 10^p /\ PowersTo(T)
  BY <1>2, PowersPrintable
<1>4. v \in Int /\ v < T /\ -v < T
  BY <1>2, <1>3
<1>5. Put(call) = PrintInt(v)
  BY <1>1 DEF Put
<1>6. CASE v = 0
  <2>1. Expected(call) = Numeral(0, 10)
    BY <1>1, <1>6 DEF Expected
  <2>2. PrintInt(v) = <<Zero>>
    BY <1>6 DEF PrintInt
  <2> QED BY <1>5, <2>1, <2>2, NumeralIs
<1>7. CASE v > 0
  <2>0. ~(v < 0) /\ v >= 0 /\ v # 0
    BY <1>4, <1>7
  <2>1. Expected(call) = Numeral(v, 10)
    BY <1>1, <2>0 DEF Expected
  <2>2. PrintInt(v) = Digits(v)
    BY <2>0 DEF PrintInt
  <2>3. Digits(v) = FromLeft(10, v)
    BY <1>3, <1>4, <1>7, DigitsAreNumeral
  <2>4. Numeral(v, 10) = FromLeft(10, v) /\ Numeral(v, 10) \in Seq(Int)
    BY <1>4, <1>7, NumeralIs
  <2> QED BY <1>5, <2>1, <2>2, <2>3, <2>4
<1>8. CASE v < 0
  <2>0. PICK n \in Nat : n = -v /\ n < T /\ n # 0
    BY <1>4, <1>8
  <2>1. Expected(call) = <<45>> \o Numeral(n, 10)
    BY <1>1, <1>4, <1>8, <2>0 DEF Expected
  <2>2. PrintInt(v) = <<45>> \o Digits(n)
    BY <1>8, <2>0 DEF PrintInt
  <2>3. Digits(n) = FromLeft(10, n)
    BY <1>3, <2>0, DigitsAreNumeral
  <2>4. Numeral(n, 10) = FromLeft(10, n) /\ Numeral(n, 10) \in Seq(Int)
    BY <2>0, NumeralIs
  <2>5. <<45>> \o Numeral(n, 10) \in Seq(Int)
    BY <2>4
  <2> QED BY <1>5, <2>1, <2>2, <2>3, <2>4, <2>5
<1> QED BY <1>4, <1>6, <1>7, <1>8

(* PrintIntHex puts the hexadecimal numeral of its argument.                *)
LEMMA PrintsHex ==
  ASSUME NEW call \in Call, call.kind = "PrintIntHex"
  PROVE  Put(call) = Expected(call) /\ Expected(call) \in Seq(Int)
<1>1. PICK v \in Int : v = call.arg
  BY DEF Call
<1>2. PICK u \in Nat : u = v % Ints
  <2>1. Ints \in Nat \ {0}
    BY ConsoleAssumption DEF Ints
  <2>2. v % Ints \in 0 .. Ints - 1
    BY <2>1, DivMod
  <2> QED BY <2>1, <2>2
<1>3. Put(call) = <<Zero, 120>> \o (IF u = 0 THEN <<Zero>> ELSE ConvertIntToHex[u])
  BY <1>1, <1>2 DEF Put, PrintIntHex
<1>4. Expected(call) = <<Zero, 120>> \o Numeral(u, 16)
  BY <1>1, <1>2 DEF Expected
<1>5. /\ Numeral(u, 16) = (IF u = 0 THEN <<Zero>> ELSE ConvertIntToHex[u])
      /\ Numeral(u, 16) \in Seq(Int)
  BY NumeralIs, HexIsNumeral
<1>6. <<Zero, 120>> \o Numeral(u, 16) \in Seq(Int)
  BY <1>5 DEF Zero
<1> QED BY <1>3, <1>4, <1>5, <1>6

(* What a print call puts is what it should put.                            *)
LEMMA PutIsExpected ==
  ASSUME NEW call \in Call
  PROVE  Put(call) = Expected(call) /\ Expected(call) \in Seq(Int)
<1>1. call.kind \in {"PrintInt", "PrintIntHex", "PrintChar", "PrintString"}
  BY DEF Call
<1>2. CASE call.kind = "PrintChar"
  <2>1. call.arg \in Nat /\ call.arg < 256
    <3>1. call \in [kind : {"PrintChar"}, arg : Char]
      BY <1>2 DEF Call
    <3> QED BY <3>1 DEF Char
  <2>2. Put(call) = <<AsChar(call.arg)>> /\ Expected(call) = <<call.arg>>
    BY <1>2 DEF Put, PrintChar, Expected
  <2> QED BY <2>1, <2>2, AsCharIs
<1>3. CASE call.kind = "PrintString"
  <2>1. call.arg \in Seq(Char \ {0})
    BY <1>3 DEF Call
  <2>2. Put(call) = call.arg /\ Expected(call) = call.arg
    BY <1>3 DEF Put, Expected
  <2>3. call.arg \in Seq(Int)
    <3>1. PICK s \in Seq(Char \ {0}) : s = call.arg
      BY <2>1
    <3>2. s \in [1 .. Len(s) -> Int] /\ Len(s) \in Nat
      <4>1. s \in [1 .. Len(s) -> Char \ {0}] /\ Len(s) \in Nat
        OBVIOUS
      <4>2. Char \ {0} \subseteq Int
        BY DEF Char
      <4> QED BY <4>1, <4>2
    <3>3. s \in Seq(Int)
      BY <3>2
    <3> QED BY <3>1, <3>3
  <2> QED BY <2>1, <2>2, <2>3
<1> QED BY <1>1, <1>2, <1>3, PrintsInt, PrintsHex

-----------------------------------------------------------------------------
(* The text on the display.                                                 *)

(* The calls b that thread t has begun: what it has put and what its call   *)
(* has still to put are their texts.                                        *)
Begun(t, b) == /\ Script[t] = b \o calls[t]
               /\ screen[t] \o text[t] = FlattenSeq([k \in DOMAIN b |-> Expected(b[k])])
ThreadText(t) ==
  /\ \E b \in Seq(Call) : Begun(t, b)
  /\ pc[t] = "user" => text[t] = <<>>
  /\ pc[t] = "put" => text[t] # <<>>

PrintText ==
  /\ calls \in [Thread -> Seq(Call)]
  /\ text \in [ConsoleThread -> Seq(Int)] /\ screen \in [ConsoleThread -> Seq(Int)]
  /\ \A t \in Thread : ThreadText(t)

(* The Console of ConsoleTest holds a key until ConsoleTest echoes it: that *)
(* key is in the count of readAvail or ConsoleTest has been told of it.     *)
KeyHeld ==
  \/ incoming[1] = EOF /\ value["readAvail"] = 0 /\ pc[ConsoleTester] # "echo"
  \/ incoming[1] \in Char \ {255} /\ value["readAvail"] = 1 /\ pc[ConsoleTester] # "echo"
  \/ incoming[1] \in Char \ {255} /\ value["readAvail"] = 0 /\ pc[ConsoleTester] = "echo"
EchoText ==
  /\ made = 1 /\ DOMAIN incoming = {1} /\ console[ConsoleTester] = 1
  /\ screen \in [ConsoleThread -> Seq(Int)] /\ keyboard \in Seq(Char \ {255})
  /\ KeyHeld
  /\ screen[ConsoleTester] \o (IF incoming[1] = EOF THEN <<>> ELSE <<incoming[1]>>) \o keyboard
       \in {Append(k, Q) : k \in Typed}

SInv == /\ mode = "print" => PrintText
        /\ mode = "echo" => EchoText

(* A sequence and one element more.                                         *)
LEMMA AppendIs ==
  ASSUME NEW S, NEW s \in Seq(S), NEW x \in S
  PROVE  Append(s, x) = [k \in 1 .. Len(s) + 1 |-> IF k = Len(s) + 1 THEN x ELSE s[k]]
<1>1. /\ Append(s, x) \in Seq(S) /\ Len(Append(s, x)) = Len(s) + 1
      /\ \A k \in 1 .. Len(s) + 1 : Append(s, x)[k] = IF k = Len(s) + 1 THEN x ELSE s[k]
  OBVIOUS
<1>2. \A a \in Seq(S) : a = [k \in 1 .. Len(a) |-> a[k]]
  OBVIOUS
<1> QED BY <1>1, <1>2

(* The texts of the calls that are begun.                                   *)
LEMMA TextsOfBegun ==
  ASSUME NEW b \in Seq(Call)
  PROVE  [k \in DOMAIN b |-> Expected(b[k])] \in Seq(Seq(Int))
<1>1. \A k \in 1 .. Len(b) : Expected(b[k]) \in Seq(Int)
  <2> TAKE k \in 1 .. Len(b)
  <2>1. b[k] \in Call
    OBVIOUS
  <2> QED BY <2>1, PutIsExpected
<1>2. DOMAIN b = 1 .. Len(b) /\ Len(b) \in Nat
  OBVIOUS
<1> QED BY <1>1, <1>2

(* One call more is begun.                                                  *)
LEMMA OneMoreBegun ==
  ASSUME NEW b \in Seq(Call), NEW x \in Call
  PROVE  [k \in DOMAIN Append(b, x) |-> Expected(Append(b, x)[k])]
           = Append([k \in DOMAIN b |-> Expected(b[k])], Expected(x))
<1> DEFINE T(c) == [k \in DOMAIN c |-> Expected(c[k])]
<1>1. PICK c : c = Append(b, x)
  OBVIOUS
<1>2. PICK l \in Nat : l = Len(b)
  OBVIOUS
<1>3. /\ DOMAIN b = 1 .. l /\ DOMAIN c = 1 .. l + 1 /\ c[l + 1] = x
      /\ \A k \in 1 .. l : c[k] = b[k]
  BY <1>1, <1>2
<1>4. PICK s \in Seq(Seq(Int)) : s = T(b)
  BY TextsOfBegun
<1>5. Len(s) = l /\ \A k \in 1 .. l : s[k] = Expected(b[k])
  <2>1. DOMAIN s = 1 .. l /\ \A k \in 1 .. l : s[k] = Expected(b[k])
    BY <1>3, <1>4
  <2>2. DOMAIN s = 1 .. Len(s) /\ Len(s) \in Nat
    OBVIOUS
  <2> QED BY <1>2, <2>1, <2>2
<1>6. PICK e \in Seq(Int) : e = Expected(x)
  BY PutIsExpected
<1>7. Append(s, e) = [k \in 1 .. l + 1 |-> IF k = l + 1 THEN e ELSE s[k]]
  <2> HIDE DEF T
  <2>1. Append(s, e) = [k \in 1 .. Len(s) + 1 |-> IF k = Len(s) + 1 THEN e ELSE s[k]]
    <3>1. s \in Seq(Seq(Int)) /\ e \in Seq(Int)
      BY <1>4, <1>6
    <3>2. \A q \in Seq(Seq(Int)), y \in Seq(Int) :
            Append(q, y) = [k \in 1 .. Len(q) + 1 |-> IF k = Len(q) + 1 THEN y ELSE q[k]]
      BY AppendIs
    <3> QED BY <3>1, <3>2, Zenon
  <2> QED BY <1>5, <2>1
<1>8. \A k \in 1 .. l + 1 : Expected(c[k]) = IF k = l + 1 THEN e ELSE s[k]
  <2> TAKE k \in 1 .. l + 1
  <2>1. k = l + 1 \/ (k \in 1 .. l /\ k # l + 1)
    BY <1>2
  <2> QED BY <1>3, <1>5, <1>6, <2>1
<1>9. T(c) = Append(s, e)
  BY <1>3, <1>7, <1>8
<1> QED BY <1>1, <1>4, <1>6, <1>9

(* Its text comes behind the others.                                        *)
LEMMA BegunMore ==
  ASSUME NEW b \in Seq(Call), NEW x \in Call
  PROVE  FlattenSeq([k \in DOMAIN Append(b, x) |-> Expected(Append(b, x)[k])])
           = FlattenSeq([k \in DOMAIN b |-> Expected(b[k])]) \o Expected(x)
<1>1. PICK s \in Seq(Seq(Int)) : s = [k \in DOMAIN b |-> Expected(b[k])]
  BY TextsOfBegun
<1>2. PICK e \in Seq(Int) : e = Expected(x)
  BY PutIsExpected
<1>3. FlattenSeq(Append(s, e)) = FlattenSeq(s) \o e
  BY FlattenAppend
<1> QED BY <1>1, <1>2, <1>3, OneMoreBegun

(* A step that changes only where threads are: into a call's exception, or  *)
(* to sleep.                                                                *)
LEMMA TextStays ==
  ASSUME NEW t \in Thread, ThreadText(t),
         Script[t] = Script[t], calls'[t] = calls[t], text'[t] = text[t], screen'[t] = screen[t],
         pc'[t] = "user" => text[t] = <<>>, pc'[t] = "put" => text[t] # <<>>
  PROVE  ThreadText(t)'
BY DEF ThreadText, Begun

(* A call begins: its text is still to be put.                              *)
LEMMA EnterPrintShows ==
  ASSUME CInv, PrintText, NEW t \in Thread, EnterPrint(t)
  PROVE  PrintText'
<1>1. /\ pc[t] = "user" /\ calls[t] # <<>> /\ screen' = screen
      /\ text' = [text EXCEPT ![t] = Put(Head(calls[t]))]
      /\ calls' = [calls EXCEPT ![t] = Tail(calls[t])]
      /\ pc' = [pc EXCEPT ![t] = "print"]
  BY DEF EnterPrint
<1>2. /\ t \in ConsoleThread /\ DOMAIN pc = ConsoleThread /\ Thread \subseteq ConsoleThread
      /\ calls \in [Thread -> Seq(Call)] /\ text \in [ConsoleThread -> Seq(Int)]
      /\ screen \in [ConsoleThread -> Seq(Int)] /\ calls[t] \in Seq(Call)
      /\ screen[t] \in Seq(Int)
  BY DEF ConsoleThread, CInv, PrintText
<1>3. PICK c \in Seq(Call) : c = calls[t] /\ c # <<>>
  BY <1>1, <1>2
<1>4. PICK x \in Call, w \in Seq(Call) : x = Head(c) /\ w = Tail(c) /\ c = <<x>> \o w
  <2>1. Head(c) \in Call /\ Tail(c) \in Seq(Call) /\ c = <<Head(c)>> \o Tail(c)
    BY <1>3
  <2> QED BY <2>1
<1>5. PICK e \in Seq(Int) : e = Put(x) /\ e = Expected(x)
  BY PutIsExpected
<1>6. /\ text'[t] = e /\ calls'[t] = w /\ pc'[t] = "print" /\ screen'[t] = screen[t]
      /\ text' \in [ConsoleThread -> Seq(Int)] /\ calls' \in [Thread -> Seq(Call)]
      /\ \A u \in Thread : u # t => /\ text'[u] = text[u] /\ calls'[u] = calls[u]
                                    /\ pc'[u] = pc[u] /\ screen'[u] = screen[u]
  <2>1. Put(Head(calls[t])) = e /\ Tail(calls[t]) = w
    BY <1>3, <1>4, <1>5
  <2>2. text' = [text EXCEPT ![t] = e] /\ calls' = [calls EXCEPT ![t] = w]
    BY <1>1, <2>1
  <2> QED BY <1>1, <1>2, <2>2
<1>7. ThreadText(t)'
  <2>1. PICK b \in Seq(Call) : Begun(t, b)
    BY DEF PrintText, ThreadText
  <2>2. text[t] = <<>>
    BY <1>1 DEF PrintText, ThreadText
  <2>3. Append(b, x) \in Seq(Call) /\ Append(b, x) \o w = b \o c
    BY <1>4
  <2>4. PICK s \in Seq(Int) : s = screen[t]
    BY <1>2
  <2>5. s \o <<>> = s
    OBVIOUS
  <2>6. s = FlattenSeq([k \in DOMAIN b |-> Expected(b[k])])
    BY <2>1, <2>2, <2>4, <2>5 DEF Begun
  <2>7. FlattenSeq([k \in DOMAIN Append(b, x) |-> Expected(Append(b, x)[k])]) = s \o e
    BY <1>5, <2>6, BegunMore
  <2>8. Begun(t, Append(b, x))'
    <3>1. Script[t] = b \o c
      BY <1>3, <2>1 DEF Begun
    <3>2. Script[t] = Append(b, x) \o calls'[t]
      BY <1>6, <2>3, <3>1
    <3>3. screen'[t] \o text'[t] = s \o e
      BY <1>6, <2>4
    <3> QED BY <2>7, <3>2, <3>3 DEF Begun
  <2> QED BY <1>6, <2>3, <2>8 DEF ThreadText
<1>8. ASSUME NEW u \in Thread, u # t PROVE ThreadText(u)'
  BY <1>6, <1>8, TextStays DEF PrintText, ThreadText
<1> QED BY <1>1, <1>2, <1>6, <1>7, <1>8 DEF PrintText

(* A character goes from the text of the call to the display.               *)
LEMMA PrintPutShows ==
  ASSUME CInv, PrintText, NEW t \in Thread, PrintPut(t)
  PROVE  PrintText'
<1>1. /\ pc[t] = "put" /\ calls' = calls
      /\ text' = [text EXCEPT ![t] = Tail(text[t])] /\ PutChar(t, Head(text[t]))
      /\ pc' = [pc EXCEPT ![t] = "print"]
  BY DEF PrintPut
<1>2. /\ t \in ConsoleThread /\ DOMAIN pc = ConsoleThread /\ Thread \subseteq ConsoleThread
      /\ text \in [ConsoleThread -> Seq(Int)] /\ screen \in [ConsoleThread -> Seq(Int)]
      /\ text[t] \in Seq(Int) /\ screen[t] \in Seq(Int) /\ text[t] # <<>>
  BY <1>1 DEF ConsoleThread, CInv, PrintText, ThreadText
<1>3. WithThread
  <2>1. mode = "print"
    BY <1>1, PrintsOnly
  <2> QED BY <1>1, <2>1 DEF CInv, Printing, InSemaphore, OnItsWay
<1>4. screen' = [screen EXCEPT ![t] = Append(screen[t], Head(text[t]))]
  BY <1>1, <1>3 DEF WithThread, PutChar
<1>5. PICK s \in Seq(Int), w \in Seq(Int) : s = screen[t] /\ w = text[t] /\ w # <<>>
  BY <1>2
<1>6. PICK x \in Int, r \in Seq(Int) : x = Head(w) /\ r = Tail(w) /\ w = <<x>> \o r
  <2>1. Head(w) \in Int /\ Tail(w) \in Seq(Int) /\ w = <<Head(w)>> \o Tail(w)
    BY <1>5
  <2> QED BY <2>1
<1>7. Append(s, x) \in Seq(Int) /\ Append(s, x) \o r = s \o w
  BY <1>6
<1>8. /\ screen'[t] = Append(s, x) /\ text'[t] = r /\ pc'[t] = "print" /\ calls'[t] = calls[t]
      /\ text' \in [ConsoleThread -> Seq(Int)] /\ screen' \in [ConsoleThread -> Seq(Int)]
      /\ \A u \in Thread : u # t => /\ text'[u] = text[u] /\ calls'[u] = calls[u]
                                    /\ pc'[u] = pc[u] /\ screen'[u] = screen[u]
  <2>1. text' = [text EXCEPT ![t] = r] /\ screen' = [screen EXCEPT ![t] = Append(s, x)]
    BY <1>1, <1>4, <1>5, <1>6
  <2> QED BY <1>1, <1>2, <1>7, <2>1
<1>9. ThreadText(t)'
  <2>1. PICK b \in Seq(Call) : Begun(t, b)
    BY DEF PrintText, ThreadText
  <2>2. Begun(t, b)'
    BY <1>5, <1>7, <1>8, <2>1 DEF Begun
  <2> QED BY <1>8, <2>2 DEF ThreadText
<1>10. ASSUME NEW u \in Thread, u # t PROVE ThreadText(u)'
  BY <1>8, <1>10, TextStays DEF PrintText, ThreadText
<1> QED BY <1>1, <1>8, <1>9, <1>10 DEF PrintText

(* The rest leaves the text alone.                                          *)
LEMMA WaitsShow ==
  ASSUME CInv, mode = "print", PrintText, UNCHANGED <<calls, text, screen>>,
         \A t \in Thread : \/ pc'[t] \in {pc[t], "print", "faulted", "asleep"}
                           \/ pc'[t] = "user" /\ text[t] = <<>>
                           \/ pc'[t] = "put" /\ text[t] # <<>>
  PROVE  PrintText'
<1>1. ASSUME NEW t \in Thread PROVE ThreadText(t)'
  BY TextStays DEF PrintText, ThreadText
<1> QED BY <1>1 DEF PrintText

(* Every step of a print call.                                              *)
LEMMA PrintStepShows ==
  ASSUME CInv, mode = "print", PrintText, NEW t \in Thread, PrintStep(t)
  PROVE  PrintText'
<1>1. DOMAIN pc = ConsoleThread /\ t \in ConsoleThread /\ Thread \subseteq ConsoleThread
  BY DEF CInv, ConsoleThread
<1>2. CASE StringFaults(t) \/ PageArrives(t)
  <2>1. /\ UNCHANGED <<calls, text, screen>>
        /\ \E l \in {"print", "faulted"} : pc' = [pc EXCEPT ![t] = l]
    BY <1>2 DEF StringFaults, PageArrives
  <2> QED BY <1>1, <2>1, WaitsShow
<1>3. CASE PrintP(t)
  <2>1. /\ UNCHANGED <<calls, text, screen>> /\ text[t] # <<>>
        /\ \E l \in {"put", "asleep"} : pc' = [pc EXCEPT ![t] = l]
    BY <1>3 DEF PrintP, P
  <2> QED BY <1>1, <2>1, WaitsShow
<1>4. CASE PrintReturns(t)
  <2>1. /\ UNCHANGED <<calls, text, screen>> /\ text[t] = <<>> /\ pc' = [pc EXCEPT ![t] = "user"]
    BY <1>4 DEF PrintReturns
  <2> QED BY <1>1, <2>1, WaitsShow
<1> QED BY <1>2, <1>3, <1>4, EnterPrintShows, PrintPutShows DEF PrintStep

(* An interrupt wakes a thread and puts nothing.                            *)
LEMMA InterruptShowsPrint ==
  ASSUME CInv, mode = "print", PrintText, NEW c, WriteDone(c) \/ CheckCharAvail(c)
  PROVE  PrintText'
<1>1. DOMAIN pc = ConsoleThread /\ Thread \subseteq ConsoleThread /\ queue["readAvail"] = <<>>
  BY DEF CInv, ConsoleThread, Printing
<1>2. UNCHANGED <<calls, text, screen>> /\ (pc' = pc \/ \E h : pc' = [pc EXCEPT ![h] = "print"])
  BY <1>1 DEF WriteDone, CheckCharAvail, V, Before
<1> QED BY <1>1, <1>2, WaitsShow

(* ConsoleTest takes the key, and then shows it.                            *)
LEMMA EchoStepShows ==
  ASSUME CInv, EchoText, ConsoleStep
  PROVE  EchoText'
<1> DEFINE CT == ConsoleTester
           inbox == IF incoming[1] = EOF THEN <<>> ELSE <<incoming[1]>>
<1>1. mode = "echo" /\ Echoing
  BY DEF ConsoleStep, EchoAwaits, EchoPuts, EchoWrites, CInv
<1>2. /\ DOMAIN value = Semaphore /\ DOMAIN pc = ConsoleThread
      /\ "writeDone" \in Semaphore /\ "readAvail" \in Semaphore /\ CT \in ConsoleThread
  BY DEF ConsoleThread, CInv, Semaphore
<1>3. /\ DOMAIN incoming = {1} /\ console[CT] = 1 /\ made = 1
      /\ screen \in [ConsoleThread -> Seq(Int)] /\ keyboard \in Seq(Char \ {255})
      /\ KeyHeld /\ screen[CT] \o inbox \o keyboard \in {Append(k, Q) : k \in Typed}
  BY DEF EchoText
<1>4. EOF \notin Char /\ Char \subseteq Int
  BY DEF EOF, Char
<1>5. CASE EchoAwaits
  <2>1. /\ pc[CT] = "awaiting" /\ P(CT, "readAvail", "echo")
        /\ UNCHANGED <<console, made, incoming, keyboard, screen>>
    BY <1>5 DEF EchoAwaits
  <2>2. KeyHeld'
    <3>1. CASE value["readAvail"] = 1
      <4>1. value' = [value EXCEPT !["readAvail"] = 1 - 1] /\ pc' = [pc EXCEPT ![CT] = "echo"]
        BY <2>1, <3>1 DEF P
      <4>2. value'["readAvail"] = 0 /\ pc'[CT] = "echo"
        BY <1>2, <4>1
      <4> QED BY <1>3, <2>1, <3>1, <4>2 DEF KeyHeld
    <3>2. CASE value["readAvail"] = 0
      <4>1. value' = value /\ pc' = [pc EXCEPT ![CT] = "asleep"]
        BY <2>1, <3>2 DEF P
      <4>2. pc'[CT] = "asleep"
        BY <1>2, <4>1
      <4> QED BY <1>3, <2>1, <3>2, <4>1, <4>2 DEF KeyHeld
    <3> QED BY <1>3, <3>1, <3>2 DEF KeyHeld
  <2> QED BY <1>3, <2>1, <2>2 DEF EchoText
<1>6. CASE EchoPuts
  <2>1. /\ pc[CT] = "echo" /\ incoming' = [incoming EXCEPT ![1] = EOF]
        /\ PutChar(CT, incoming[1]) /\ pc' = [pc EXCEPT ![CT] = "writing"]
        /\ UNCHANGED <<console, made, value, keyboard>>
    BY <1>3, <1>6 DEF EchoPuts, GetChar
  <2>2. putBusy = {}
    BY <1>1, <2>1 DEF Echoing, Waiting, Writing
  <2>3. screen' = [screen EXCEPT ![CT] = Append(screen[CT], incoming[1])]
    BY <2>1, <2>2 DEF PutChar
  <2>4. incoming[1] \in Char \ {255} /\ value["readAvail"] = 0
    BY <1>3, <2>1 DEF KeyHeld
  <2>5. PICK s \in Seq(Int), ch \in Int : s = screen[CT] /\ ch = incoming[1] /\ ch # EOF
    <3>1. incoming[1] \in Int /\ incoming[1] # EOF
      BY <1>4, <2>4
    <3>2. screen[CT] \in Seq(Int)
      BY <1>2, <1>3
    <3> QED BY <3>1, <3>2
  <2>6. /\ DOMAIN incoming' = {1} /\ incoming'[1] = EOF /\ pc'[CT] = "writing"
        /\ screen'[CT] = Append(s, ch) /\ screen' \in [ConsoleThread -> Seq(Int)]
    <3>1. Append(s, ch) \in Seq(Int) /\ screen' = [screen EXCEPT ![CT] = Append(s, ch)]
      BY <2>3, <2>5
    <3> QED BY <1>2, <1>3, <2>1, <3>1
  <2>7. KeyHeld'
    BY <2>1, <2>4, <2>6 DEF KeyHeld
  <2>8. screen'[CT] \o <<>> \o keyboard = screen[CT] \o <<incoming[1]>> \o keyboard
    <3>1. Append(s, ch) \o <<>> = s \o <<ch>>
      BY <2>5
    <3> QED BY <2>5, <2>6, <3>1
  <2> QED BY <1>3, <2>1, <2>5, <2>6, <2>7, <2>8 DEF EchoText
<1>7. CASE EchoWrites
  <2>1. /\ pc[CT] = "writing" /\ UNCHANGED <<console, made, incoming, keyboard, screen>>
        /\ \E l \in {"done", "awaiting"} : P(CT, "writeDone", l)
    BY <1>7 DEF EchoWrites
  <2>2. /\ \E l \in {"done", "awaiting", "asleep"} : pc' = [pc EXCEPT ![CT] = l]
        /\ value' = value \/ value' = [value EXCEPT !["writeDone"] = value["writeDone"] - 1]
    BY <2>1 DEF P
  <2>3. pc'[CT] # "echo" /\ value'["readAvail"] = value["readAvail"]
    BY <1>2, <2>2
  <2>4. KeyHeld'
    BY <1>3, <2>1, <2>3 DEF KeyHeld
  <2> QED BY <1>3, <2>1, <2>4 DEF EchoText
<1> QED BY <1>5, <1>6, <1>7 DEF ConsoleStep

(* A key moves from the keyboard to the Console.                            *)
LEMMA InterruptShowsEcho ==
  ASSUME CInv, mode = "echo", EchoText, NEW c \in 1 .. made, WriteDone(c) \/ CheckCharAvail(c)
  PROVE  EchoText'
<1> DEFINE CT == ConsoleTester
<1>1. Echoing /\ made = 1 /\ c = 1
  BY DEF CInv, EchoText
<1>2. /\ DOMAIN value = Semaphore /\ DOMAIN pc = ConsoleThread
      /\ "writeDone" \in Semaphore /\ "readAvail" \in Semaphore /\ CT \in ConsoleThread
  BY DEF ConsoleThread, CInv, Semaphore
<1>3. /\ DOMAIN incoming = {1} /\ console[CT] = 1
      /\ screen \in [ConsoleThread -> Seq(Int)] /\ keyboard \in Seq(Char \ {255}) /\ KeyHeld
  BY DEF EchoText
<1>4. CASE WriteDone(c)
  <2>1. /\ UNCHANGED <<console, made, incoming, keyboard, screen>>
        /\ value' = [value EXCEPT !["writeDone"] = value["writeDone"] + 1]
        /\ pc' = pc \/ \E h : pc' = [pc EXCEPT ![h] = "writing"]
    BY <1>4 DEF WriteDone, V, Before
  <2>2. /\ value'["readAvail"] = value["readAvail"]
        /\ (pc'[CT] = pc[CT] \/ (pc'[CT] = "writing" /\ pc[CT] # "echo"))
    <3>1. pc[CT] # "echo"
      BY <1>1, <1>4 DEF WriteDone, Echoing, Waiting, Writing
    <3> QED BY <1>2, <2>1, <3>1
  <2>3. KeyHeld'
    BY <1>3, <2>1, <2>2 DEF KeyHeld
  <2> QED BY <2>1, <2>3 DEF EchoText
<1>5. CASE CheckCharAvail(c)
  <2>1. /\ UNCHANGED <<console, made, screen>> /\ incoming[1] = EOF /\ keyboard # <<>>
        /\ incoming' = [incoming EXCEPT ![1] = Head(keyboard)] /\ keyboard' = Tail(keyboard)
        /\ value' = [value EXCEPT !["readAvail"] = value["readAvail"] + 1]
        /\ pc' = pc \/ \E h : pc' = [pc EXCEPT ![h] = "awaiting"]
    BY <1>1, <1>5 DEF CheckCharAvail, Room, V, Before
  <2>2. value["readAvail"] = 0 /\ pc[CT] # "echo"
    BY <1>3, <2>1 DEF KeyHeld, EOF, Char
  <2>3. PICK w \in Seq(Char \ {255}) : w = keyboard /\ w # <<>>
    BY <1>3, <2>1
  <2>4. /\ Head(w) \in Char \ {255} /\ Tail(w) \in Seq(Char \ {255})
    BY <2>3
  <2>5. /\ value'["readAvail"] = 1 /\ pc'[CT] # "echo"
        /\ DOMAIN incoming' = {1} /\ incoming'[1] = Head(w)
    BY <1>2, <1>3, <2>1, <2>2, <2>3
  <2>6. KeyHeld'
    BY <2>4, <2>5 DEF KeyHeld
  <2>7. PICK s \in Seq(Int) : s = screen[CT]
    BY <1>2, <1>3
  <2>8. s \o <<Head(w)>> \o Tail(w) = s \o <<>> \o w
    <3>1. \A v \in Seq(Int) : v # <<>> => s \o <<Head(v)>> \o Tail(v) = s \o <<>> \o v
      BY ConcatHead
    <3>2. w \in Seq(Int)
      <4>1. w \in [1 .. Len(w) -> Int] /\ Len(w) \in Nat
        <5>1. w \in [1 .. Len(w) -> Char \ {255}] /\ Len(w) \in Nat
          OBVIOUS
        <5>2. Char \ {255} \subseteq Int
          BY DEF Char
        <5> QED BY <5>1, <5>2
      <4> QED BY <4>1
    <3> QED BY <2>3, <3>1, <3>2
  <2>9. incoming'[1] # EOF
    <3>1. \A x \in Char \ {255} : x # EOF
      BY DEF Char, EOF
    <3> QED BY <2>4, <2>5, <3>1
  <2>10. screen'[CT] \o <<incoming'[1]>> \o keyboard' = screen[CT] \o <<>> \o keyboard
    BY <2>1, <2>3, <2>5, <2>7, <2>8
  <2>11. screen[CT] \o <<>> \o keyboard \in {Append(k, Q) : k \in Typed}
    BY <2>1 DEF EchoText
  <2> QED BY <1>1, <1>3, <2>1, <2>3, <2>4, <2>5, <2>6, <2>9, <2>10, <2>11 DEF EchoText
<1> QED BY <1>4, <1>5

(* SInv holds from the start.                                               *)
LEMMA ConsoleStarts ==
  ASSUME ConsoleInit \/ ConsoleIdle
  PROVE  SInv
<1>1. CASE ConsoleIdle
  BY <1>1 DEF ConsoleIdle, ConsoleStart, SInv
<1>2. ASSUME NEW m \in {"print", "echo"}, ConsoleStart(m),
             calls = [t \in Thread |-> IF m = "print" THEN Script[t] ELSE <<>>],
             keyboard \in IF m = "echo" THEN {Append(k, Q) : k \in Typed} ELSE Typed
      PROVE  SInv
  <2>1. /\ mode = m /\ screen = [t \in ConsoleThread |-> <<>>]
        /\ text = [t \in ConsoleThread |-> <<>>] /\ console = [t \in ConsoleThread |-> 1]
        /\ pc = [t \in ConsoleThread |-> IF t = ConsoleTester THEN "awaiting" ELSE "user"]
        /\ value["readAvail"] = 0
        /\ ConsoleTester \in ConsoleThread /\ Thread \subseteq ConsoleThread
    BY <1>2 DEF ConsoleStart, ConsoleThread, Semaphore
  <2>2. /\ <<>> \in Seq(Int) /\ screen \in [ConsoleThread -> Seq(Int)]
        /\ text \in [ConsoleThread -> Seq(Int)]
    BY <2>1
  <2>3. CASE m = "print"
    <3>1. calls \in [Thread -> Seq(Call)] /\ \A t \in Thread : calls[t] = Script[t]
      BY <1>2, <2>3, ConsoleAssumption DEF ConsoleAssumption
    <3>2. ASSUME NEW t \in Thread PROVE ThreadText(t)
      <4>1. Script[t] = <<>> \o calls[t] /\ <<>> \in Seq(Call)
        BY <3>1
      <4>2. FlattenSeq([k \in DOMAIN <<>> |-> Expected(<<>>[k])]) = <<>>
        <5>1. PICK b \in Seq(Call) : b = <<>>
          BY <4>1
        <5>2. PICK s \in Seq(Seq(Int)) : s = [k \in DOMAIN b |-> Expected(b[k])]
          BY TextsOfBegun
        <5>3. DOMAIN s = {}
          BY <5>1, <5>2
        <5>4. s = <<>>
          BY <5>3
        <5>5. FlattenSeq(s) = <<>>
          <6>1. Len(s) = 0
            BY <5>4
          <6> QED BY <5>4, <6>1 DEF FlattenSeq
        <5> QED BY <5>1, <5>2, <5>5
      <4>3. screen[t] \o text[t] = <<>> /\ text[t] = <<>> /\ pc[t] # "put"
        BY <2>1
      <4>4. Begun(t, <<>>)
        BY <4>1, <4>2, <4>3 DEF Begun
      <4> QED BY <4>1, <4>3, <4>4 DEF ThreadText
    <3> QED BY <2>1, <2>2, <2>3, <3>1, <3>2 DEF SInv, PrintText
  <2>4. CASE m = "echo"
    <3>1. made = 1 /\ incoming = <<EOF>>
      BY <1>2, <2>4 DEF ConsoleStart
    <3>2. DOMAIN incoming = {1} /\ incoming[1] = EOF
      BY <3>1
    <3>3. keyboard \in {Append(k, Q) : k \in Typed}
      BY <1>2, <2>4
    <3>4. keyboard \in Seq(Char \ {255})
      <4>1. PICK k \in Seq(Char \ {255}) : keyboard = Append(k, Q)
        BY <3>3, ConsoleAssumption DEF ConsoleAssumption
      <4>2. Q \in Char \ {255}
        BY DEF Q, Char
      <4> QED BY <4>1, <4>2
    <3>5. KeyHeld
      BY <2>1, <3>2 DEF KeyHeld
    <3>6. screen[ConsoleTester] \o <<>> \o keyboard = keyboard
      <4>1. screen[ConsoleTester] = <<>> /\ <<>> \o <<>> = <<>>
        BY <2>1
      <4>2. <<>> \o keyboard = keyboard
        BY <3>4
      <4> QED BY <4>1, <4>2
    <3> QED BY <2>1, <2>2, <2>4, <3>1, <3>2, <3>3, <3>4, <3>5, <3>6 DEF SInv, EchoText
  <2> QED BY <2>3, <2>4
<1> QED BY <1>1, <1>2 DEF ConsoleInit

(* SInv is an invariant of the console: the display and what the threads    *)
(* have still to put are the texts of their calls, and no key is lost or    *)
(* doubled between the keyboard and the display (Console::CheckCharAvail,   *)
(* GetChar and PutChar).                                                    *)
THEOREM ScreenInvariant == ConsoleSpec => []SInv
<1>1. ConsoleInit \/ ConsoleIdle => SInv
  BY ConsoleStarts
<1>2. CInv /\ SInv /\ [ConsoleNext]_consoleVars => SInv'
  <2> SUFFICES ASSUME CInv, SInv, [ConsoleNext]_consoleVars PROVE SInv'
    OBVIOUS
  <2>0. mode' = mode
    BY DEF ConsoleNext, consoleVars, PrintStep, ConsoleStep, EnterPrint, StringFaults, PageArrives,
           PrintP, PrintPut, PrintReturns, EchoAwaits, EchoPuts, EchoWrites, WriteDone,
           CheckCharAvail
  <2>1. ASSUME NEW t \in Thread, PrintStep(t) PROVE SInv'
    <3>1. mode = "print"
      <4>1. mode = "print" \/ pc[t] \in {"print", "faulted", "put"}
        BY <2>1 DEF PrintStep, EnterPrint, StringFaults, PageArrives, PrintP, PrintPut, PrintReturns
      <4> QED BY <4>1, PrintsOnly
    <3> QED BY <2>0, <2>1, <3>1, PrintStepShows DEF SInv
  <2>2. CASE ConsoleStep
    <3>1. mode = "echo"
      BY <2>2 DEF ConsoleStep, EchoAwaits, EchoPuts, EchoWrites
    <3> QED BY <2>0, <2>2, <3>1, EchoStepShows DEF SInv
  <2>3. ASSUME NEW c \in 1 .. made, WriteDone(c) \/ CheckCharAvail(c) PROVE SInv'
    BY <2>0, <2>3, InterruptShowsPrint, InterruptShowsEcho DEF SInv
  <2>4. CASE UNCHANGED consoleVars
    <3>1. UNCHANGED <<mode, pc, calls, text, console, made, incoming, value, keyboard, screen>>
      BY <2>4 DEF consoleVars
    <3>2. PrintText => PrintText'
      <4>1. ASSUME NEW t \in Thread, ThreadText(t) PROVE ThreadText(t)'
        BY <3>1, <4>1 DEF ThreadText, Begun
      <4> QED BY <3>1, <4>1 DEF PrintText
    <3>3. EchoText => EchoText'
      BY <3>1 DEF EchoText, KeyHeld
    <3> QED BY <3>1, <3>2, <3>3 DEF SInv
  <2> QED BY <2>1, <2>2, <2>3, <2>4 DEF ConsoleNext
<1> QED BY <1>1, <1>2, ConsoleInvariant, PTL DEF ConsoleSpec

(* The display shows what the print calls of userprog/exception.cc and      *)
(* ConsoleTest of userprog/progtest.cc should put, in order, with nothing   *)
(* lost or doubled, for any threads, calls and keys; PrintInt and           *)
(* PrintIntHex print the numerals of their arguments.                       *)
THEOREM ScreenShows == ConsoleSpec => []ScreenShowsText
<1>1. SInv => ScreenShowsText
  <2> SUFFICES ASSUME SInv PROVE ScreenShowsText
    OBVIOUS
  <2>1. ASSUME mode = "print", NEW t \in Thread
        PROVE  screen[t] \o text[t]
                 = FlattenSeq([k \in DOMAIN SubSeq(Script[t], 1, Len(Script[t]) - Len(calls[t])) |->
                     Expected(SubSeq(Script[t], 1, Len(Script[t]) - Len(calls[t]))[k])])
    <3>1. PICK b \in Seq(Call) : Begun(t, b)
      BY <2>1 DEF SInv, PrintText, ThreadText
    <3>2. PICK w \in Seq(Call) : w = calls[t]
      BY <2>1 DEF SInv, PrintText
    <3>3. PICK l \in Nat, n \in Nat : l = Len(b) /\ n = Len(w)
      OBVIOUS
    <3>4. SubSeq(b \o w, 1, l) = b
      BY <3>3
    <3>5. Len(b \o w) - n = l
      <4>1. Len(b \o w) = l + n
        BY <3>3
      <4> QED BY <3>3, <4>1
    <3>6. SubSeq(Script[t], 1, Len(Script[t]) - Len(calls[t])) = b
      BY <3>1, <3>2, <3>3, <3>4, <3>5 DEF Begun
    <3> QED BY <3>1, <3>6 DEF Begun
  <2>2. mode = "echo" =>
          screen[ConsoleTester] \o (IF incoming[1] = EOF THEN <<>> ELSE <<incoming[1]>>) \o keyboard
            \in {Append(k, Q) : k \in Typed}
    BY DEF SInv, EchoText
  <2> QED BY <2>1, <2>2 DEF ScreenShowsText
<1> QED BY <1>1, ScreenInvariant, PTL

-----------------------------------------------------------------------------
(* The disk.                                                                *)

(* Products keep the order.                                                 *)
LEMMA TimesKeepsOrder ==
  ASSUME NEW n \in Nat, NEW a \in Int, NEW b \in Int, a <= b
  PROVE  a * n <= b * n
<1>1. PICK d \in Nat : b = a + d
  <2>1. b - a \in Nat /\ b = a + (b - a)
    OBVIOUS
  <2> QED BY <2>1
<1>2. d * n \in Nat /\ a * n \in Int
  OBVIOUS
<1>3. (a + d) * n = a * n + d * n
  OBVIOUS
<1>4. b * n = a * n + d * n
  BY <1>1, <1>3
<1> DEFINE x == a * n
           y == d * n
           z == b * n
<1>5. x \in Int /\ y \in Nat /\ z = x + y
  BY <1>2, <1>4
<1> HIDE DEF x, y, z
<1>6. x <= z
  BY <1>5
<1> QED BY <1>6 DEF x, z

(* A number of sector times, divided by their length.                       *)
LEMMA WholeSectors ==
  ASSUME NEW n \in Nat \ {0}, NEW k \in Int
  PROVE  (k * n) \div n = k
<1> DEFINE a == k * n
           q == a \div n
           r == a % n
<1>1. a \in Int /\ a = n * k + 0 /\ 0 \in 0 .. n - 1
  OBVIOUS
<1>2. (n * k + 0) % n = 0
  BY <1>1, Remainder
<1>3. q \in Int /\ r \in 0 .. n - 1 /\ a = n * q + r
  BY <1>1, DivMod
<1>4. r = 0
  BY <1>1, <1>2
<1> HIDE DEF a, q, r
<1>5. n * q = n * k
  BY <1>1, <1>3, <1>4
<1>6. q = k
  BY <1>3, <1>5
<1> QED BY <1>6 DEF q, a

(* The next beginning of a sector time, as Rotation computes it.            *)
Rounded(t) == t + IF t % RotationTime > 0 THEN RotationTime - (t % RotationTime) ELSE 0

Begins(k, t) ==
  /\ Rounded(t) = k * RotationTime
  /\ \A j \in Nat : j * RotationTime >= t <=> k <= j
  /\ k <= t \div RotationTime + 1

(* It exists.                                                               *)
LEMMA RoundUp ==
  ASSUME NEW t \in Nat
  PROVE  \E k \in Nat : Begins(k, t)
<1>1. RotationTime \in Nat \ {0}
  BY DiskAssumption DEF DiskAssumption
<1> DEFINE n == RotationTime
           q == t \div n
           r == t % n
           k == IF r > 0 THEN q + 1 ELSE q
<1>2. q \in Int /\ r \in 0 .. n - 1 /\ t = n * q + r
  BY <1>1, DivMod
<1>3. q \in Nat
  BY <1>1
<1>4. n \in Nat \ {0} /\ k = (IF r > 0 THEN q + 1 ELSE q)
      /\ Rounded(t) = t + (IF r > 0 THEN n - r ELSE 0)
  BY <1>1 DEF Rounded
<1> HIDE DEF n, q, r, k
<1>5. k \in Nat /\ k <= q + 1 /\ q <= k
  BY <1>3, <1>4
<1>6. n * q \in Nat /\ q * n = n * q /\ (q + 1) * n = n * q + n /\ (q - 1) * n = n * q - n
  BY <1>3, <1>4
<1>7. t + (IF r > 0 THEN n - r ELSE 0) = k * n
  <2>1. CASE r > 0
    <3>1. k * n = n * q + n
      BY <1>4, <1>6, <2>1
    <3> QED BY <1>2, <1>4, <1>6, <2>1, <3>1
  <2>2. CASE ~(r > 0)
    <3>1. r = 0 /\ k * n = n * q
      BY <1>2, <1>4, <1>6, <2>2
    <3> QED BY <1>2, <1>6, <2>2, <3>1
  <2> QED BY <2>1, <2>2
<1>8. ASSUME NEW j \in Nat PROVE j * n >= t <=> k <= j
  <2>1. j * n \in Int /\ j \in Int /\ q \in Int
    BY <1>3, <1>4
  <2>2. CASE q + 1 <= j
    <3>1. (q + 1) * n <= j * n
      BY <1>3, <1>4, <2>2, TimesKeepsOrder
    <3>2. n * q + n <= j * n
      BY <1>6, <3>1
    <3>3. j * n >= t
      BY <1>2, <1>4, <1>6, <2>1, <3>2
    <3> QED BY <1>5, <2>1, <2>2, <3>3
  <2>3. CASE j = q
    <3>1. j * n = n * q
      BY <1>6, <2>3
    <3> QED BY <1>2, <1>4, <1>6, <2>3, <3>1
  <2>4. CASE j < q
    <3>1. j <= q - 1 /\ q - 1 \in Int
      BY <2>1, <2>4
    <3>2. j * n <= (q - 1) * n
      BY <1>4, <3>1, TimesKeepsOrder
    <3>3. j * n <= n * q - n
      BY <1>6, <3>2
    <3>4. ~(j * n >= t)
      BY <1>2, <1>4, <1>6, <2>1, <3>3
    <3> QED BY <1>5, <2>1, <2>4, <3>4
  <2> QED BY <2>1, <2>2, <2>3, <2>4
<1>9. Begins(k, t)
  BY <1>4, <1>5, <1>7, <1>8 DEF Begins, n, q
<1> QED BY <1>5, <1>9

(* ModuloDiff: how many sectors from one to another.                        *)
LEMMA CyclicDistance ==
  ASSUME NEW to \in Nat, NEW from \in Nat
  PROVE  /\ ModuloDiff(to, from) \in 0 .. SectorsPerTrack - 1
         /\ Passes(to, from + ModuloDiff(to, from))
         /\ \A e \in 0 .. ModuloDiff(to, from) - 1 : ~Passes(to, from + e)
<1> DEFINE n == SectorsPerTrack
           p == to % n
           q == from % n
           b == from \div n
           d == ModuloDiff(to, from)
<1>1. n \in Nat \ {0}
  BY DiskAssumption DEF DiskAssumption
<1>2. p \in 0 .. n - 1 /\ q \in 0 .. n - 1 /\ b \in Int /\ from = n * b + q
  BY <1>1, DivMod
<1>3. d = (p - q + n) % n
  BY DEF ModuloDiff
<1>4. d = IF p >= q THEN p - q ELSE p - q + n
  <2>1. CASE p >= q
    <3>1. p - q \in 0 .. n - 1
      BY <1>1, <1>2, <2>1
    <3>2. (n * 1 + (p - q)) % n = p - q
      BY <1>1, <3>1, Remainder
    <3>3. n * 1 + (p - q) = p - q + n
      BY <1>1, <1>2
    <3> QED BY <1>3, <2>1, <3>2, <3>3
  <2>2. CASE ~(p >= q)
    <3>1. p - q + n \in 0 .. n - 1
      BY <1>1, <1>2, <2>2
    <3>2. (n * 0 + (p - q + n)) % n = p - q + n
      BY <1>1, <3>1, Remainder
    <3>3. n * 0 + (p - q + n) = p - q + n
      BY <1>1, <1>2
    <3> QED BY <1>3, <2>2, <3>2, <3>3
  <2> QED BY <2>1, <2>2
<1>5. \A x : Passes(to, x) <=> x % n = p
  BY DEF Passes
<1> HIDE DEF n, p, q, b, d
<1>6. d \in 0 .. n - 1 /\ d \in Int
  BY <1>1, <1>2, <1>4
<1>7. (from + d) % n = p
  <2>1. CASE p >= q
    <3>1. (n * b + p) % n = p
      BY <1>1, <1>2, Remainder
    <3>2. n * b \in Int
      BY <1>1, <1>2
    <3>3. from + d = n * b + p
      BY <1>2, <1>4, <2>1, <3>2
    <3> QED BY <3>1, <3>3
  <2>2. CASE ~(p >= q)
    <3>1. (n * (b + 1) + p) % n = p
      BY <1>1, <1>2, Remainder
    <3>2. n * b \in Int /\ n * (b + 1) = n * b + n
      BY <1>1, <1>2
    <3>3. from + d = n * (b + 1) + p
      BY <1>1, <1>2, <1>4, <2>2, <3>2
    <3> QED BY <3>1, <3>3
  <2> QED BY <2>1, <2>2
<1>8. ASSUME NEW e \in 0 .. d - 1 PROVE (from + e) % n # p
  <2>1. from + e \in Int /\ from + d \in Int /\ from + e < from + d /\ from + d < (from + e) + n
    BY <1>1, <1>6
  <2>2. (from + e) % n # (from + d) % n
    BY <1>1, <2>1, SlotsApart
  <2> QED BY <1>7, <2>2
<1>9. d \in 0 .. n - 1 /\ Passes(to, from + d) /\ \A e \in 0 .. d - 1 : ~Passes(to, from + e)
  BY <1>5, <1>6, <1>7, <1>8
<1> QED BY <1>9 DEF d, n

(* The first time that a sector passes.                                     *)
LEMMA FirstPassIs ==
  ASSUME NEW sector \in Nat, NEW t \in Nat, NEW k \in Nat, Begins(k, t)
  PROVE  FirstPass(sector, t) = k + ModuloDiff(sector, k)
<1>1. RotationTime \in Nat \ {0} /\ SectorsPerTrack \in Nat \ {0}
  BY DiskAssumption DEF DiskAssumption
<1>2. PICK d : d = ModuloDiff(sector, k)
  OBVIOUS
<1>3. /\ d \in 0 .. SectorsPerTrack - 1 /\ Passes(sector, k + d)
      /\ \A e \in 0 .. d - 1 : ~Passes(sector, k + e)
  BY <1>2, CyclicDistance
<1>4. PICK most : most = t \div RotationTime + 1 + SectorsPerTrack
  OBVIOUS
<1>5. k <= t \div RotationTime + 1 /\ t \div RotationTime \in Int
      /\ \A j \in Nat : j * RotationTime >= t <=> k <= j
  BY <1>1 DEF Begins
<1>6. k + d \in 0 .. most /\ k + d \in Nat
  BY <1>1, <1>3, <1>4, <1>5
<1> DEFINE First(m) == /\ Passes(sector, m) /\ m * RotationTime >= t
                       /\ \A j \in 0 .. m - 1 : Passes(sector, j) => j * RotationTime < t
<1>7. ASSUME NEW j \in 0 .. (k + d) - 1, Passes(sector, j) PROVE j * RotationTime < t
  <2>1. j \in Nat /\ j < k + d
    BY <1>6
  <2>2. ~(k <= j)
    <3> SUFFICES ASSUME k <= j PROVE FALSE
      OBVIOUS
    <3>1. j - k \in 0 .. d - 1 /\ k + (j - k) = j
      BY <1>3, <2>1
    <3>2. ~Passes(sector, k + (j - k))
      BY <1>3, <3>1
    <3> QED BY <1>7, <3>1, <3>2
  <2>3. ~(j * RotationTime >= t)
    BY <1>5, <2>1, <2>2
  <2>4. j * RotationTime \in Int
    BY <1>1, <2>1
  <2> QED BY <2>3, <2>4
<1>8. First(k + d)
  <2>1. (k + d) * RotationTime >= t
    <3>1. k <= k + d
      BY <1>3
    <3> QED BY <1>5, <1>6, <3>1
  <2> QED BY <1>3, <1>7, <2>1
<1>9. ASSUME NEW m \in 0 .. most, First(m) PROVE m = k + d
  <2>1. m \in Nat
    BY <1>1, <1>4, <1>5
  <2>2. k <= m
    BY <1>5, <1>9, <2>1
  <2>3. ~(m < k + d)
    <3> SUFFICES ASSUME m < k + d PROVE FALSE
      OBVIOUS
    <3>1. m - k \in 0 .. d - 1 /\ k + (m - k) = m
      BY <1>3, <2>1, <2>2
    <3>2. ~Passes(sector, k + (m - k))
      BY <1>3, <3>1
    <3> QED BY <1>9, <3>1, <3>2
  <2>4. ~(k + d < m)
    <3> SUFFICES ASSUME k + d < m PROVE FALSE
      OBVIOUS
    <3>1. k + d \in 0 .. m - 1
      BY <1>6, <2>1
    <3>2. (k + d) * RotationTime < t
      BY <1>3, <1>9, <3>1
    <3>3. (k + d) * RotationTime >= t /\ (k + d) * RotationTime \in Int
      BY <1>1, <1>6, <1>8
    <3> QED BY <3>2, <3>3
  <2> QED BY <1>6, <2>1, <2>3, <2>4
<1>10. FirstPass(sector, t) = CHOOSE m \in 0 .. most : First(m)
  BY <1>4 DEF FirstPass
<1> HIDE DEF First
<1>11. FirstPass(sector, t) = k + d
  BY <1>6, <1>8, <1>9, <1>10
<1> QED BY <1>2, <1>11

(* Since when the head is on the track of the last request.                 *)
OnTrackSince == IF request.track = Track(request.sector) THEN settled ELSE Arrival

(* The track buffer fills from the first whole sector since then.           *)
DInv ==
  /\ totalTicks \in Nat /\ lastSector \in Nat /\ settled \in Nat
  /\ request \in [sector : Nat, writing : BOOLEAN, at : Nat, track : Int]
  /\ lastSector = request.sector
  /\ bufferInit = Rounded(OnTrackSince)
  /\ SectorUnderHead

(* A seek takes time, and none to the track where the head is.              *)
LEMMA SeekIs ==
  ASSUME NEW a \in Int, NEW b \in Int
  PROVE  /\ Abs(a - b) * SeekTime \in Nat
         /\ Abs(a - b) * SeekTime = 0 <=> a = b
<1>1. SeekTime \in Nat \ {0}
  BY DiskAssumption DEF DiskAssumption
<1>2. PICK x : x = Abs(a - b)
  OBVIOUS
<1>3. x \in Nat /\ (x = 0 <=> a = b)
  BY <1>2 DEF Abs
<1>4. x * SeekTime \in Nat
  BY <1>1, <1>3
<1>5. x # 0 => x * SeekTime # 0
  <2> SUFFICES ASSUME x # 0 PROVE x * SeekTime # 0
    OBVIOUS
  <2>1. 1 * SeekTime <= x * SeekTime
    BY <1>1, <1>3, TimesKeepsOrder
  <2>2. 1 * SeekTime = SeekTime
    BY <1>1
  <2> QED BY <1>1, <1>4, <2>1, <2>2
<1>6. 0 * SeekTime = 0
  BY <1>1
<1> QED BY <1>2, <1>3, <1>4, <1>5, <1>6

(* The sector times are counted, not the ticks: what is compared with the   *)
(* time of the request is compared with the sector time after it.           *)
LEMMA BufferedIs ==
  ASSUME NEW at \in Nat, NEW k \in Nat, Begins(k, at), NEW f \in Nat
  PROVE  (f + 1) * RotationTime < at + RotationTime <=> f < k
<1>1. RotationTime \in Nat \ {0}
  BY DiskAssumption DEF DiskAssumption
<1>2. f * RotationTime >= at <=> k <= f
  BY DEF Begins
<1>3. (f + 1) * RotationTime = f * RotationTime + RotationTime /\ f * RotationTime \in Nat
  BY <1>1
<1>4. (f + 1) * RotationTime < at + RotationTime <=> ~(f * RotationTime >= at)
  BY <1>1, <1>3
<1> QED BY <1>2, <1>4

(* ReadRequest and WriteRequest.                                            *)
LEMMA RequestKeeps ==
  ASSUME DInv, NEW sector \in Sector, NEW writing \in BOOLEAN, Request(sector, writing)
  PROVE  DInv'
<1> DEFINE old  == Track(request.sector)
           new  == Track(sector)
           seek == TimeToSeek(sector)
           head == totalTicks + seek
<1>1. /\ RotationTime \in Nat \ {0} /\ SeekTime \in Nat \ {0} /\ SectorsPerTrack \in Nat \ {0}
      /\ NumTracks \in Nat \ {0}
  BY DiskAssumption DEF DiskAssumption
<1>2. sector \in Nat
  BY DEF Sector
<1>3. /\ totalTicks \in Nat /\ settled \in Nat /\ lastSector = request.sector
      /\ request.sector \in Nat /\ request.at \in Nat /\ request.track \in Int
      /\ bufferInit = Rounded(OnTrackSince)
  BY DEF DInv
<1>4. old \in Int /\ new \in Int
  BY <1>1, <1>2, <1>3 DEF Track
<1>5. /\ request' = [sector |-> sector, writing |-> writing, at |-> totalTicks, track |-> old]
      /\ totalTicks' = totalTicks /\ active' = TRUE /\ lastSector' = sector
      /\ bufferInit' = IF seek # 0 THEN head + Rotation(sector) ELSE bufferInit
      /\ settled' = OnTrackSince
      /\ due' = totalTicks + ComputeLatency(sector, writing)
  BY DEF Request, UpdateLast, OnTrackSince, Arrival
<1>6. seek \in Nat /\ (seek = 0 <=> new = old)
  BY <1>3, <1>4, SeekIs DEF TimeToSeek
<1>7. OnTrackSince \in Nat
  <2>1. Abs(old - request.track) * SeekTime \in Nat
    BY <1>3, <1>4, SeekIs
  <2> QED BY <1>3, <2>1 DEF OnTrackSince, Arrival
<1>8. /\ request'.sector = sector /\ request'.writing = writing /\ request'.at = totalTicks
      /\ request'.track = old
  BY <1>5
<1>9. Arrival' = head
  BY <1>3, <1>5, <1>8 DEF Arrival, TimeToSeek, Track
<1>10. head + Rotation(sector) = Rounded(head)
  BY DEF Rotation, Rounded
<1>11. bufferInit' = Rounded(OnTrackSince')
  <2>1. CASE seek = 0
    <3>1. OnTrackSince' = OnTrackSince
      BY <1>5, <1>6, <1>8, <2>1 DEF OnTrackSince, Track
    <3> QED BY <1>3, <1>5, <2>1, <3>1
  <2>2. CASE seek # 0
    <3>1. OnTrackSince' = head
      BY <1>5, <1>6, <1>8, <1>9, <2>2 DEF OnTrackSince, Track
    <3> QED BY <1>5, <1>10, <2>2, <3>1
  <2> QED BY <2>1, <2>2
<1>12. SectorUnderHead'
  <2>1. PICK at, since : at = head /\ since = OnTrackSince
    OBVIOUS
  <2>2. at \in Nat /\ since \in Nat
    BY <1>3, <1>6, <1>7, <2>1
  <2>3. PICK k \in Nat : Begins(k, at)
    BY <2>2, RoundUp
  <2>4. PICK s \in Nat : Begins(s, since)
    BY <2>2, RoundUp
  <2>5. PICK d, c : d = ModuloDiff(sector, k) /\ c = ModuloDiff(sector, s)
    OBVIOUS
  <2>6. d \in Nat /\ c \in Nat
    BY <1>1, <1>2, <2>5, CyclicDistance
  <2>7. FirstPass(sector, at) = k + d /\ FirstPass(sector, since) = s + c
    BY <1>2, <2>2, <2>3, <2>4, <2>5, FirstPassIs
  <2>8. /\ head + Rotation(sector) = k * RotationTime
        /\ (head + Rotation(sector)) \div RotationTime = k
    BY <1>1, <1>10, <2>1, <2>3, WholeSectors DEF Begins
  <2>9. bufferInit = s * RotationTime /\ bufferInit \div RotationTime = s
    BY <1>1, <1>3, <2>1, <2>4, WholeSectors DEF Begins
  <2>10. InTrackBuffer(sector, head + Rotation(sector)) <=> s + c < k
    <3>1. InTrackBuffer(sector, head + Rotation(sector))
            <=> (k * RotationTime - s * RotationTime) \div RotationTime > c
      BY <2>5, <2>8, <2>9 DEF InTrackBuffer
    <3>2. k * RotationTime - s * RotationTime = (k - s) * RotationTime /\ k - s \in Int
      BY <1>1
    <3>3. ((k - s) * RotationTime) \div RotationTime = k - s
      BY <1>1, <3>2, WholeSectors
    <3> QED BY <2>6, <3>1, <3>2, <3>3
  <2>11. due' = IF ~writing /\ seek = 0 /\ s + c < k THEN totalTicks + RotationTime
                ELSE ((k + d) + 1) * RotationTime
    <3>1. ModuloDiff(sector, (head + Rotation(sector)) \div RotationTime) = d
      BY <2>5, <2>8
    <3>2. ComputeLatency(sector, writing) =
            IF ~writing /\ seek = 0 /\ InTrackBuffer(sector, head + Rotation(sector))
            THEN RotationTime
            ELSE seek + Rotation(sector) + d * RotationTime + RotationTime
      BY <3>1 DEF ComputeLatency
    <3>3. Rotation(sector) \in Int
      BY <1>1, <1>3, <1>6 DEF Rotation
    <3>4. totalTicks + (seek + Rotation(sector) + d * RotationTime + RotationTime)
            = (head + Rotation(sector)) + d * RotationTime + RotationTime
      <4>1. d * RotationTime \in Int
        BY <1>1, <2>6
      <4> HIDE DEF seek
      <4> QED BY <1>1, <1>3, <1>6, <3>3, <4>1
    <3>5. ((k + d) + 1) * RotationTime = k * RotationTime + d * RotationTime + RotationTime
      BY <1>1, <2>6
    <3> HIDE DEF seek, head
    <3> QED BY <1>5, <2>8, <2>10, <3>2, <3>4, <3>5
  <2>12. Buffered' <=> ~writing /\ seek = 0 /\ s + c < k
    <3>1. Arrival' = request'.at <=> seek = 0
      BY <1>3, <1>6, <1>8, <1>9
    <3>2. FirstPass(request'.sector, settled') = s + c
      BY <1>5, <1>8, <2>1, <2>7
    <3>3. ASSUME seek = 0
          PROVE  (s + c + 1) * RotationTime < totalTicks + RotationTime <=> s + c < k
      <4>1. at = totalTicks
        BY <1>3, <2>1, <3>3
      <4>2. s + c \in Nat
        BY <2>6
      <4>3. ((s + c) + 1) * RotationTime < at + RotationTime <=> s + c < k
        BY <2>2, <2>3, <4>2, BufferedIs
      <4> QED BY <4>1, <4>3
    <3>4. Buffered' <=> /\ ~writing /\ seek = 0
                        /\ (s + c + 1) * RotationTime < totalTicks + RotationTime
      BY <1>8, <3>1, <3>2 DEF Buffered
    <3> QED BY <3>3, <3>4
  <2>13. FirstPass(request'.sector, Arrival') = k + d
    BY <1>8, <1>9, <2>1, <2>7
  <2> QED BY <1>8, <2>11, <2>12, <2>13 DEF SectorUnderHead
<1>13. /\ totalTicks' \in Nat /\ lastSector' \in Nat /\ settled' \in Nat
       /\ request' \in [sector : Nat, writing : BOOLEAN, at : Nat, track : Int]
       /\ lastSector' = request'.sector
  BY <1>2, <1>3, <1>4, <1>5, <1>7
<1> QED BY <1>11, <1>12, <1>13 DEF DInv

(* DInv is an invariant of the disk, whatever is asked of it and when.      *)
THEOREM DiskInvariant == DiskSpec => []DInv
<1>1. DiskInit => DInv
  <2> SUFFICES ASSUME DiskInit PROVE DInv
    OBVIOUS
  <2>1. /\ totalTicks = 0 /\ active = FALSE /\ lastSector = 0 /\ bufferInit = 0 /\ settled = 0
        /\ request = [sector |-> 0, writing |-> FALSE, at |-> 0, track |-> 0]
    BY DEF DiskInit, DiskIdle
  <2>2. RotationTime \in Nat \ {0} /\ SectorsPerTrack \in Nat \ {0}
    BY DiskAssumption DEF DiskAssumption
  <2>3. 0 \div SectorsPerTrack = 0 /\ 0 % RotationTime = 0
    <3>1. (0 * SectorsPerTrack) \div SectorsPerTrack = 0 /\ 0 * SectorsPerTrack = 0
      BY <2>2, WholeSectors
    <3>2. (RotationTime * 0 + 0) % RotationTime = 0 /\ RotationTime * 0 + 0 = 0
      BY <2>2, Remainder
    <3> QED BY <3>1, <3>2
  <2>4. OnTrackSince = 0
    BY <2>1, <2>3 DEF OnTrackSince, Track
  <2>5. bufferInit = Rounded(OnTrackSince)
    BY <2>1, <2>3, <2>4 DEF Rounded
  <2>6. SectorUnderHead
    BY <2>1 DEF SectorUnderHead
  <2>7. request \in [sector : Nat, writing : BOOLEAN, at : Nat, track : Int]
        /\ request.sector = 0
    BY <2>1
  <2> QED BY <2>1, <2>5, <2>6, <2>7 DEF DInv
<1>2. DInv /\ [DiskNext]_diskVars => DInv'
  <2> SUFFICES ASSUME DInv, [DiskNext]_diskVars PROVE DInv'
    OBVIOUS
  <2>1. ASSUME NEW sector \in Sector, NEW writing \in BOOLEAN, Request(sector, writing) PROVE DInv'
    BY <2>1, RequestKeeps
  <2>2. CASE HandleInterrupt \/ DiskTick \/ UNCHANGED diskVars
    <3>1. /\ totalTicks' = totalTicks \/ totalTicks' = totalTicks + 1
          /\ lastSector' = lastSector /\ bufferInit' = bufferInit /\ due' = due
          /\ request' = request /\ settled' = settled /\ (active' => active)
      BY <2>2 DEF HandleInterrupt, DiskTick, diskVars
    <3>2. /\ OnTrackSince' = OnTrackSince /\ Arrival' = Arrival /\ (Buffered' <=> Buffered)
      BY <3>1 DEF OnTrackSince, Arrival, Buffered
    <3>3. SectorUnderHead'
      BY <3>1, <3>2 DEF DInv, SectorUnderHead
    <3>4. totalTicks' \in Nat
      BY <3>1 DEF DInv
    <3> QED BY <3>1, <3>2, <3>3, <3>4 DEF DInv
  <2> QED BY <2>1, <2>2 DEF DiskNext
<1> QED BY <1>1, <1>2, PTL DEF DiskSpec

(* A request completes exactly when its sector has passed under the head,   *)
(* for every geometry, seek time and rotation time, and whatever requests   *)
(* came before (ComputeLatency and UpdateLast of machine/disk.cc).          *)
THEOREM SectorHasPassed == DiskSpec => []SectorUnderHead
<1>1. DInv => SectorUnderHead
  BY DEF DInv
<1> QED BY <1>1, DiskInvariant, PTL
=============================================================================
