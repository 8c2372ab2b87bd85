----------------------------- MODULE NachosConsole -----------------------------
(***************************************************************************)
(* The console of machine/console.cc and the two ways the kernel prints on *)
(* it: the print calls of userprog/exception.cc, in which the exceptions   *)
(* of all threads share one semaphore writeDone but each makes a Console   *)
(* of its own, and ConsoleTest of userprog/progtest.cc, which echoes what  *)
(* is typed.  The semaphore is that of threads/synch.cc; which ready       *)
(* thread runs is left open, and so is when an interrupt comes.            *)
(*                                                                         *)
(* A character is its code.                                                *)
(***************************************************************************)
EXTENDS Integers, Sequences, SequencesExt, FiniteSets, FiniteSetsExt

CONSTANTS
  Thread,        \* threads of user programs: their pids, not 0
  Script,        \* thread -> the print calls that it makes
  Typed,         \* what may be typed at the keyboard
  PageChars,     \* characters on a page of memory
  MaxInt         \* the largest int, 2147483647 in the program

EOF == -1        \* no character

ConsoleTester == 0   \* the main thread runs ConsoleTest
Semaphore == {"readAvail", "writeDone"}

Char == 0 .. 255
Ints == 2 * (MaxInt + 1)     \* how many ints there are

(* PrintInt computes a power of ten above its argument: that is an int up   *)
(* to 999999999 only, and what it prints above is no numeral.               *)
Printable == UNION {1 - 10^p .. 10^p - 1 : p \in {q \in 1 .. 9 : 10^q <= MaxInt}}
Call == [kind : {"PrintInt"}, arg : Printable] \cup [kind : {"PrintIntHex"}, arg : Int]
        \cup [kind : {"PrintChar"}, arg : Char] \cup [kind : {"PrintString"}, arg : Seq(Char \ {0})]

(* 255 typed is taken for the end of the file.                              *)
ASSUME ConsoleAssumption ==
  /\ MaxInt \in Nat /\ PageChars \in Nat \ {0}
  /\ Script \in [Thread -> Seq(Call)] /\ Typed \subseteq Seq(Char \ {255})

VARIABLES
  mode,          \* "print", "echo" or "off": what the machine was started for
  pc,            \* thread -> where it is: in a user program, before P or PutChar, ...
  calls,         \* thread -> print calls it has still to make
  text,          \* thread -> characters that the call has still to put
  unread,        \* thread -> how many characters of its string are still to come when
                 \* it gets to a page that is not in memory: one number for each such page
  console,       \* thread -> the Console of its exception
  made,          \* how many Consoles there are
  putBusy,       \* the Consoles that wait for their write interrupt
  incoming,      \* Console -> the character it holds, or EOF
  value, queue,  \* the semaphores: their counts and their waiting threads
  keyboard,      \* characters not yet read from the keyboard
  screen,        \* thread -> the characters on the display that it has put
  aborted        \* an ASSERT has failed

consoleVars == <<mode, pc, calls, text, unread, console, made, putBusy, incoming,
                 value, queue, keyboard, screen, aborted>>

-----------------------------------------------------------------------------
(* What each call puts.                                                     *)
Zero == 48
AsInt(n) == LET m == n % Ints IN IF m > MaxInt THEN m - Ints ELSE m
AsChar(n) == n % 256

(* PrintInt: PowerAbove is the power of ten above its argument, unless that *)
(* is not an int; the digits are taken from the left.                       *)
PowerAbove[n \in Nat] == IF n = 0 THEN 1 ELSE AsInt(10 * PowerAbove[n \div 10])
DigitsFrom[exp \in Nat] ==
  [v \in Nat |-> IF exp = 0 THEN <<>>
                 ELSE <<AsChar(Zero + v \div exp)>> \o DigitsFrom[exp \div 10][v % exp]]
Digits(printval) == DigitsFrom[PowerAbove[printval] \div 10][printval]
PrintInt(v) == IF v = 0 THEN <<Zero>> ELSE IF v < 0 THEN <<45>> \o Digits(-v) ELSE Digits(v)

HexDigit(x) == IF x < 10 THEN Zero + x ELSE 97 + x - 10
ConvertIntToHex[n \in Nat] ==
  IF n = 0 THEN <<>> ELSE Append(ConvertIntToHex[n \div 16], HexDigit(n % 16))
PrintIntHex(v) ==
  LET u == v % Ints
  IN  <<Zero, 120>> \o (IF u = 0 THEN <<Zero>> ELSE ConvertIntToHex[u])

PrintChar(v) == <<AsChar(v)>>

Put(call) ==
  CASE call.kind = "PrintInt"    -> PrintInt(call.arg)
    [] call.kind = "PrintIntHex" -> PrintIntHex(call.arg)
    [] call.kind = "PrintChar"   -> PrintChar(call.arg)
    [] call.kind = "PrintString" -> call.arg

-----------------------------------------------------------------------------
(* An operator whose name starts with Faulty is its successor with one      *)
(* plausible bug; no behaviour uses it, the mutation runs substitute it.    *)

NewConsole == made' = made + 1 /\ incoming' = Append(incoming, EOF)

(* Semaphore::P, until it has the permit; a thread that was woken looks at  *)
(* the count again.                                                         *)
P(t, s, after) ==
  IF value[s] > 0
  THEN value' = [value EXCEPT ![s] = @ - 1] /\ pc' = [pc EXCEPT ![t] = after] /\ UNCHANGED queue
  ELSE queue' = [queue EXCEPT ![s] = Append(@, t)] /\ pc' = [pc EXCEPT ![t] = "asleep"]
       /\ UNCHANGED value

(* Faulty: a thread that was woken does not look at the count again.        *)
FaultyBefore(s) == IF s = "readAvail" THEN "echo" ELSE "put"

Before(s) == IF s = "readAvail" THEN "awaiting" ELSE IF mode = "echo" THEN "writing" ELSE "print"
(* Faulty: the first waiting thread stays on the queue.                     *)
FaultyV(s) == value' = [value EXCEPT ![s] = @ + 1] /\ UNCHANGED <<queue, pc>>

(* Semaphore::V                                                             *)
V(s) ==
  /\ value' = [value EXCEPT ![s] = @ + 1]
  /\ queue' = [queue EXCEPT ![s] = IF @ = <<>> THEN @ ELSE Tail(@)]
  /\ pc' = IF queue[s] = <<>> THEN pc ELSE [pc EXCEPT ![Head(queue[s])] = Before(s)]

PutChar(t, ch) ==
  IF console[t] \in putBusy THEN aborted' = TRUE /\ UNCHANGED <<screen, putBusy>>
  ELSE /\ screen' = [screen EXCEPT ![t] = Append(@, ch)]
       /\ putBusy' = putBusy \cup {console[t]} /\ UNCHANGED aborted

WriteDone(c) ==
  /\ ~aborted /\ c \in putBusy
  /\ putBusy' = putBusy \ {c} /\ V("writeDone")
  /\ UNCHANGED <<mode, calls, text, unread, console, made, incoming, keyboard, screen, aborted>>

(* Faulty: a character is read whether or not there is room for it.         *)
FaultyRoom(c) == c <= made

Room(c) == c <= made /\ incoming[c] = EOF

CheckCharAvail(c) ==
  /\ ~aborted /\ Room(c) /\ keyboard # <<>>
  /\ incoming' = [incoming EXCEPT ![c] = Head(keyboard)]
  /\ keyboard' = Tail(keyboard) /\ V("readAvail")
  /\ UNCHANGED <<mode, calls, text, unread, console, made, putBusy, screen, aborted>>

-----------------------------------------------------------------------------
(* The print calls.  PrintString reads its string up to the null character *)
(* byte by byte, and each ReadMem that is the first on its page may find    *)
(* that the page is not in memory.  These are the reads, by the number of   *)
(* characters still to come, if n characters begin at this offset on a page.*)
PageStarts(n, offset) == {n} \cup {k \in 0 .. n : (offset + (n - k)) % PageChars = 0}
MayBeMissing(call) ==
  IF call.kind = "PrintString"
  THEN UNION {SUBSET PageStarts(Len(call.arg), offset) : offset \in 0 .. PageChars - 1}
  ELSE {{}}
PageMissing(t) == Len(text[t]) \in unread[t]

EnterPrint(t) ==
  /\ ~aborted /\ mode = "print" /\ pc[t] = "user" /\ calls[t] # <<>>
  /\ NewConsole /\ console' = [console EXCEPT ![t] = made']
  /\ text' = [text EXCEPT ![t] = Put(Head(calls[t]))]
  /\ calls' = [calls EXCEPT ![t] = Tail(@)]
  /\ \E missing \in MayBeMissing(Head(calls[t])) : unread' = [unread EXCEPT ![t] = missing]
  /\ pc' = [pc EXCEPT ![t] = "print"]
  /\ UNCHANGED <<mode, putBusy, value, queue, keyboard, screen, aborted>>

(* ReadMem raises a page fault: its exception has a Console of its own, and *)
(* the thread sleeps until the page is there; then ReadMem is tried again.  *)
StringFaults(t) ==
  /\ ~aborted /\ pc[t] = "print" /\ PageMissing(t)
  /\ NewConsole /\ unread' = [unread EXCEPT ![t] = @ \ {Len(text[t])}]
  /\ pc' = [pc EXCEPT ![t] = "faulted"]
  /\ UNCHANGED <<mode, calls, text, console, putBusy, value, queue, keyboard, screen, aborted>>

(* Faulty: the exception returns past the read, and the character is lost.  *)
FaultyPageArrives(t) ==
  /\ ~aborted /\ pc[t] = "faulted" /\ pc' = [pc EXCEPT ![t] = "print"]
  /\ text' = [text EXCEPT ![t] = IF @ = <<>> THEN @ ELSE Tail(@)]
  /\ UNCHANGED <<mode, calls, unread, console, made, putBusy, incoming, value, queue, keyboard,
                 screen, aborted>>

PageArrives(t) ==
  /\ ~aborted /\ pc[t] = "faulted" /\ pc' = [pc EXCEPT ![t] = "print"]
  /\ UNCHANGED <<mode, calls, text, unread, console, made, putBusy, incoming, value, queue,
                 keyboard, screen, aborted>>

PrintP(t) ==
  /\ ~aborted /\ pc[t] = "print" /\ ~PageMissing(t) /\ text[t] # <<>>
  /\ P(t, "writeDone", "put")
  /\ UNCHANGED <<mode, calls, text, unread, console, made, putBusy, incoming, keyboard, screen,
                 aborted>>

PrintPut(t) ==
  /\ ~aborted /\ pc[t] = "put"
  /\ PutChar(t, Head(text[t]))
  /\ text' = [text EXCEPT ![t] = Tail(@)]
  /\ pc' = [pc EXCEPT ![t] = "print"]
  /\ UNCHANGED <<mode, calls, unread, console, made, incoming, value, queue, keyboard>>

PrintReturns(t) ==
  /\ ~aborted /\ pc[t] = "print" /\ ~PageMissing(t) /\ text[t] = <<>>
  /\ pc' = [pc EXCEPT ![t] = "user"]
  /\ UNCHANGED <<mode, calls, text, unread, console, made, putBusy, incoming, value, queue,
                 keyboard, screen, aborted>>

-----------------------------------------------------------------------------
(* ConsoleTest: wait for a character, echo it, wait for the write; 'q' ends *)
(* the loop and the machine.                                                *)
Q == 113

EchoAwaits ==
  /\ ~aborted /\ mode = "echo" /\ pc[ConsoleTester] = "awaiting"
  /\ P(ConsoleTester, "readAvail", "echo")
  /\ UNCHANGED <<mode, calls, text, unread, console, made, putBusy, incoming, keyboard, screen,
                 aborted>>

GetChar(c) == incoming' = [incoming EXCEPT ![c] = EOF]

EchoPuts ==
  /\ ~aborted /\ mode = "echo" /\ pc[ConsoleTester] = "echo"
  /\ LET c  == console[ConsoleTester]
         ch == incoming[c]
     IN  /\ GetChar(c) /\ PutChar(ConsoleTester, ch)
         /\ text' = [text EXCEPT ![ConsoleTester] = <<ch>>]
  /\ pc' = [pc EXCEPT ![ConsoleTester] = "writing"]
  /\ UNCHANGED <<mode, calls, unread, console, made, value, queue, keyboard>>

EchoWrites ==
  /\ ~aborted /\ mode = "echo" /\ pc[ConsoleTester] = "writing"
  /\ P(ConsoleTester, "writeDone", IF text[ConsoleTester] = <<Q>> THEN "done" ELSE "awaiting")
  /\ UNCHANGED <<mode, calls, text, unread, console, made, putBusy, incoming, keyboard, screen,
                 aborted>>

-----------------------------------------------------------------------------
ConsoleThread == Thread \cup {ConsoleTester}

ConsoleStart(m) ==
  /\ mode = m
  /\ pc = [t \in ConsoleThread |-> IF t = ConsoleTester THEN "awaiting" ELSE "user"]
  /\ unread = [t \in ConsoleThread |-> {}]
  /\ text = [t \in ConsoleThread |-> <<>>]
  /\ console = [t \in ConsoleThread |-> 1]
  /\ made = (IF m = "echo" THEN 1 ELSE 0)
  /\ incoming = (IF m = "echo" THEN <<EOF>> ELSE <<>>)
  /\ putBusy = {} /\ screen = [t \in ConsoleThread |-> <<>>] /\ aborted = FALSE
  /\ value = [s \in Semaphore |-> IF s = "writeDone" /\ m = "print" THEN 1 ELSE 0]
  /\ queue = [s \in Semaphore |-> <<>>]

ConsoleInit ==
  \E m \in {"print", "echo"} :
    /\ ConsoleStart(m)
    /\ calls = [t \in Thread |-> IF m = "print" THEN Script[t] ELSE <<>>]
    /\ keyboard \in IF m = "echo" THEN {Append(k, Q) : k \in Typed} ELSE Typed

ConsoleIdle ==
  ConsoleStart("off") /\ calls = [t \in Thread |-> <<>>] /\ keyboard = <<>>

PrintStep(t) ==
  EnterPrint(t) \/ StringFaults(t) \/ PageArrives(t) \/ PrintP(t) \/ PrintPut(t) \/ PrintReturns(t)
ConsoleStep == EchoAwaits \/ EchoPuts \/ EchoWrites

ConsoleNext ==
  \/ \E t \in Thread : PrintStep(t)
  \/ ConsoleStep
  \/ \E c \in 1 .. made : WriteDone(c) \/ CheckCharAvail(c)

ConsoleSpec == (ConsoleInit \/ ConsoleIdle) /\ [][ConsoleNext]_consoleVars

(* Every call makes a Console, and so does every page that it waits for;    *)
(* ConsoleTest has one.                                                     *)
MostFaults(call) ==
  IF call.kind = "PrintString" THEN 1 + (Len(call.arg) + PageChars - 1) \div PageChars ELSE 0
MaxConsoles ==
  1 + MapThenSumSet(LAMBDA t : MapThenSumSet(LAMBDA k : 1 + MostFaults(Script[t][k]),
                                             DOMAIN Script[t]), Thread)

(* A ready thread gets its turn (FindNextToRun takes the ready list from    *)
(* the front), and an interrupt that is pending comes when its time does.   *)
ConsoleFairness ==
  /\ \A t \in Thread : WF_consoleVars(PrintStep(t))
  /\ WF_consoleVars(ConsoleStep)
  /\ \A c \in 1 .. MaxConsoles : WF_consoleVars(WriteDone(c)) /\ WF_consoleVars(CheckCharAvail(c))

-----------------------------------------------------------------------------
(* What the calls should put, digit by digit from the right.                *)
Reversed(base) ==
  LET d[k \in Nat] == IF k = 0 THEN <<>> ELSE <<HexDigit(k % base)>> \o d[k \div base] IN d
Numeral(n, base) == IF n = 0 THEN <<Zero>> ELSE Reverse(Reversed(base)[n])
Expected(call) ==
  CASE call.kind = "PrintInt" /\ call.arg < 0  -> <<45>> \o Numeral(-call.arg, 10)
    [] call.kind = "PrintInt" /\ call.arg >= 0 -> Numeral(call.arg, 10)
    [] call.kind = "PrintIntHex" -> <<Zero, 120>> \o Numeral(call.arg % Ints, 16)
    [] call.kind = "PrintChar"   -> <<call.arg>>
    [] call.kind = "PrintString" -> call.arg

(* One character at most is on its way to the display, whichever Console it *)
(* was put on: the permit of writeDone is with the semaphore, with a thread *)
(* about to put, or with a character; so the ASSERT of PutChar holds.       *)
OneCharOnItsWay ==
  /\ ~aborted
  /\ mode = "print" =>
       value["writeDone"] + Cardinality({t \in Thread : pc[t] = "put"}) + Cardinality(putBusy) = 1
  /\ mode = "echo" =>
       value["writeDone"] + Cardinality(putBusy) = (IF pc[ConsoleTester] \in {"writing", "asleep"}
                                                       /\ queue["readAvail"] = <<>> THEN 1 ELSE 0)

(* The display shows of every thread a beginning of what its print calls    *)
(* so far stand for, in their order, with none of it lost or doubled when   *)
(* threads and write interrupts interleave and page faults come between the *)
(* characters of a string; ConsoleTest echoes the keys in the order in      *)
(* which they were typed.                                                   *)
ScreenShowsText ==
  /\ mode = "print" => \A t \in Thread :
       LET begun == SubSeq(Script[t], 1, Len(Script[t]) - Len(calls[t]))
       IN  screen[t] \o text[t] = FlattenSeq([k \in DOMAIN begun |-> Expected(begun[k])])
  /\ mode = "echo" =>
       LET held == IF incoming[1] = EOF THEN <<>> ELSE <<incoming[1]>>
       IN  screen[ConsoleTester] \o held \o keyboard \in {Append(k, Q) : k \in Typed}

(* Every print call returns, whatever the other threads print: no permit of *)
(* writeDone is lost and no wake-up goes to a thread that cannot use it;    *)
(* ConsoleTest ends when 'q' is typed.                                      *)
PrintsEnd ==
  /\ \A t \in Thread : mode = "print" ~> (calls[t] = <<>> /\ pc[t] = "user")
  /\ mode = "echo" ~> pc[ConsoleTester] = "done"
=============================================================================
