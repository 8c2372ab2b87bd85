----------------------------- MODULE NachosMemory -----------------------------
(***************************************************************************)
(* Address spaces and physical memory: the page frames and their two       *)
(* records physPageStatus and numPagesAllocated (threads/system.cc),       *)
(* demand paging (machine/translate.cc), and the address spaces that Exec, *)
(* Fork and ShmAllocate build (userprog/addrspace.cc, exception.cc).       *)
(*                                                                         *)
(* A page fault takes its frame and loads it before the thread sleeps for  *)
(* the 1000 ticks of the disk, so it is one action.  A fork sleeps once    *)
(* for each page, between taking the frame and copying into it: other      *)
(* threads run in between.  Which thread runs is left open here; module    *)
(* NachosThreads has the dispatcher.                                       *)
(*                                                                         *)
(* The contents of a page are one value.  The TLB, which no build uses,    *)
(* the use, dirty and readOnly bits (nothing sets readOnly), and addresses *)
(* outside the page table (the kernel aborts) are left out.                *)
(***************************************************************************)
EXTENDS Integers, Sequences, FiniteSets, SequencesExt

CONSTANTS
  Thread,         \* the threads; each user thread is a process
  NumPhysPages,   \* number of page frames, of machine/machine.h
  Loads,          \* what the machine may be used for: the executables, and bounds on
                  \* the processes and on the pages that ShmAllocate extends them to;
                  \* an executable is the initial values of its pages, those of the
                  \* uninitialised ones and of the stack being 0
  Written,        \* the values that programs write
  MissingFile     \* may Exec name a file that cannot be opened?

ASSUME MemoryAssumption ==
  /\ NumPhysPages \in Nat \ {0} /\ Written \subseteq Nat
  /\ \A l \in Loads : /\ l.programs \subseteq Seq(Nat) \ {<<>>}
                       /\ l.processes \in Nat /\ l.pages \in Nat
  /\ MissingFile \in BOOLEAN

Frames == 0 .. NumPhysPages - 1
Programs == UNION {l.programs : l \in Loads}

VARIABLES
  load,                \* what this machine is used for
  physPageStatus,      \* the frames whose status is TRUE
  numPagesAllocated,   \* number of frames allocated
  mainMemory,          \* frame -> its contents
  pageTable,           \* thread -> page table, <<>> if it has no space
  executable,          \* thread -> the program its space demand-pages from
  copying,             \* thread -> the copy its fork sleeps in, or NoCopy
  phase,               \* thread -> "unborn", "user", "fork" (inside of a fork),
                       \* "created" (being forked) or "exited"
  machine,             \* "on", "aborted" (a failed ASSERT), "outside" (memory
                       \* outside of the array mainMemory was cleared) or
                       \* "deleted" (a program runs on without a page table)
  everShared           \* history: the frames that ShmAllocate gave out

memory == <<load, physPageStatus, numPagesAllocated, mainMemory, pageTable, executable,
            copying, phase, machine, everShared>>

NoCopy == [child |-> {}, page |-> 0, frame |-> -1]

(* Translation entries.  The frame of an invalid one is never read.         *)
Invalid      == [valid |-> FALSE, shared |-> FALSE, frame |-> -1]
PrivateIn(f) == [valid |-> TRUE, shared |-> FALSE, frame |-> f]
SharedIn(f)  == [valid |-> TRUE, shared |-> TRUE, frame |-> f]

Private(t) == {p \in DOMAIN pageTable[t] : pageTable[t][p].valid /\ ~pageTable[t][p].shared}
Shared(t)  == {p \in DOMAIN pageTable[t] : pageTable[t][p].shared}

Free == Frames \ physPageStatus
NextAvailPhysPage == CHOOSE f \in Free : \A g \in Free : f <= g

CanBeBorn(t) ==
  phase[t] = "unborn" /\ Cardinality({u \in Thread : phase[u] # "unborn"}) < load.processes
InUserMode(t) == machine = "on" /\ phase[t] = "user"

(* The checks of the constructors: ASSERT(pages+numPagesAllocated <=        *)
(* NumPhysPages).  Nothing is reserved.                                     *)
Fits(n) == n + numPagesAllocated <= NumPhysPages

Abort == machine' = "aborted" /\ UNCHANGED <<physPageStatus, numPagesAllocated, mainMemory,
                                   pageTable, executable, copying, phase, everShared>>

-----------------------------------------------------------------------------
MemoryInit ==
  /\ load \in Loads
  /\ physPageStatus = {} /\ numPagesAllocated = 0
  /\ mainMemory = [f \in Frames |-> 0]
  /\ pageTable = [t \in Thread |-> <<>>]
  /\ executable = [t \in Thread |-> <<>>]
  /\ copying = [t \in Thread |-> NoCopy]
  /\ phase = [t \in Thread |-> "unborn"]
  /\ machine = "on" /\ everShared = {}

(* The constructor of AddrSpace from a file: every page is invalid.         *)
NewSpace(t, program) ==
  /\ pageTable' = [pageTable EXCEPT ![t] = [p \in DOMAIN program |-> Invalid]]
  /\ executable' = [executable EXCEPT ![t] = program]

(* The first process (StartProcess) or one of a batch (ReadInputAndFork).   *)
Launch(t, program) ==
  /\ machine = "on" /\ CanBeBorn(t)
  /\ IF Fits(Len(program))
     THEN /\ NewSpace(t, program)
          /\ phase' = [phase EXCEPT ![t] = "user"]
          /\ UNCHANGED <<physPageStatus, numPagesAllocated, mainMemory, copying, machine,
                         everShared>>
     ELSE Abort

-----------------------------------------------------------------------------
(* A store to a page that is there.  Loads change nothing.                  *)
Store(t, p, v) ==
  /\ InUserMode(t) /\ p \in DOMAIN pageTable[t] /\ pageTable[t][p].valid
  /\ mainMemory' = [mainMemory EXCEPT ![pageTable[t][p].frame] = v]
  /\ UNCHANGED <<physPageStatus, numPagesAllocated, pageTable, executable, copying, phase,
                 machine, everShared>>

(* Faulty: the frame is not marked as taken.                                *)
FaultyTaken(f) == physPageStatus

(* What a page holds when it is first touched.                              *)
Loaded(t, p, f) == executable[t][p]

(* physPageStatus when the frame f is taken.                                *)
Taken(f) == physPageStatus \cup {f}

(* Translate of a page that is not there, and the PageFaultException.       *)
PageFault(t, p) ==
  LET f == NextAvailPhysPage
  IN  /\ InUserMode(t) /\ p \in DOMAIN pageTable[t] /\ ~pageTable[t][p].valid
      /\ IF Free = {} THEN Abort
         ELSE /\ physPageStatus' = Taken(f)
              /\ numPagesAllocated' = numPagesAllocated + 1
              /\ mainMemory' = [mainMemory EXCEPT ![f] = Loaded(t, p, f)]
              /\ pageTable' = [pageTable EXCEPT ![t][p] = PrivateIn(f)]
              /\ UNCHANGED <<executable, copying, phase, machine, everShared>>

-----------------------------------------------------------------------------
(* The loop of the copy constructor of AddrSpace from page i on: take a     *)
(* frame for the next private page and sleep, or finish.  The child then    *)
(* becomes ready.                                                           *)
CopyFrom(t, c, i) ==
  LET rest == {p \in Private(t) : p >= i}
      page == CHOOSE p \in rest : \A q \in rest : p <= q
  IN  IF rest = {}
      THEN /\ copying' = [copying EXCEPT ![t] = NoCopy]
           /\ phase' = [phase EXCEPT ![t] = "user", ![c] = "user"]
           /\ UNCHANGED <<physPageStatus, machine>>
      ELSE IF Free = {}
      THEN machine' = "aborted" /\ UNCHANGED <<physPageStatus, copying, phase>>
      ELSE /\ physPageStatus' = Taken(NextAvailPhysPage)
           /\ copying' = [copying EXCEPT ![t] = [child |-> {c}, page |-> page,
                                                 frame |-> NextAvailPhysPage]]
           /\ phase' = [phase EXCEPT ![t] = "fork", ![c] = "created"]
           /\ UNCHANGED machine

(* syscall_Fork.  Shared pages keep their frames, private ones get new ones.*)
Fork(t, c) ==
  /\ InUserMode(t) /\ CanBeBorn(c)
  /\ IF Fits(Cardinality(DOMAIN pageTable[t] \ Shared(t)))
     THEN /\ pageTable' = [pageTable EXCEPT ![c] = [p \in DOMAIN pageTable[t] |->
                             IF p \in Shared(t) THEN pageTable[t][p] ELSE Invalid]]
          /\ executable' = [executable EXCEPT ![c] = executable[t]]
          /\ CopyFrom(t, c, 1)
          /\ UNCHANGED <<numPagesAllocated, mainMemory, everShared>>
     ELSE Abort

(* Faulty: the page of the child is counted but not filled.                 *)
FaultyCopied(from, to) == mainMemory

(* The contents of main memory when one frame is copied to another.         *)
Copied(from, to) == [mainMemory EXCEPT ![to] = mainMemory[from]]

(* Faulty: the copied pages are not counted.                                *)
FaultyCounted(n) == n

(* numPagesAllocated when the fork has one more page.                       *)
Counted(n) == n + 1

(* The fork goes on when its sleep is over.                                 *)
ForkResumes(t, c) ==
  /\ machine = "on" /\ phase[t] = "fork" /\ copying[t].child = {c}
  /\ LET p == copying[t].page
         f == copying[t].frame
     IN  /\ mainMemory' = Copied(pageTable[t][p].frame, f)
         /\ numPagesAllocated' = Counted(numPagesAllocated)
         /\ pageTable' = [pageTable EXCEPT ![c][p] = PrivateIn(f)]
         /\ CopyFrom(t, c, p + 1)
  /\ UNCHANGED <<executable, everShared>>

-----------------------------------------------------------------------------
(* Faulty: no frame is freed.                                               *)
FaultyNoFrame(t) == {}

(* FreePhysPages. *)
Freed(t) == {pageTable[t][p].frame : p \in Private(t)}
FreePhysPages(t) ==
  /\ physPageStatus' = physPageStatus \ Freed(t)
  /\ numPagesAllocated' = numPagesAllocated - Cardinality(Freed(t))

(* syscall_Exec: the old space is gone before the new file is opened.       *)
Exec(t, program) ==
  /\ InUserMode(t)
  /\ FreePhysPages(t)
  /\ \/ /\ Len(program) + numPagesAllocated' <= NumPhysPages
        /\ NewSpace(t, program) /\ UNCHANGED machine
     \/ /\ Len(program) + numPagesAllocated' > NumPhysPages
        /\ machine' = "aborted" /\ UNCHANGED <<pageTable, executable>>
  /\ UNCHANGED <<mainMemory, copying, phase, everShared>>

(* StartProcess returns, and the program goes on with a deleted page table. *)
ExecMissing(t) ==
  /\ MissingFile /\ InUserMode(t)
  /\ FreePhysPages(t)
  /\ machine' = "deleted"
  /\ UNCHANGED <<mainMemory, pageTable, executable, copying, phase, everShared>>

-----------------------------------------------------------------------------
(* The n lowest free frames, in order.                                      *)
Lowest(n) ==
  [i \in 1 .. n |-> CHOOSE f \in Free : Cardinality({g \in Free : g < f}) = i - 1]

(* syscall_ShmAllocate of n pages.  Its check reads numPagesAllocated; if   *)
(* there are fewer free frames, a page gets the frame -1 and the kernel     *)
(* clears memory in front of the array mainMemory.                          *)
ShmAllocate(t, n) ==
  LET new == Lowest(n)
  IN  /\ InUserMode(t) /\ Len(pageTable[t]) + n <= load.pages
      /\ IF ~Fits(n) THEN Abort
         ELSE IF n > Cardinality(Free)
         THEN /\ machine' = "outside"
              /\ UNCHANGED <<physPageStatus, numPagesAllocated, mainMemory, pageTable,
                             executable, copying, phase, everShared>>
         ELSE /\ physPageStatus' = physPageStatus \cup ToSet(new)
              /\ numPagesAllocated' = numPagesAllocated + n
              /\ mainMemory' = [f \in Frames |-> IF f \in ToSet(new) THEN 0 ELSE mainMemory[f]]
              /\ pageTable' = [pageTable EXCEPT ![t] = @ \o [i \in 1 .. n |-> SharedIn(new[i])]]
              /\ everShared' = everShared \cup ToSet(new)
              /\ UNCHANGED <<executable, copying, phase, machine>>

(* syscall_Exit: the space and its frames are kept for ever.                *)
Exit(t) ==
  /\ InUserMode(t)
  /\ phase' = [phase EXCEPT ![t] = "exited"]
  /\ UNCHANGED <<physPageStatus, numPagesAllocated, mainMemory, pageTable, executable,
                 copying, machine, everShared>>

AllExited == \A t \in Thread : phase[t] = "exited" \/ (phase[t] = "unborn" /\ ~CanBeBorn(t))
Ended == (machine # "on" \/ AllExited) /\ UNCHANGED memory

MemoryNext ==
  \/ /\ \E t \in Thread :
          \/ \E program \in load.programs : Launch(t, program) \/ Exec(t, program)
          \/ \E p \in DOMAIN pageTable[t], v \in Written : Store(t, p, v)
          \/ \E p \in DOMAIN pageTable[t] : PageFault(t, p)
          \/ \E c \in Thread : Fork(t, c) \/ ForkResumes(t, c)
          \/ \E n \in 1 .. load.pages : ShmAllocate(t, n)
          \/ ExecMissing(t) \/ Exit(t)
     /\ UNCHANGED load
  \/ Ended

MemorySpec == MemoryInit /\ [][MemoryNext]_memory

-----------------------------------------------------------------------------
Entries == [valid : BOOLEAN, shared : BOOLEAN, frame : Frames \cup {-1}]
MemoryTypeOK ==
  /\ physPageStatus \subseteq Frames
  /\ numPagesAllocated \in 0 .. NumPhysPages
  /\ mainMemory \in [Frames -> Nat]
  /\ pageTable \in [Thread -> Seq(Entries)]
  /\ load \in Loads /\ executable \in [Thread -> load.programs \cup {<<>>}]
  /\ copying \in [Thread -> [child : SUBSET Thread, page : Nat, frame : Frames \cup {-1}]]
  /\ phase \in [Thread -> {"unborn", "user", "fork", "created", "exited"}]
  /\ machine \in {"on", "aborted", "outside", "deleted"}
  /\ everShared \subseteq Frames

Copying == {t \in Thread : copying[t] # NoCopy}
Mapped(t) == {pageTable[t][p].frame : p \in Private(t) \cup Shared(t)}

(* No frame has two owners: a page of a process shares its frame with no    *)
(* other page unless both are shared, nobody has the frame that a sleeping  *)
(* fork will copy into, and no page is in a frame that is free for the next *)
(* page fault (NextAvailPhysPage, FreePhysPages, the fork).                 *)
NoAliasing ==
  machine = "on" =>
    /\ \A t, u \in Thread : \A p \in Private(t), q \in Private(u) \cup Shared(u) :
         pageTable[t][p].frame = pageTable[u][q].frame => t = u /\ p = q
    /\ \A t \in Copying : /\ \A u \in Thread : copying[t].frame \notin Mapped(u)
                          /\ \A u \in Copying \ {t} : copying[t].frame # copying[u].frame
    /\ \A t \in Thread : Mapped(t) \subseteq physPageStatus

(* No frame is lost: one that is taken belongs to a process, to a fork or   *)
(* was given out as shared memory (which nothing ever frees); and the other *)
(* record, numPagesAllocated, is behind by one frame for each fork that     *)
(* sleeps and by no more: it neither drifts nor goes below zero.            *)
NoFrameLost ==
  machine = "on" =>
    /\ physPageStatus \subseteq (UNION {Mapped(t) : t \in Thread})
                                \cup {copying[t].frame : t \in Copying} \cup everShared
    /\ numPagesAllocated + Cardinality(Copying) = Cardinality(physPageStatus)

(* exception.cc before the ASSERT of ShmAllocate: "Check number of physical *)
(* pages".  A shared region only gets frames that exist.                    *)
SharedFramesExist == machine # "outside"

(* syscall.h of system_Exec: "Run the executable, stored in the Nachos file *)
(* "name". Doesn't return."                                                 *)
ExecNeverReturns == machine # "deleted"

-----------------------------------------------------------------------------
(* The address spaces implement the abstract ones: a page that is not there *)
(* has the value that the page fault will load, and a process has no pages  *)
(* before its fork is done.                                                 *)
Contents(t, p) ==
  IF pageTable[t][p].shared
  THEN [segment |-> {pageTable[t][p].frame}, value |-> 0]
  ELSE [segment |-> {},
        value |-> IF pageTable[t][p].valid THEN mainMemory[pageTable[t][p].frame]
                  ELSE executable[t][p]]

Abstract == INSTANCE NachosVirtualMemory
              WITH Process <- Thread, Segment <- Frames, Value <- Written,
                   pages <- [t \in Thread |-> IF phase[t] \in {"unborn", "created"} THEN <<>>
                                              ELSE [p \in DOMAIN pageTable[t] |-> Contents(t, p)]],
                   segments <- [f \in Frames |-> IF f \in everShared THEN mainMemory[f] ELSE 0]

ImplementsVirtualMemory == Abstract!VMSpec
=============================================================================
