-------------------------- MODULE NachosMemoryProofs --------------------------
(***************************************************************************)
(* Proofs about the address spaces and the page frames: the inductive      *)
(* invariant IInv of NachosMemory, which says what the page tables, the    *)
(* two records of the frames and the children of sleeping forks have to do *)
(* with each other; that no frame has two owners and none is lost; and     *)
(* that the kernel implements NachosVirtualMemory, step by step.           *)
(*                                                                         *)
(* What is claimed of the page tables holds while the machine is on: after *)
(* a failed ASSERT, or when a program runs on without its page table,      *)
(* nothing happens any more in the model.                                  *)
(***************************************************************************)
EXTENDS NachosMemory, NachosLists, TLAPS

(* The frames that sleeping forks have taken and not filled.                *)
CopyFrames == {copying[t].frame : t \in Copying}

(* What the entries of the page tables are: the frame of a page is taken,   *)
(* that of a shared page was given out as shared, that of a private one was *)
(* not and no fork is about to fill it; a page that is not shared is one of *)
(* the executable.                                                          *)
Entry(t, p) ==
  /\ ~pageTable[t][p].valid => pageTable[t][p] = Invalid
  /\ ~pageTable[t][p].shared => p \in DOMAIN executable[t]
  /\ pageTable[t][p].valid => pageTable[t][p].frame \in physPageStatus
  /\ pageTable[t][p].shared => pageTable[t][p].valid /\ pageTable[t][p].frame \in everShared
  /\ pageTable[t][p].valid /\ ~pageTable[t][p].shared
       => pageTable[t][p].frame \notin everShared \cup CopyFrames
EntriesOK == \A t \in Thread : \A p \in DOMAIN pageTable[t] : Entry(t, p)

(* No two private pages are in one frame.                                   *)
OneOwner ==
  \A t, u \in Thread : \A p \in Private(t), q \in Private(u) :
    pageTable[t][p].frame = pageTable[u][q].frame => t = u /\ p = q

(* A sleeping fork has a frame of its own.                                  *)
Reserved ==
  /\ everShared \subseteq physPageStatus
  /\ CopyFrames \subseteq physPageStatus \ everShared
  /\ \A t, u \in Copying : copying[t].frame = copying[u].frame => t = u

(* Every frame that is taken has an owner, and numPagesAllocated lacks the  *)
(* frames of the sleeping forks only.                                       *)
Accounted ==
  /\ \A f \in physPageStatus \ (CopyFrames \cup everShared) :
       \E t \in Thread : \E p \in Private(t) : pageTable[t][p].frame = f
  /\ numPagesAllocated + Cardinality(CopyFrames) = Cardinality(physPageStatus)

(* The child c of a fork of t that sleeps: it has the private pages in      *)
(* front of the one being copied, with the same contents, and all the       *)
(* shared ones.                                                             *)
HalfCopied(t, c) ==
  /\ c # t /\ phase[c] = "created" /\ executable[c] = executable[t]
  /\ copying[t].page \in Private(t)
  /\ DOMAIN pageTable[c] = DOMAIN pageTable[t]
  /\ \A p \in DOMAIN pageTable[t] :
       /\ p \in Private(t) /\ p < copying[t].page =>
            /\ p \in Private(c)
            /\ mainMemory[pageTable[c][p].frame] = mainMemory[pageTable[t][p].frame]
       /\ p \in Shared(t) => pageTable[c][p] = pageTable[t][p]
       /\ p \notin Shared(t) /\ ~(p \in Private(t) /\ p < copying[t].page)
            => pageTable[c][p] = Invalid
Forking ==
  /\ \A t \in Thread : phase[t] = "fork" <=> copying[t] # NoCopy
  /\ \A t \in Thread : phase[t] = "unborn" => pageTable[t] = <<>>
  /\ \A t \in Copying : \E c \in Thread : copying[t].child = {c} /\ HalfCopied(t, c)
  /\ \A t, u \in Copying : copying[t].child = copying[u].child => t = u

WhileOnInv == EntriesOK /\ OneOwner /\ Reserved /\ Accounted /\ Forking
IInv == MemoryTypeOK /\ (machine = "on" => WhileOnInv)
-----------------------------------------------------------------------------
(* Sets of frames are finite.                                               *)
LEMMA FramesFinite ==
  ASSUME NEW S \in SUBSET Frames
  PROVE  IsFiniteSet(S) /\ Cardinality(S) \in 0 .. NumPhysPages
<1>1. IsFiniteSet(Frames) /\ Cardinality(Frames) = NumPhysPages
  BY MemoryAssumption, FS_Interval DEF MemoryAssumption, Frames
<1>2. IsFiniteSet(S) /\ Cardinality(S) <= Cardinality(Frames)
  BY <1>1, FS_Subset
<1>3. Cardinality(S) \in Nat
  BY <1>2, FS_CardinalityType
<1> QED BY <1>1, <1>2, <1>3, MemoryAssumption DEF MemoryAssumption

(* A count that lacks the frames of C of those that are taken is in range.  *)
LEMMA CountFits ==
  ASSUME NEW S \in SUBSET Frames, NEW C \in SUBSET S, NEW n \in Int,
         n + Cardinality(C) = Cardinality(S)
  PROVE  n \in 0 .. NumPhysPages
<1>1. /\ IsFiniteSet(S) /\ Cardinality(S) \in 0 .. NumPhysPages
      /\ Cardinality(C) \in 0 .. NumPhysPages
  BY FramesFinite
<1>2. Cardinality(C) <= Cardinality(S)
  BY <1>1, FS_Subset
<1> QED BY <1>1, <1>2, MemoryAssumption DEF MemoryAssumption

(* NextAvailPhysPage finds a frame that is free.                            *)
LEMMA NextFrame ==
  ASSUME Free # {}
  PROVE  NextAvailPhysPage \in Frames \ physPageStatus
<1>1. Free \in SUBSET Nat
  BY MemoryAssumption DEF MemoryAssumption, Free, Frames
<1>2. \E f \in Free : \A g \in Free : f <= g
  BY <1>1, MinExists
<1>3. NextAvailPhysPage \in Free
  BY <1>2 DEF NextAvailPhysPage
<1> QED BY <1>3 DEF Free

(* Executables are sequences of numbers.                                    *)
LEMMA ProgramSeq ==
  ASSUME MemoryTypeOK, NEW program \in load.programs
  PROVE  program \in Seq(Nat) /\ program # <<>>
BY MemoryAssumption DEF MemoryAssumption, MemoryTypeOK

(* The sets of pages of a process, from its page table.                     *)
LEMMA PagesOf ==
  ASSUME MemoryTypeOK, NEW t \in Thread
  PROVE  /\ pageTable[t] \in Seq(Entries)
         /\ DOMAIN pageTable[t] \subseteq Nat \ {0}
         /\ \A p \in DOMAIN pageTable[t] : pageTable[t][p] \in Entries
         /\ Private(t) \in SUBSET DOMAIN pageTable[t] /\ Shared(t) \in SUBSET DOMAIN pageTable[t]
         /\ \A p \in DOMAIN pageTable[t] :
              /\ p \in Private(t) <=> pageTable[t][p].valid /\ ~pageTable[t][p].shared
              /\ p \in Shared(t) <=> pageTable[t][p].shared
<1>1. pageTable[t] \in Seq(Entries)
  BY DEF MemoryTypeOK
<1>2. \A p \in DOMAIN pageTable[t] : pageTable[t][p] \in Entries /\ p \in Nat \ {0}
  BY <1>1
<1> QED BY <1>1, <1>2 DEF Private, Shared

(* The forms of an entry.                                                   *)
LEMMA EntryForms ==
  /\ Invalid \in Entries /\ ~Invalid.valid /\ ~Invalid.shared
  /\ \A f \in Frames : /\ PrivateIn(f) \in Entries /\ PrivateIn(f).valid
                       /\ ~PrivateIn(f).shared /\ PrivateIn(f).frame = f
                       /\ SharedIn(f) \in Entries /\ SharedIn(f).valid
                       /\ SharedIn(f).shared /\ SharedIn(f).frame = f
BY DEF Invalid, PrivateIn, SharedIn, Entries

(* A step that ends the run keeps what is claimed of the types only.        *)
LEMMA AbortKeeps ==
  ASSUME IInv, Abort, UNCHANGED load PROVE IInv'
BY DEF IInv, MemoryTypeOK, Abort

(* What a page fault loads is a value.                                      *)
LEMMA LoadedValue ==
  ASSUME MemoryTypeOK, EntriesOK, NEW t \in Thread, NEW p \in DOMAIN pageTable[t],
         ~pageTable[t][p].valid
  PROVE  executable[t][p] \in Nat
<1>1. p \in DOMAIN executable[t]
  BY EntryForms DEF EntriesOK, Entry
<1>2. executable[t] \in load.programs
  BY <1>1 DEF MemoryTypeOK
<1> QED BY <1>1, <1>2, ProgramSeq

-----------------------------------------------------------------------------
(* The machine boots in a state of the invariant.                           *)
LEMMA InitIInv == ASSUME MemoryInit PROVE IInv
<1>1. MemoryTypeOK
  <2>1. <<>> \in Seq(Entries)
    OBVIOUS
  <2>2. NoCopy \in [child : SUBSET Thread, page : Nat, frame : Frames \cup {-1}]
    BY DEF NoCopy
  <2> QED BY <2>1, <2>2, MemoryAssumption DEF MemoryInit, MemoryTypeOK, MemoryAssumption
<1>2. \A t \in Thread : DOMAIN pageTable[t] = {} /\ Private(t) = {} /\ Shared(t) = {}
  BY DEF MemoryInit, Private, Shared
<1>3. Copying = {} /\ CopyFrames = {}
  BY DEF MemoryInit, Copying, CopyFrames
<1>4. EntriesOK /\ OneOwner /\ Reserved
  BY <1>2, <1>3 DEF MemoryInit, EntriesOK, OneOwner, Reserved
<1>5. Accounted
  BY <1>3, FS_EmptySet DEF MemoryInit, Accounted
<1>6. Forking
  BY <1>3 DEF MemoryInit, Forking
<1> QED BY <1>1, <1>4, <1>5, <1>6 DEF IInv, WhileOnInv

(* A step of a process that is not forking leaves the sleeping forks alone. *)
LEMMA ForkingKept ==
  ASSUME MemoryTypeOK, WhileOnInv, UNCHANGED copying,
         \A u \in Thread : phase[u] \in {"fork", "created"} =>
           /\ pageTable'[u] = pageTable[u] /\ executable'[u] = executable[u]
           /\ phase'[u] = phase[u]
           /\ \A p \in Private(u) :
                mainMemory'[pageTable[u][p].frame] = mainMemory[pageTable[u][p].frame],
         \A u \in Thread : phase[u] # "fork" => phase'[u] # "fork",
         \A u \in Thread : phase'[u] = "unborn" => pageTable'[u] = <<>>
  PROVE  Forking'
<1>1. Copying' = Copying
  BY DEF Copying
<1>2. \A u \in Thread : phase[u] \in {"fork", "created"} =>
        Private(u)' = Private(u) /\ Shared(u)' = Shared(u)
  BY DEF Private, Shared
<1>3. ASSUME NEW t \in Copying, NEW c \in Thread, HalfCopied(t, c) PROVE HalfCopied(t, c)'
  <2>1. t \in Thread /\ phase[t] = "fork" /\ phase[c] = "created"
    BY <1>3 DEF Copying, WhileOnInv, Forking, HalfCopied
  <2> QED BY <1>2, <1>3, <2>1 DEF HalfCopied
<1>4. \A t \in Thread : phase'[t] = "fork" <=> copying'[t] # NoCopy
  BY DEF WhileOnInv, Forking
<1>5. \A t \in Copying : \E c \in Thread : copying'[t].child = {c} /\ HalfCopied(t, c)'
  BY <1>3 DEF WhileOnInv, Forking
<1> QED BY <1>1, <1>4, <1>5 DEF WhileOnInv, Forking

(* PageFault takes a frame nobody has.                                      *)
LEMMA PageFaultKeeps ==
  ASSUME IInv, NEW t \in Thread, NEW p \in DOMAIN pageTable[t], PageFault(t, p),
         UNCHANGED load
  PROVE  IInv'
<1> DEFINE f == NextAvailPhysPage
<1>1. CASE Free = {}
  BY <1>1, AbortKeeps DEF PageFault
<1>2. CASE Free # {}
  <2>1. MemoryTypeOK /\ WhileOnInv /\ machine = "on" /\ phase[t] = "user"
    BY DEF IInv, PageFault, InUserMode
  <2>2. f \in Frames \ physPageStatus
    BY <1>2, NextFrame
  <2>3. /\ physPageStatus' = physPageStatus \cup {f}
        /\ numPagesAllocated' = numPagesAllocated + 1
        /\ mainMemory' = [mainMemory EXCEPT ![f] = executable[t][p]]
        /\ pageTable' = [pageTable EXCEPT ![t] = [pageTable[t] EXCEPT ![p] = PrivateIn(f)]]
        /\ UNCHANGED <<load, executable, copying, phase, machine, everShared>>
        /\ ~pageTable[t][p].valid
    BY <1>2 DEF PageFault, Taken, Loaded
  <2> HIDE DEF f
  <2>4. /\ pageTable'[t] \in Seq(Entries) /\ DOMAIN pageTable'[t] = DOMAIN pageTable[t]
        /\ pageTable'[t][p] = PrivateIn(f)
        /\ \A q \in DOMAIN pageTable[t] : q # p => pageTable'[t][q] = pageTable[t][q]
        /\ \A u \in Thread : u # t => pageTable'[u] = pageTable[u]
        /\ pageTable' \in [Thread -> Seq(Entries)]
    BY <2>1, <2>2, <2>3, EntryForms DEF MemoryTypeOK
  <2>5. /\ \A u \in Thread : u # t => Private(u)' = Private(u) /\ Shared(u)' = Shared(u)
        /\ Private(t)' = Private(t) \cup {p} /\ Shared(t)' = Shared(t) /\ p \notin Private(t)
    BY <2>1, <2>2, <2>3, <2>4, PagesOf, EntryForms DEF Private, Shared, WhileOnInv, EntriesOK, Entry
  <2>6. Copying' = Copying /\ CopyFrames' = CopyFrames
    BY <2>3 DEF Copying, CopyFrames
  <2>7. EntriesOK'
    BY <2>1, <2>2, <2>3, <2>4, <2>5, <2>6, EntryForms DEF WhileOnInv, EntriesOK, Entry, Reserved
  <2>8. OneOwner'
    BY <2>1, <2>2, <2>3, <2>4, <2>5, EntryForms, PagesOf DEF WhileOnInv, EntriesOK, Entry, OneOwner
  <2>9. Reserved'
    BY <2>1, <2>3, <2>6 DEF WhileOnInv, Reserved
  <2>10. Accounted'
    <3>1. Cardinality(physPageStatus') = Cardinality(physPageStatus) + 1
      BY <2>1, <2>2, <2>3, FramesFinite, FS_AddElement DEF MemoryTypeOK
    <3>2. \A g \in physPageStatus' \ (CopyFrames' \cup everShared') :
            \E u \in Thread : \E q \in Private(u)' : pageTable'[u][q].frame = g
      BY SMTT(30), <2>1, <2>2, <2>3, <2>4, <2>5, <2>6, EntryForms, PagesOf DEF WhileOnInv, Accounted
    <3>3. Cardinality(CopyFrames) \in Nat /\ Cardinality(physPageStatus) \in Nat
      BY <2>1, FramesFinite DEF MemoryTypeOK, WhileOnInv, Reserved
    <3> QED BY <2>1, <2>3, <2>6, <3>1, <3>2, <3>3 DEF WhileOnInv, Accounted, MemoryTypeOK
  <2>11. Forking'
    <3>1. \A u \in Thread : \A q \in Private(u) : pageTable[u][q].frame \in physPageStatus
      BY <2>1, PagesOf DEF WhileOnInv, EntriesOK, Entry
    <3>2. \A u \in Thread : \A q \in Private(u) :
            mainMemory'[pageTable[u][q].frame] = mainMemory[pageTable[u][q].frame]
      BY <2>1, <2>2, <2>3, <3>1 DEF MemoryTypeOK
    <3>3. \A u \in Thread : phase[u] = "unborn" => u # t /\ pageTable[u] = <<>>
      BY <2>1 DEF WhileOnInv, Forking
    <3> QED BY <2>1, <2>3, <2>4, <3>2, <3>3, ForkingKept
  <2>12. MemoryTypeOK'
    <3>1. executable[t][p] \in Nat
      BY <2>1, <2>3, LoadedValue DEF WhileOnInv
    <3>2. numPagesAllocated' \in Int /\ physPageStatus' \in SUBSET Frames
      BY <2>1, <2>2, <2>3 DEF MemoryTypeOK
    <3>3. numPagesAllocated' \in 0 .. NumPhysPages
      BY <2>9, <2>10, <3>2, CountFits DEF Accounted, Reserved
    <3> QED BY <2>1, <2>2, <2>3, <2>4, <3>1, <3>3 DEF MemoryTypeOK
  <2> QED BY <2>3, <2>7, <2>8, <2>9, <2>10, <2>11, <2>12 DEF IInv, WhileOnInv
<1> QED BY <1>1, <1>2

-----------------------------------------------------------------------------
(* A page table of pages that are not there.                                *)
LEMMA EmptyTable ==
  ASSUME NEW program \in Seq(Nat)
  PROVE  LET table == [p \in DOMAIN program |-> Invalid]
         IN  /\ table \in Seq(Entries) /\ DOMAIN table = DOMAIN program
             /\ \A p \in DOMAIN program : table[p] = Invalid
<1>1. DOMAIN program = 1 .. Len(program) /\ Len(program) \in Nat
  OBVIOUS
<1> QED BY <1>1, EntryForms

(* FreePhysPages frees frames that nobody else has, and counts them.        *)
LEMMA FreePhysPagesFrees ==
  ASSUME MemoryTypeOK, WhileOnInv, NEW t \in Thread, FreePhysPages(t)
  PROVE  /\ Freed(t) \in SUBSET physPageStatus /\ Freed(t) \cap (CopyFrames \cup everShared) = {}
         /\ physPageStatus' = physPageStatus \ Freed(t)
         /\ physPageStatus' \in SUBSET Frames /\ CopyFrames \in SUBSET physPageStatus'
         /\ numPagesAllocated' \in 0 .. NumPhysPages
         /\ numPagesAllocated' + Cardinality(CopyFrames) = Cardinality(physPageStatus')
<1>1. Freed(t) \in SUBSET physPageStatus /\ Freed(t) \cap (CopyFrames \cup everShared) = {}
  BY PagesOf DEF Freed, WhileOnInv, EntriesOK, Entry
<1>2. physPageStatus' = physPageStatus \ Freed(t) /\ physPageStatus \in SUBSET Frames
      /\ numPagesAllocated' = numPagesAllocated - Cardinality(Freed(t))
  BY DEF FreePhysPages, MemoryTypeOK
<1>3. CopyFrames \in SUBSET physPageStatus /\ CopyFrames \in SUBSET physPageStatus'
  BY <1>1, <1>2 DEF WhileOnInv, Reserved
<1>4. /\ IsFiniteSet(physPageStatus) /\ Cardinality(physPageStatus) \in Nat
      /\ Cardinality(Freed(t)) \in Nat /\ Cardinality(CopyFrames) \in Nat
  BY <1>1, <1>2, <1>3, FramesFinite
<1>5. physPageStatus \cap Freed(t) = Freed(t)
  BY <1>1
<1>6. Cardinality(physPageStatus') = Cardinality(physPageStatus) - Cardinality(Freed(t))
  <2>1. Cardinality(physPageStatus \ Freed(t))
          = Cardinality(physPageStatus) - Cardinality(physPageStatus \cap Freed(t))
    BY <1>4, FS_Difference
  <2> QED BY <1>2, <1>5, <2>1
<1>7. numPagesAllocated' \in Int
      /\ numPagesAllocated' + Cardinality(CopyFrames) = Cardinality(physPageStatus')
  BY <1>2, <1>4, <1>6 DEF MemoryTypeOK, WhileOnInv, Accounted
<1>8. physPageStatus' \in SUBSET Frames
  BY <1>2
<1> QED BY <1>1, <1>2, <1>3, <1>7, <1>8, CountFits

(* A new address space, once the frames of the old one are free.            *)
LEMMA NewSpaceKeeps ==
  ASSUME MemoryTypeOK, WhileOnInv, NEW t \in Thread, phase[t] \in {"unborn", "user"},
         NEW program \in load.programs, FreePhysPages(t), NewSpace(t, program),
         phase' = [phase EXCEPT ![t] = "user"],
         UNCHANGED <<load, mainMemory, copying, machine, everShared>>
  PROVE  IInv'
<1>1. program \in Seq(Nat)
  BY ProgramSeq
<1>2. /\ pageTable' \in [Thread -> Seq(Entries)]
      /\ DOMAIN pageTable'[t] = DOMAIN program
      /\ \A p \in DOMAIN program : pageTable'[t][p] = Invalid
      /\ \A u \in Thread : u # t => pageTable'[u] = pageTable[u]
  BY <1>1, EmptyTable DEF NewSpace, MemoryTypeOK
<1>3. /\ executable'[t] = program /\ \A u \in Thread : u # t => executable'[u] = executable[u]
      /\ executable' \in [Thread -> load.programs \cup {<<>>}]
      /\ phase' \in [Thread -> {"unborn", "user", "fork", "created", "exited"}]
      /\ phase'[t] = "user" /\ \A u \in Thread : u # t => phase'[u] = phase[u]
  BY DEF NewSpace, MemoryTypeOK
<1>4. /\ \A u \in Thread : u # t => Private(u)' = Private(u) /\ Shared(u)' = Shared(u)
      /\ Private(t)' = {} /\ Shared(t)' = {}
  BY <1>2, EntryForms DEF Private, Shared
<1>5. Copying' = Copying /\ CopyFrames' = CopyFrames
  BY DEF Copying, CopyFrames
<1>6. /\ Freed(t) \in SUBSET physPageStatus /\ Freed(t) \cap (CopyFrames \cup everShared) = {}
      /\ physPageStatus' = physPageStatus \ Freed(t)
      /\ physPageStatus' \in SUBSET Frames /\ CopyFrames \in SUBSET physPageStatus'
      /\ numPagesAllocated' \in 0 .. NumPhysPages
      /\ numPagesAllocated' + Cardinality(CopyFrames) = Cardinality(physPageStatus')
  BY FreePhysPagesFrees
<1>7. MemoryTypeOK'
  BY <1>2, <1>3, <1>6 DEF MemoryTypeOK
<1>8. EntriesOK'
  <2> SUFFICES ASSUME NEW u \in Thread, NEW p \in DOMAIN pageTable'[u] PROVE Entry(u, p)'
    BY DEF EntriesOK
  <2>1. CASE u = t
    BY <1>2, <1>3, <2>1, EntryForms DEF Entry
  <2>2. CASE u # t
    <3>1. p \in DOMAIN pageTable[u] /\ pageTable'[u][p] = pageTable[u][p] /\ Entry(u, p)
      BY <1>2, <2>2 DEF WhileOnInv, EntriesOK
    <3>2. pageTable[u][p].valid => pageTable[u][p].frame \notin Freed(t)
      BY <1>6, <2>2, <3>1, PagesOf DEF Freed, WhileOnInv, OneOwner, Entry
    <3> QED BY <1>3, <1>5, <1>6, <2>2, <3>1, <3>2 DEF Entry
  <2> QED BY <2>1, <2>2
<1>9. OneOwner'
  BY SMTT(30), ZenonT(30), <1>2, <1>4 DEF WhileOnInv, OneOwner
<1>10. Reserved'
  BY <1>5, <1>6 DEF WhileOnInv, Reserved
<1>11. Accounted'
  <2> SUFFICES ASSUME NEW f \in physPageStatus' \ (CopyFrames \cup everShared)
               PROVE  \E u \in Thread : \E p \in Private(u)' : pageTable'[u][p].frame = f
    BY <1>5, <1>6 DEF Accounted
  <2>1. PICK u \in Thread : \E p \in Private(u) : pageTable[u][p].frame = f
    BY <1>6 DEF WhileOnInv, Accounted
  <2>2. u # t
    BY <1>6, <2>1 DEF Freed
  <2> QED BY <1>2, <1>4, <2>1, <2>2
<1>12. Forking'
  BY SMTT(30), ZenonT(30), <1>2, <1>3, ForkingKept DEF WhileOnInv, Forking
<1> QED BY <1>7, <1>8, <1>9, <1>10, <1>11, <1>12 DEF IInv, WhileOnInv

(* A process is born with an empty address space, or the ASSERT of its      *)
(* constructor fails.                                                       *)
LEMMA LaunchKeeps ==
  ASSUME IInv, NEW t \in Thread, NEW program \in load.programs, Launch(t, program),
         UNCHANGED load
  PROVE  IInv'
<1>1. MemoryTypeOK /\ WhileOnInv /\ phase[t] = "unborn"
  BY DEF IInv, Launch, CanBeBorn
<1>2. CASE Fits(Len(program))
  <2>1. Freed(t) = {}
    BY <1>1 DEF Freed, Private, WhileOnInv, Forking
  <2>2. FreePhysPages(t)
    BY <1>1, <1>2, <2>1, FS_EmptySet DEF Launch, FreePhysPages, MemoryTypeOK
  <2> QED BY <1>1, <1>2, <2>2, NewSpaceKeeps DEF Launch
<1>3. CASE ~Fits(Len(program))
  BY <1>3, AbortKeeps DEF Launch
<1> QED BY <1>2, <1>3

(* Exec gives the frames back before it asks for others.                    *)
LEMMA ExecKeeps ==
  ASSUME IInv, NEW t \in Thread, NEW program \in load.programs, Exec(t, program),
         UNCHANGED load
  PROVE  IInv'
<1>1. /\ MemoryTypeOK /\ WhileOnInv /\ phase[t] = "user" /\ FreePhysPages(t)
      /\ UNCHANGED <<load, mainMemory, copying, phase, everShared>>
  BY DEF IInv, Exec, InUserMode
<1>2. CASE NewSpace(t, program) /\ UNCHANGED machine
  <2>1. phase' = [phase EXCEPT ![t] = "user"]
    BY <1>1 DEF MemoryTypeOK
  <2> QED BY <1>1, <1>2, <2>1, NewSpaceKeeps
<1>3. CASE machine' = "aborted" /\ UNCHANGED <<pageTable, executable>>
  BY <1>1, <1>3, FreePhysPagesFrees DEF IInv, MemoryTypeOK
<1> QED BY <1>2, <1>3 DEF Exec

(* Exec of a missing file ends what is claimed of the page tables.           *)
LEMMA ExecMissingKeeps ==
  ASSUME IInv, NEW t \in Thread, ExecMissing(t), UNCHANGED load
  PROVE  IInv'
<1>1. MemoryTypeOK /\ WhileOnInv /\ FreePhysPages(t)
  BY DEF IInv, ExecMissing, InUserMode
<1> QED BY <1>1, FreePhysPagesFrees DEF IInv, MemoryTypeOK, ExecMissing

(* A store changes a frame that only its process has, or a shared one.      *)
LEMMA StoreKeeps ==
  ASSUME IInv, NEW t \in Thread, NEW p \in DOMAIN pageTable[t], NEW v \in Written,
         Store(t, p, v), UNCHANGED load
  PROVE  IInv'
<1>1. MemoryTypeOK /\ WhileOnInv /\ phase[t] = "user" /\ pageTable[t][p].valid
  BY DEF IInv, Store, InUserMode
<1> DEFINE f == pageTable[t][p].frame
<1>2. /\ mainMemory' = [mainMemory EXCEPT ![f] = v] /\ f \in Frames
      /\ UNCHANGED <<load, physPageStatus, numPagesAllocated, pageTable, executable, copying,
                     phase, machine, everShared>>
  BY <1>1 DEF Store, WhileOnInv, EntriesOK, Entry, MemoryTypeOK
<1>3. MemoryTypeOK'
  BY <1>1, <1>2, MemoryAssumption DEF MemoryTypeOK, MemoryAssumption
<1>4. EntriesOK' /\ OneOwner' /\ Reserved' /\ Accounted'
  BY <1>1, <1>2 DEF WhileOnInv, EntriesOK, Entry, OneOwner, Reserved, Accounted, CopyFrames,
     Copying, Private
<1>5. \A u \in Thread : \A q \in Private(u) : u # t =>
        mainMemory'[pageTable[u][q].frame] = mainMemory[pageTable[u][q].frame]
  <2>1. \A u \in Thread : \A q \in Private(u) : u # t => pageTable[u][q].frame # f
    BY <1>1, PagesOf DEF WhileOnInv, EntriesOK, Entry, OneOwner
  <2>2. \A u \in Thread : \A q \in Private(u) : pageTable[u][q].frame \in Frames
    BY <1>1, PagesOf DEF WhileOnInv, EntriesOK, Entry, MemoryTypeOK
  <2> QED BY <1>1, <1>2, <2>1, <2>2 DEF MemoryTypeOK
<1>6. Forking'
  <2>1. \A u \in Thread : phase[u] \in {"fork", "created"} => u # t
    BY <1>1
  <2>2. /\ \A u \in Thread : phase[u] # "fork" => phase'[u] # "fork"
        /\ \A u \in Thread : phase'[u] = "unborn" => pageTable'[u] = <<>>
    BY <1>1, <1>2 DEF WhileOnInv, Forking
  <2> QED BY <1>1, <1>2, <1>5, <2>1, <2>2, ForkingKept
<1> QED BY <1>3, <1>4, <1>6 DEF IInv, WhileOnInv

(* A process that exits keeps its frames.                                   *)
LEMMA ExitKeeps ==
  ASSUME IInv, NEW t \in Thread, Exit(t), UNCHANGED load
  PROVE  IInv'
<1>1. MemoryTypeOK /\ WhileOnInv /\ phase[t] = "user"
  BY DEF IInv, Exit, InUserMode
<1>2. MemoryTypeOK'
  BY <1>1 DEF MemoryTypeOK, Exit
<1>3. EntriesOK' /\ OneOwner' /\ Reserved' /\ Accounted'
  BY <1>1 DEF WhileOnInv, EntriesOK, Entry, OneOwner, Reserved, Accounted, CopyFrames,
     Copying, Private, Exit
<1>4. Forking'
  BY <1>1, ForkingKept DEF WhileOnInv, Forking, MemoryTypeOK, Exit
<1> QED BY <1>2, <1>3, <1>4 DEF IInv, WhileOnInv

-----------------------------------------------------------------------------
(* Sets of frames without a common one.                                     *)
LEMMA DisjointFrames ==
  ASSUME NEW A \in SUBSET Frames, NEW B \in SUBSET Frames, A \cap B = {}
  PROVE  Cardinality(A \cup B) = Cardinality(A) + Cardinality(B)
<1>1. IsFiniteSet(A) /\ IsFiniteSet(B) /\ Cardinality(A) \in Nat /\ Cardinality(B) \in Nat
  BY FramesFinite
<1>2. Cardinality(A \cup B) = Cardinality(A) + Cardinality(B) - Cardinality(A \cap B)
  BY <1>1, FS_Union
<1>3. Cardinality(A \cap B) = 0
  BY FS_EmptySet
<1> QED BY <1>1, <1>2, <1>3

(* What the two steps of a fork have in common: the page table of the child *)
(* c becomes table, with copies of the private pages in front of page i;    *)
(* new is the frame that the fork of t slept for, if it did.                *)
ForkStep(t, c, i, table, new) ==
  /\ c # t /\ phase[c] \in {"unborn", "created"} /\ phase[t] \in {"user", "fork"}
  /\ new = {copying[u].frame : u \in Copying \cap {t}}
  /\ \A u \in Copying \ {t} : copying[u].child # {c}
  /\ table \in Seq(Entries) /\ DOMAIN table = DOMAIN pageTable[t]
  /\ \A p \in DOMAIN table :
       /\ p \in Shared(t) => table[p] = pageTable[t][p]
       /\ p \in Private(t) /\ p < i =>
            /\ table[p].valid /\ ~table[p].shared
            /\ mainMemory'[table[p].frame] = mainMemory[pageTable[t][p].frame]
       /\ p \notin Shared(t) /\ ~(p \in Private(t) /\ p < i) => table[p] = Invalid
  /\ \A p, q \in DOMAIN table :
       /\ table[p].valid /\ ~table[p].shared /\ table[q].valid /\ ~table[q].shared
       /\ table[p].frame = table[q].frame
       => p = q
  /\ {table[p].frame : p \in {q \in DOMAIN table : table[q].valid /\ ~table[q].shared}}
       = Freed(c) \cup new
  /\ pageTable' = [pageTable EXCEPT ![c] = table]
  /\ executable' = [executable EXCEPT ![c] = executable[t]]
  /\ numPagesAllocated' = numPagesAllocated + Cardinality(new)
  /\ mainMemory' \in [Frames -> Nat]
  /\ \A g \in Frames \ new : mainMemory'[g] = mainMemory[g]
  /\ UNCHANGED <<load, everShared>>

(* What the step leaves of the other forks: their frames.                   *)
LEMMA OtherFrames ==
  ASSUME MemoryTypeOK, WhileOnInv, NEW t \in Thread, NEW c, NEW i, NEW table, NEW new,
         ForkStep(t, c, i, table, new)
  PROVE  /\ new \in SUBSET CopyFrames /\ CopyFrames \in SUBSET physPageStatus
         /\ physPageStatus \in SUBSET Frames
         /\ CopyFrames \ new = {copying[u].frame : u \in Copying \ {t}}
         /\ numPagesAllocated' \in Int
         /\ numPagesAllocated' + Cardinality(CopyFrames \ new) = Cardinality(physPageStatus)
         /\ numPagesAllocated' \in 0 .. NumPhysPages
<1>1. new = {copying[u].frame : u \in Copying \cap {t}} /\ new \in SUBSET CopyFrames
  BY DEF ForkStep, CopyFrames
<1>2. CopyFrames \in SUBSET physPageStatus /\ physPageStatus \in SUBSET Frames
  BY DEF WhileOnInv, Reserved, MemoryTypeOK
<1>3. CopyFrames \ new = {copying[u].frame : u \in Copying \ {t}}
  BY <1>1 DEF CopyFrames, WhileOnInv, Reserved, Copying
<1>4. Cardinality((CopyFrames \ new) \cup new) = Cardinality(CopyFrames \ new) + Cardinality(new)
  BY <1>1, <1>2, DisjointFrames
<1>5. (CopyFrames \ new) \cup new = CopyFrames
  BY <1>1
<1>6. /\ Cardinality(CopyFrames \ new) \in Nat /\ Cardinality(new) \in Nat
      /\ Cardinality(physPageStatus) \in Nat
      /\ Cardinality(CopyFrames) = Cardinality(CopyFrames \ new) + Cardinality(new)
  BY <1>1, <1>2, <1>4, <1>5, FramesFinite
<1>7. /\ numPagesAllocated' \in Int
      /\ numPagesAllocated' + Cardinality(CopyFrames \ new) = Cardinality(physPageStatus)
  BY <1>6 DEF ForkStep, WhileOnInv, Accounted, MemoryTypeOK
<1>8. numPagesAllocated' \in 0 .. NumPhysPages
  BY <1>1, <1>2, <1>7, CountFits
<1> QED BY <1>1, <1>2, <1>3, <1>7, <1>8

(* The page tables and the private pages after the step.                    *)
LEMMA ForkedTables ==
  ASSUME MemoryTypeOK, WhileOnInv, NEW t \in Thread, NEW c \in Thread, NEW i, NEW table,
         NEW new, ForkStep(t, c, i, table, new)
  PROVE  /\ pageTable' \in [Thread -> Seq(Entries)] /\ pageTable'[c] = table
         /\ \A u \in Thread : u # c => pageTable'[u] = pageTable[u]
         /\ \A u \in Thread : u # c => Private(u)' = Private(u) /\ Shared(u)' = Shared(u)
         /\ Private(c)' = {p \in DOMAIN table : table[p].valid /\ ~table[p].shared}
         /\ Shared(c)' = Shared(t)
         /\ executable' \in [Thread -> load.programs \cup {<<>>}]
         /\ executable'[c] = executable[t]
         /\ \A u \in Thread : u # c => executable'[u] = executable[u]
         /\ \A p \in Private(c)' : /\ p \in Private(t) /\ p < i
                                   /\ table[p].frame \in Freed(c) \cup new
<1>1. /\ pageTable' = [pageTable EXCEPT ![c] = table] /\ table \in Seq(Entries)
      /\ executable' = [executable EXCEPT ![c] = executable[t]]
      /\ DOMAIN table = DOMAIN pageTable[t]
  BY DEF ForkStep
<1>2. /\ pageTable' \in [Thread -> Seq(Entries)] /\ pageTable'[c] = table
      /\ \A u \in Thread : u # c => pageTable'[u] = pageTable[u]
      /\ executable' \in [Thread -> load.programs \cup {<<>>}]
      /\ executable'[c] = executable[t]
      /\ \A u \in Thread : u # c => executable'[u] = executable[u]
  BY <1>1 DEF MemoryTypeOK
<1>3. \A u \in Thread : u # c => Private(u)' = Private(u) /\ Shared(u)' = Shared(u)
  BY <1>2 DEF Private, Shared
<1>4. Private(c)' = {p \in DOMAIN table : table[p].valid /\ ~table[p].shared}
  BY <1>2 DEF Private
<1>5. \A p \in DOMAIN table : /\ p \in Shared(t) => table[p].shared
                              /\ table[p].shared => p \in Shared(t)
                              /\ table[p].valid /\ ~table[p].shared => p \in Private(t) /\ p < i
  BY <1>1, PagesOf, EntryForms DEF ForkStep
<1>6. Shared(c)' = Shared(t)
  <2>1. Shared(c)' = {p \in DOMAIN table : table[p].shared}
    BY <1>2 DEF Shared
  <2> QED BY <1>1, <1>5, <2>1, PagesOf
<1>7. \A p \in Private(c)' : table[p].frame \in Freed(c) \cup new
  BY <1>4 DEF ForkStep
<1> QED BY <1>2, <1>3, <1>4, <1>5, <1>6, <1>7

(* What the child had is in frames of its own.                              *)
LEMMA FreedApart ==
  ASSUME MemoryTypeOK, WhileOnInv, NEW c \in Thread
  PROVE  /\ Freed(c) \in SUBSET physPageStatus /\ Freed(c) \cap (CopyFrames \cup everShared) = {}
         /\ \A u \in Thread : \A p \in Private(u) :
              u # c => pageTable[u][p].frame \notin Freed(c)
<1>1. Freed(c) \in SUBSET physPageStatus /\ Freed(c) \cap (CopyFrames \cup everShared) = {}
  BY PagesOf DEF Freed, WhileOnInv, EntriesOK, Entry
<1> QED BY <1>1 DEF Freed, WhileOnInv, OneOwner

(* The step keeps the page tables in order when it takes the frames of took.*)
LEMMA ForkStepKeeps ==
  ASSUME MemoryTypeOK, WhileOnInv, NEW t \in Thread, NEW c \in Thread, NEW i, NEW table,
         NEW new, ForkStep(t, c, i, table, new),
         NEW took \in SUBSET (Frames \ physPageStatus),
         physPageStatus' = physPageStatus \cup took,
         CopyFrames' = (CopyFrames \ new) \cup took
  PROVE  EntriesOK' /\ OneOwner' /\ Accounted'
         /\ everShared' \subseteq physPageStatus' /\ CopyFrames' \subseteq physPageStatus' \ everShared'
<1>1. /\ c # t /\ table \in Seq(Entries) /\ DOMAIN table = DOMAIN pageTable[t]
      /\ everShared' = everShared
  BY DEF ForkStep
<1>2. /\ pageTable'[c] = table
      /\ \A u \in Thread : u # c => pageTable'[u] = pageTable[u]
      /\ \A u \in Thread : u # c => Private(u)' = Private(u) /\ Shared(u)' = Shared(u)
      /\ Private(c)' = {p \in DOMAIN table : table[p].valid /\ ~table[p].shared}
      /\ executable'[c] = executable[t]
      /\ \A u \in Thread : u # c => executable'[u] = executable[u]
      /\ \A p \in Private(c)' : /\ p \in Private(t) /\ p < i
                                /\ table[p].frame \in Freed(c) \cup new
  BY ForkedTables
<1>3. /\ Freed(c) \in SUBSET physPageStatus /\ Freed(c) \cap (CopyFrames \cup everShared) = {}
      /\ \A u \in Thread : \A p \in Private(u) : u # c => pageTable[u][p].frame \notin Freed(c)
  BY FreedApart
<1>4. /\ new \in SUBSET CopyFrames /\ CopyFrames \in SUBSET physPageStatus
      /\ physPageStatus \in SUBSET Frames
      /\ numPagesAllocated' \in Int
      /\ numPagesAllocated' + Cardinality(CopyFrames \ new) = Cardinality(physPageStatus)
  BY OtherFrames
<1>5. everShared \subseteq physPageStatus /\ CopyFrames \subseteq physPageStatus \ everShared
  BY DEF WhileOnInv, Reserved
<1>6. EntriesOK'
  <2> SUFFICES ASSUME NEW u \in Thread, NEW p \in DOMAIN pageTable'[u] PROVE Entry(u, p)'
    BY DEF EntriesOK
  <2>1. CASE u = c
    <3>1. p \in DOMAIN table /\ pageTable'[u][p] = table[p] /\ executable'[u] = executable[t]
      BY <1>2, <2>1
    <3>2. Entry(t, p)
      BY <1>1, <3>1 DEF WhileOnInv, EntriesOK
    <3>3. CASE p \in Shared(t)
      BY <1>1, <3>1, <3>2, <3>3, PagesOf DEF ForkStep, Entry
    <3>4. CASE p \in Private(c)'
      <4>1. table[p].valid /\ ~table[p].shared /\ table[p].frame \in Freed(c) \cup new
            /\ p \in DOMAIN executable[t]
        BY <1>1, <1>2, <3>1, <3>2, <3>4, PagesOf DEF Entry
      <4> QED BY <1>1, <1>3, <1>4, <1>5, <3>1, <4>1 DEF Entry
    <3>5. CASE p \notin Shared(t) /\ p \notin Private(c)'
      <4>1. table[p] = Invalid
        BY <1>2, <3>1, <3>5 DEF ForkStep
      <4> QED BY <1>1, <3>1, <3>2, <3>5, <4>1, PagesOf, EntryForms DEF Entry
    <3> QED BY <3>3, <3>4, <3>5
  <2>2. CASE u # c
    <3>1. /\ p \in DOMAIN pageTable[u] /\ pageTable'[u][p] = pageTable[u][p] /\ Entry(u, p)
          /\ executable'[u] = executable[u]
      BY <1>2, <2>2 DEF WhileOnInv, EntriesOK
    <3> QED BY <1>1, <3>1 DEF Entry
  <2> QED BY <2>1, <2>2
<1>7. OneOwner'
  <2>1. \A p, q \in Private(c)' : pageTable'[c][p].frame = pageTable'[c][q].frame => p = q
    BY <1>2 DEF ForkStep
  <2>2. \A p \in Private(c)' : pageTable'[c][p].frame \in Freed(c) \cup CopyFrames
    BY <1>2, <1>4
  <2>3. \A u \in Thread : u # c =>
          \A p \in Private(u)' : pageTable'[u][p].frame \notin Freed(c) \cup CopyFrames
    BY <1>2, <1>3, PagesOf DEF WhileOnInv, EntriesOK, Entry
  <2>4. \A u, v \in Thread : u # c /\ v # c =>
          \A p \in Private(u)', q \in Private(v)' :
            pageTable'[u][p].frame = pageTable'[v][q].frame => u = v /\ p = q
    BY <1>2 DEF WhileOnInv, OneOwner
  <2> QED BY <2>1, <2>2, <2>3, <2>4 DEF OneOwner
<1>8. Accounted'
  <2>1. ASSUME NEW f \in physPageStatus' \ (CopyFrames' \cup everShared')
        PROVE  \E u \in Thread : \E p \in Private(u)' : pageTable'[u][p].frame = f
    <3>1. f \in physPageStatus \ everShared /\ f \notin CopyFrames \ new
      BY <1>1, <2>1
    <3>2. CASE f \in Freed(c) \cup new
      <4>1. f \in {table[p].frame : p \in Private(c)'}
        BY <1>2, <3>2 DEF ForkStep
      <4> QED BY <1>2, <4>1
    <3>3. CASE f \notin Freed(c) \cup new
      <4>1. PICK u \in Thread : \E p \in Private(u) : pageTable[u][p].frame = f
        BY <3>1, <3>3 DEF WhileOnInv, Accounted
      <4>2. u # c
        BY <3>3, <4>1 DEF Freed
      <4> QED BY <1>2, <4>1, <4>2
    <3> QED BY <3>2, <3>3
  <2>2. Cardinality(physPageStatus \cup took) = Cardinality(physPageStatus) + Cardinality(took)
    BY <1>4, DisjointFrames
  <2>3. Cardinality((CopyFrames \ new) \cup took)
          = Cardinality(CopyFrames \ new) + Cardinality(took)
    BY <1>4, DisjointFrames
  <2>4. /\ Cardinality(CopyFrames \ new) \in Nat /\ Cardinality(took) \in Nat
        /\ Cardinality(physPageStatus) \in Nat
    BY <1>4, FramesFinite
  <2>5. numPagesAllocated' + Cardinality(CopyFrames') = Cardinality(physPageStatus')
    BY <1>4, <2>2, <2>3, <2>4
  <2> QED BY <2>1, <2>5 DEF Accounted
<1> QED BY <1>1, <1>4, <1>5, <1>6, <1>7, <1>8

-----------------------------------------------------------------------------
(* The other forks sleep on.                                                *)
LEMMA OtherForksKept ==
  ASSUME MemoryTypeOK, WhileOnInv, NEW t \in Thread, NEW c \in Thread, NEW i, NEW table,
         NEW new, ForkStep(t, c, i, table, new),
         \A u \in Thread \ {t, c} : phase'[u] = phase[u],
         \A u \in Thread \ {t} : copying'[u] = copying[u],
         NEW u \in Copying \ {t}
  PROVE  \E d \in Thread : copying'[u].child = {d} /\ HalfCopied(u, d)'
<1>1. PICK d \in Thread : copying[u].child = {d} /\ HalfCopied(u, d)
  BY DEF WhileOnInv, Forking
<1>2. /\ u \in Thread /\ phase[u] = "fork" /\ phase[d] = "created"
  BY <1>1 DEF WhileOnInv, Forking, Copying, HalfCopied
<1>3. u \notin {t, c} /\ d \notin {t, c}
  BY <1>1, <1>2 DEF ForkStep
<1>4. \A v \in {u, d} :
        /\ pageTable'[v] = pageTable[v] /\ executable'[v] = executable[v]
        /\ phase'[v] = phase[v] /\ Private(v)' = Private(v) /\ Shared(v)' = Shared(v)
  BY <1>2, <1>3, ForkedTables
<1>5. copying'[u] = copying[u]
  BY <1>2
<1>6. \A v \in {u, d} : \A p \in Private(v) :
        mainMemory'[pageTable[v][p].frame] = mainMemory[pageTable[v][p].frame]
  <2>1. new \in SUBSET CopyFrames
    BY OtherFrames
  <2>2. \A v \in {u, d} : \A p \in Private(v) : pageTable[v][p].frame \in Frames \ CopyFrames
    BY <1>2, PagesOf DEF WhileOnInv, EntriesOK, Entry, MemoryTypeOK
  <2> QED BY <2>1, <2>2 DEF ForkStep
<1> QED BY <1>1, <1>4, <1>5, <1>6 DEF HalfCopied

(* The fork is done: no private page is left.                               *)
LEMMA ForkEnds ==
  ASSUME MemoryTypeOK, WhileOnInv, NEW t \in Thread, NEW c \in Thread, NEW i, NEW table,
         NEW new, ForkStep(t, c, i, table, new), UNCHANGED <<physPageStatus, machine>>,
         copying' = [copying EXCEPT ![t] = NoCopy],
         phase' = [phase EXCEPT ![t] = "user", ![c] = "user"]
  PROVE  IInv'
<1>1. /\ copying'[t] = NoCopy /\ \A u \in Thread : u # t => copying'[u] = copying[u]
      /\ copying' \in [Thread -> [child : SUBSET Thread, page : Nat, frame : Frames \cup {-1}]]
  BY DEF MemoryTypeOK, NoCopy
<1>2. /\ phase'[t] = "user" /\ phase'[c] = "user"
      /\ \A u \in Thread : u \notin {t, c} => phase'[u] = phase[u]
      /\ phase' \in [Thread -> {"unborn", "user", "fork", "created", "exited"}]
  BY DEF MemoryTypeOK
<1>3. /\ c # t /\ phase[c] # "fork" /\ \A u \in Copying \ {t} : copying[u].child # {c}
      /\ mainMemory' \in [Frames -> Nat] /\ UNCHANGED <<load, everShared>>
  BY DEF ForkStep
<1>4. Copying' = Copying \ {t}
  BY <1>1 DEF Copying
<1>5. CopyFrames' = {copying[u].frame : u \in Copying \ {t}}
  BY <1>1, <1>4 DEF CopyFrames, Copying
<1>6. CopyFrames' = CopyFrames \ new
  BY <1>5, OtherFrames
<1>7. EntriesOK' /\ OneOwner' /\ Accounted'
      /\ everShared' \subseteq physPageStatus' /\ CopyFrames' \subseteq physPageStatus' \ everShared'
  <2>1. physPageStatus' = physPageStatus \cup {} /\ CopyFrames' = (CopyFrames \ new) \cup {}
    BY <1>6
  <2> QED BY <2>1, ForkStepKeeps
<1>8. Reserved'
  BY <1>1, <1>4, <1>7 DEF Reserved, WhileOnInv, Copying
<1>9. Forking'
  <2>1. \A u \in Thread : phase'[u] = "fork" <=> copying'[u] # NoCopy
    BY <1>1, <1>2, <1>3 DEF WhileOnInv, Forking
  <2>2. \A u \in Thread : phase'[u] = "unborn" => pageTable'[u] = <<>>
    BY <1>2, ForkedTables DEF WhileOnInv, Forking
  <2>3. \A u \in Copying' : \E d \in Thread : copying'[u].child = {d} /\ HalfCopied(u, d)'
    BY <1>1, <1>2, <1>4, OtherForksKept
  <2>4. \A u, v \in Copying' : copying'[u].child = copying'[v].child => u = v
    BY <1>1, <1>4 DEF WhileOnInv, Forking, Copying
  <2> QED BY <2>1, <2>2, <2>3, <2>4 DEF Forking
<1>10. MemoryTypeOK'
  <2>1. numPagesAllocated' \in 0 .. NumPhysPages /\ physPageStatus' \subseteq Frames
    BY OtherFrames
  <2>2. /\ pageTable' \in [Thread -> Seq(Entries)]
        /\ executable' \in [Thread -> load.programs \cup {<<>>}]
    BY ForkedTables
  <2> QED BY <1>1, <1>2, <1>3, <2>1, <2>2 DEF MemoryTypeOK
<1> QED BY <1>7, <1>8, <1>9, <1>10 DEF IInv, WhileOnInv

(* The fork goes on with its next page: it sleeps with a frame of its own.  *)
LEMMA ForkSleeps ==
  ASSUME MemoryTypeOK, WhileOnInv, NEW t \in Thread, NEW c \in Thread, NEW i, NEW table,
         NEW new, ForkStep(t, c, i, table, new),
         NEW f \in Frames \ physPageStatus, physPageStatus' = physPageStatus \cup {f},
         NEW page \in Private(t), i <= page, \A p \in Private(t) : p >= i => page <= p,
         copying' = [copying EXCEPT ![t] = [child |-> {c}, page |-> page, frame |-> f]],
         phase' = [phase EXCEPT ![t] = "fork", ![c] = "created"], UNCHANGED machine,
         i \in Nat
  PROVE  IInv'
<1>0. page \in DOMAIN pageTable[t] /\ page \in Nat /\ Private(t) \subseteq Nat
  BY PagesOf
<1>1. /\ copying'[t] = [child |-> {c}, page |-> page, frame |-> f] /\ copying'[t] # NoCopy
      /\ \A u \in Thread : u # t => copying'[u] = copying[u]
      /\ copying' \in [Thread -> [child : SUBSET Thread, page : Nat, frame : Frames \cup {-1}]]
  BY <1>0 DEF MemoryTypeOK, NoCopy
<1>2. /\ phase'[t] = "fork" /\ phase'[c] = "created"
      /\ \A u \in Thread : u \notin {t, c} => phase'[u] = phase[u]
      /\ phase' \in [Thread -> {"unborn", "user", "fork", "created", "exited"}]
  BY SMTT(30), ZenonT(30) DEF MemoryTypeOK, ForkStep
<1>3. /\ c # t /\ phase[c] # "fork" /\ \A u \in Copying \ {t} : copying[u].child # {c}
      /\ mainMemory' \in [Frames -> Nat] /\ UNCHANGED <<load, everShared>>
      /\ DOMAIN table = DOMAIN pageTable[t]
  BY DEF ForkStep
<1>4. Copying' = (Copying \ {t}) \cup {t}
  BY <1>1 DEF Copying
<1>5. CopyFrames' = {copying[u].frame : u \in Copying \ {t}} \cup {f}
  BY <1>1, <1>4 DEF CopyFrames, Copying
<1>6. /\ CopyFrames \ new = {copying[u].frame : u \in Copying \ {t}}
      /\ CopyFrames \in SUBSET physPageStatus /\ new \in SUBSET CopyFrames
      /\ physPageStatus \in SUBSET Frames
  BY OtherFrames
<1>7. EntriesOK' /\ OneOwner' /\ Accounted'
      /\ everShared' \subseteq physPageStatus' /\ CopyFrames' \subseteq physPageStatus' \ everShared'
  <2>1. CopyFrames' = (CopyFrames \ new) \cup {f} /\ {f} \in SUBSET (Frames \ physPageStatus)
    BY <1>5, <1>6
  <2> HIDE DEF CopyFrames
  <2> QED BY <2>1, ForkStepKeeps
<1>8. Reserved'
  <2>1. \A u \in Copying \ {t} : copying[u].frame # f
    BY <1>6
  <2>2. \A u, v \in Copying' : copying'[u].frame = copying'[v].frame => u = v
    BY <1>1, <1>4, <2>1 DEF Reserved, WhileOnInv, Copying
  <2> QED BY <1>7, <2>2 DEF Reserved
<1>9. Forking'
  <2>1. \A u \in Thread : phase'[u] = "fork" <=> copying'[u] # NoCopy
    BY <1>1, <1>2, <1>3 DEF WhileOnInv, Forking
  <2>2. \A u \in Thread : phase'[u] = "unborn" => pageTable'[u] = <<>>
    BY <1>2, ForkedTables DEF WhileOnInv, Forking
  <2>3. \A u \in Copying \ {t} : \E d \in Thread : copying'[u].child = {d} /\ HalfCopied(u, d)'
    BY <1>1, <1>2, OtherForksKept
  <2>4. HalfCopied(t, c)'
    <3>1. /\ pageTable'[c] = table /\ pageTable'[t] = pageTable[t]
          /\ Private(t)' = Private(t) /\ Shared(t)' = Shared(t)
          /\ Private(c)' = {p \in DOMAIN table : table[p].valid /\ ~table[p].shared}
          /\ executable'[c] = executable[t] /\ executable'[t] = executable[t]
      BY <1>3, ForkedTables
    <3>2. \A p \in Private(t) :
            mainMemory'[pageTable[t][p].frame] = mainMemory[pageTable[t][p].frame]
      <4>1. \A p \in Private(t) : pageTable[t][p].frame \in Frames \ CopyFrames
        BY <1>6, PagesOf DEF WhileOnInv, EntriesOK, Entry
      <4> QED BY <1>6, <4>1 DEF ForkStep
    <3>3. \A p \in Private(t) : p < page <=> p < i
      BY <1>0
    <3> SUFFICES ASSUME NEW p \in DOMAIN table
                 PROVE  /\ p \in Private(t) /\ p < page =>
                             /\ p \in Private(c)'
                             /\ mainMemory'[table[p].frame] = mainMemory[pageTable[t][p].frame]
                        /\ p \in Shared(t) => table[p] = pageTable[t][p]
                        /\ p \notin Shared(t) /\ ~(p \in Private(t) /\ p < page)
                             => table[p] = Invalid
      BY <1>1, <1>2, <1>3, <3>1, <3>2 DEF HalfCopied
    <3> QED BY <3>1, <3>3 DEF ForkStep
  <2>5. \A u, v \in Copying' : copying'[u].child = copying'[v].child => u = v
    BY <1>1, <1>3, <1>4 DEF WhileOnInv, Forking, Copying
  <2>6. \A u \in Copying' : \E d \in Thread : copying'[u].child = {d} /\ HalfCopied(u, d)'
    BY <1>1, <1>4, <2>3, <2>4
  <2> QED BY <2>1, <2>2, <2>5, <2>6 DEF Forking
<1>10. MemoryTypeOK'
  <2>1. numPagesAllocated' \in 0 .. NumPhysPages
    BY OtherFrames
  <2>2. /\ pageTable' \in [Thread -> Seq(Entries)]
        /\ executable' \in [Thread -> load.programs \cup {<<>>}]
    BY ForkedTables
  <2>3. physPageStatus' \subseteq Frames
    BY <1>6
  <2> QED BY <1>1, <1>2, <1>3, <2>1, <2>2, <2>3 DEF MemoryTypeOK
<1> QED BY <1>7, <1>8, <1>9, <1>10 DEF IInv, WhileOnInv

(* The loop of the copy constructor, from page i on.                        *)
LEMMA CopyFromKeeps ==
  ASSUME MemoryTypeOK, WhileOnInv, machine = "on", NEW t \in Thread, NEW c \in Thread,
         NEW i \in Nat, NEW table, NEW new, ForkStep(t, c, i, table, new), CopyFrom(t, c, i)
  PROVE  IInv'
<1> DEFINE rest == {p \in Private(t) : p >= i}
           page == CHOOSE p \in rest : \A q \in rest : p <= q
<1>1. CASE rest = {}
  BY <1>1, ForkEnds DEF CopyFrom
<1>2. CASE rest # {} /\ Free = {}
  <2>1. machine' = "aborted" /\ UNCHANGED <<physPageStatus, copying, phase>>
    BY <1>2 DEF CopyFrom
  <2>2. numPagesAllocated' \in 0 .. NumPhysPages
    BY OtherFrames
  <2>3. /\ pageTable' \in [Thread -> Seq(Entries)]
        /\ executable' \in [Thread -> load.programs \cup {<<>>}]
    BY ForkedTables
  <2>4. mainMemory' \in [Frames -> Nat] /\ UNCHANGED <<load, everShared>>
    BY DEF ForkStep
  <2> QED BY <2>1, <2>2, <2>3, <2>4 DEF IInv, MemoryTypeOK
<1>3. CASE rest # {} /\ Free # {}
  <2>1. rest \subseteq Nat
    BY PagesOf
  <2>2. page \in rest /\ \A q \in rest : page <= q
    BY <1>3, <2>1, MinExists
  <2>3. /\ physPageStatus' = physPageStatus \cup {NextAvailPhysPage}
        /\ copying' = [copying EXCEPT ![t] = [child |-> {c}, page |-> page,
                                              frame |-> NextAvailPhysPage]]
        /\ phase' = [phase EXCEPT ![t] = "fork", ![c] = "created"] /\ UNCHANGED machine
    BY <1>3 DEF CopyFrom, Taken
  <2>4. page \in Private(t) /\ i <= page /\ \A p \in Private(t) : p >= i => page <= p
    BY <2>1, <2>2
  <2>5. NextAvailPhysPage \in Frames \ physPageStatus
    BY <1>3, NextFrame
  <2> HIDE DEF page
  <2> QED BY <2>3, <2>4, <2>5, ForkSleeps
<1> QED BY <1>1, <1>2, <1>3

(* A fork starts, with no page copied yet.                                  *)
LEMMA ForkIsStep ==
  ASSUME IInv, NEW t \in Thread, NEW c \in Thread, Fork(t, c), UNCHANGED load
  PROVE  \/ Abort
         \/ /\ \E table : ForkStep(t, c, 1, table, {})
            /\ CopyFrom(t, c, 1)
<1>1. MemoryTypeOK /\ WhileOnInv /\ machine = "on" /\ phase[t] = "user" /\ phase[c] = "unborn"
  BY DEF IInv, Fork, InUserMode, CanBeBorn
<1> DEFINE table == [p \in DOMAIN pageTable[t] |->
                       IF p \in Shared(t) THEN pageTable[t][p] ELSE Invalid]
<1>2. CASE Fits(Cardinality(DOMAIN pageTable[t] \ Shared(t)))
  <2>1. /\ pageTable' = [pageTable EXCEPT ![c] = table]
        /\ executable' = [executable EXCEPT ![c] = executable[t]]
        /\ CopyFrom(t, c, 1)
        /\ UNCHANGED <<load, numPagesAllocated, mainMemory, everShared>>
    BY <1>2 DEF Fork
  <2>2. /\ table \in Seq(Entries) /\ DOMAIN table = DOMAIN pageTable[t]
        /\ \A p \in DOMAIN table : IF p \in Shared(t) THEN table[p] = pageTable[t][p]
                                                      ELSE table[p] = Invalid
    BY <1>1, PagesOf, EntryForms
  <2> HIDE DEF table
  <2>3. Freed(c) = {}
    BY <1>1 DEF Freed, Private, WhileOnInv, Forking
  <2>4. {p \in DOMAIN table : table[p].valid /\ ~table[p].shared} = {}
    BY <1>1, <2>2, PagesOf, EntryForms
  <2>5. \A p \in DOMAIN table : ~(p \in Private(t) /\ p < 1)
    BY <1>1, PagesOf
  <2>6. \A u \in Copying \ {t} : copying[u].child # {c}
    BY <1>1 DEF WhileOnInv, Forking, HalfCopied
  <2>7. Copying \cap {t} = {}
    BY <1>1 DEF WhileOnInv, Forking, Copying
  <2>8. numPagesAllocated' = numPagesAllocated + Cardinality({})
    BY <1>1, <2>1, FS_EmptySet DEF MemoryTypeOK
  <2>9. ForkStep(t, c, 1, table, {})
    BY <1>1, <2>1, <2>2, <2>3, <2>4, <2>5, <2>6, <2>7, <2>8 DEF ForkStep, MemoryTypeOK
  <2> QED BY <2>1, <2>9
<1>3. CASE ~Fits(Cardinality(DOMAIN pageTable[t] \ Shared(t)))
  BY <1>3 DEF Fork
<1> QED BY <1>2, <1>3

(* The fork wakes up, fills the frame it took and goes on.                  *)
LEMMA ForkResumesIsStep ==
  ASSUME IInv, NEW t \in Thread, NEW c \in Thread, ForkResumes(t, c), UNCHANGED load
  PROVE  /\ copying[t].page + 1 \in Nat
         /\ \E table : ForkStep(t, c, copying[t].page + 1, table, {copying[t].frame})
         /\ CopyFrom(t, c, copying[t].page + 1)
<1> DEFINE page == copying[t].page
           f == copying[t].frame
           table == [pageTable[c] EXCEPT ![page] = PrivateIn(f)]
<1>1. MemoryTypeOK /\ WhileOnInv /\ machine = "on" /\ phase[t] = "fork"
      /\ copying[t].child = {c}
  BY DEF IInv, ForkResumes
<1>2. /\ mainMemory' = [mainMemory EXCEPT ![f] = mainMemory[pageTable[t][page].frame]]
      /\ numPagesAllocated' = numPagesAllocated + 1
      /\ pageTable' = [pageTable EXCEPT ![c] = table]
      /\ CopyFrom(t, c, page + 1)
      /\ UNCHANGED <<load, executable, everShared>>
  BY DEF ForkResumes, Copied, Counted
<1>3. t \in Copying /\ HalfCopied(t, c)
  BY <1>1 DEF WhileOnInv, Forking, Copying
<1>4. /\ f \in CopyFrames /\ f \in Frames /\ f \notin everShared
      /\ {copying[u].frame : u \in Copying \cap {t}} = {f}
  BY <1>1, <1>3 DEF CopyFrames, WhileOnInv, Reserved, MemoryTypeOK
<1>5. /\ c # t /\ phase[c] = "created" /\ executable[c] = executable[t]
      /\ page \in Private(t) /\ DOMAIN pageTable[c] = DOMAIN pageTable[t]
  BY <1>3 DEF HalfCopied
<1>6. page \in Nat /\ page \in DOMAIN pageTable[c]
  BY <1>1, <1>5, PagesOf
<1>7. /\ table \in Seq(Entries) /\ DOMAIN table = DOMAIN pageTable[t]
      /\ table[page] = PrivateIn(f)
      /\ \A p \in DOMAIN table : p # page => table[p] = pageTable[c][p]
  BY <1>1, <1>4, <1>5, <1>6, PagesOf, EntryForms
<1> HIDE DEF table, f, page
<1>8. \A p \in DOMAIN table :
        /\ p \in Shared(t) => table[p] = pageTable[t][p]
        /\ p \in Private(t) /\ p < page + 1 =>
             /\ table[p].valid /\ ~table[p].shared
             /\ mainMemory'[table[p].frame] = mainMemory[pageTable[t][p].frame]
        /\ p \notin Shared(t) /\ ~(p \in Private(t) /\ p < page + 1) => table[p] = Invalid
  <2> SUFFICES ASSUME NEW p \in DOMAIN table
               PROVE  /\ p \in Shared(t) => table[p] = pageTable[t][p]
                      /\ p \in Private(t) /\ p < page + 1 =>
                           /\ table[p].valid /\ ~table[p].shared
                           /\ mainMemory'[table[p].frame] = mainMemory[pageTable[t][p].frame]
                      /\ p \notin Shared(t) /\ ~(p \in Private(t) /\ p < page + 1)
                           => table[p] = Invalid
    OBVIOUS
  <2>1. p \in DOMAIN pageTable[t] /\ p \in Nat
    BY <1>1, <1>7, PagesOf
  <2>2. CASE p = page
    <3>1. p \in Private(t) /\ p \notin Shared(t) /\ p < page + 1
      BY <1>1, <1>5, <1>6, <2>1, <2>2, PagesOf
    <3>2. table[p].valid /\ ~table[p].shared /\ table[p].frame = f
      BY <1>4, <1>7, <2>2, EntryForms
    <3>3. mainMemory'[f] = mainMemory[pageTable[t][p].frame]
      BY <1>1, <1>2, <1>4, <2>2 DEF MemoryTypeOK
    <3> QED BY <3>1, <3>2, <3>3
  <2>3. CASE p # page
    <3>1. table[p] = pageTable[c][p] /\ (p < page + 1 <=> p < page)
      BY <1>6, <1>7, <2>1, <2>3
    <3>2. /\ p \in Private(t) /\ p < page =>
               /\ p \in Private(c)
               /\ mainMemory[pageTable[c][p].frame] = mainMemory[pageTable[t][p].frame]
          /\ p \in Shared(t) => pageTable[c][p] = pageTable[t][p]
          /\ p \notin Shared(t) /\ ~(p \in Private(t) /\ p < page) => pageTable[c][p] = Invalid
      BY <1>3, <2>1 DEF HalfCopied, page
    <3>3. p \in Private(c) =>
            /\ pageTable[c][p].valid /\ ~pageTable[c][p].shared
            /\ pageTable[c][p].frame \in Frames /\ pageTable[c][p].frame # f
      BY <1>1, <1>4, PagesOf DEF WhileOnInv, EntriesOK, Entry, MemoryTypeOK
    <3> QED BY <1>1, <1>2, <1>4, <3>1, <3>2, <3>3 DEF MemoryTypeOK
  <2> QED BY <2>2, <2>3
<1>9. pageTable[c][page] = Invalid
  BY <1>1, <1>3, <1>5, <1>6, PagesOf DEF HalfCopied, page
<1>10. {p \in DOMAIN table : table[p].valid /\ ~table[p].shared} = Private(c) \cup {page}
  BY <1>1, <1>4, <1>5, <1>6, <1>7, PagesOf, EntryForms
<1>11. page \notin Private(c) /\ \A p \in Private(c) : pageTable[c][p].frame # f
  BY <1>1, <1>4, <1>9, PagesOf, EntryForms DEF WhileOnInv, EntriesOK, Entry
<1>12. \A p, q \in DOMAIN table :
         /\ table[p].valid /\ ~table[p].shared /\ table[q].valid /\ ~table[q].shared
         /\ table[p].frame = table[q].frame
         => p = q
  <2>1. \A p, q \in Private(c) \cup {page} : table[p].frame = table[q].frame => p = q
    BY <1>1, <1>4, <1>5, <1>7, <1>11, PagesOf, EntryForms DEF WhileOnInv, OneOwner
  <2> QED BY <1>10, <2>1
<1>13. {table[p].frame : p \in Private(c) \cup {page}} = Freed(c) \cup {f}
  <2>1. \A p \in Private(c) : table[p] = pageTable[c][p]
    BY <1>1, <1>5, <1>7, <1>11, PagesOf
  <2>2. table[page].frame = f
    BY <1>4, <1>7, EntryForms
  <2> QED BY <2>1, <2>2 DEF Freed
<1>14. \A u \in Copying \ {t} : copying[u].child # {c}
  BY <1>1, <1>3 DEF WhileOnInv, Forking
<1>15. executable' = [executable EXCEPT ![c] = executable[t]]
  BY <1>1, <1>2, <1>5 DEF MemoryTypeOK
<1>16. numPagesAllocated' = numPagesAllocated + Cardinality({f})
  BY <1>2, FS_Singleton
<1>17. /\ mainMemory' \in [Frames -> Nat]
       /\ \A g \in Frames \ {f} : mainMemory'[g] = mainMemory[g]
  <2>1. pageTable[t][page].frame \in Frames
    BY <1>1, <1>5, PagesOf DEF WhileOnInv, EntriesOK, Entry, MemoryTypeOK
  <2> QED BY <1>1, <1>2, <1>4, <2>1 DEF MemoryTypeOK
<1>18. ForkStep(t, c, page + 1, table, {f})
  <2>1. {table[p].frame : p \in {q \in DOMAIN table : table[q].valid /\ ~table[q].shared}}
          = Freed(c) \cup {f}
    BY <1>10, <1>13
  <2> QED BY <1>1, <1>2, <1>4, <1>5, <1>7, <1>8, <1>12, <1>14, <1>15, <1>16, <1>17, <2>1
          DEF ForkStep
<1> QED BY <1>2, <1>6, <1>18 DEF page, f

(* Both steps of a fork keep the invariant.                                 *)
LEMMA ForkKeeps ==
  ASSUME IInv, NEW t \in Thread, NEW c \in Thread, Fork(t, c) \/ ForkResumes(t, c),
         UNCHANGED load
  PROVE  IInv'
<1>1. CASE Abort
  BY <1>1, AbortKeeps
<1>2. ASSUME NEW i \in Nat, NEW new, \E table : ForkStep(t, c, i, table, new), CopyFrom(t, c, i)
      PROVE  IInv'
  <2>1. MemoryTypeOK /\ WhileOnInv /\ machine = "on"
    BY DEF IInv, Fork, ForkResumes, InUserMode
  <2> QED BY <1>2, <2>1, CopyFromKeeps
<1> QED BY <1>1, <1>2, ForkIsStep, ForkResumesIsStep

-----------------------------------------------------------------------------
(* Lowest(n) are n different free frames.                                   *)
LEMMA LowestFree ==
  ASSUME NEW n \in Nat, n <= Cardinality(Free)
  PROVE  /\ DOMAIN Lowest(n) = 1 .. n
         /\ Lowest(n) \in [1 .. n -> Free]
         /\ \A i \in 1 .. n : Lowest(n)[i] \in Free
         /\ \A i, j \in 1 .. n : Lowest(n)[i] = Lowest(n)[j] => i = j
         /\ ToSet(Lowest(n)) \in SUBSET Free
         /\ Cardinality(ToSet(Lowest(n))) = n
<1>1. IsFiniteSet(Free) /\ Free \in SUBSET Int /\ Free \in SUBSET Frames
      /\ Cardinality(Free) \in Nat
  <2>1. Free \in SUBSET Frames
    BY DEF Free
  <2> QED BY <2>1, FramesFinite, MemoryAssumption DEF Frames, MemoryAssumption
<1>2. \A i \in 1 .. n : \E f \in Free : Cardinality({g \in Free : g < f}) = i - 1
  <2>1. \A k \in 0 .. Cardinality(Free) - 1 :
          \E f \in Free : Cardinality({g \in Free : g < f}) = k
    BY <1>1, RankExists
  <2> SUFFICES ASSUME NEW i \in 1 .. n
               PROVE  \E f \in Free : Cardinality({g \in Free : g < f}) = i - 1
    OBVIOUS
  <2>2. i - 1 \in 0 .. Cardinality(Free) - 1
    BY <1>1
  <2> QED BY <2>1, <2>2
<1>3. DOMAIN Lowest(n) = 1 .. n /\ Lowest(n) \in [1 .. n -> Free]
  BY <1>2 DEF Lowest
<1>4. \A i \in 1 .. n : /\ Lowest(n)[i] \in Free
                        /\ Cardinality({g \in Free : g < Lowest(n)[i]}) = i - 1
  BY <1>2 DEF Lowest
<1>5. \A i, j \in 1 .. n : Lowest(n)[i] = Lowest(n)[j] => i = j
  <2> SUFFICES ASSUME NEW i \in 1 .. n, NEW j \in 1 .. n, Lowest(n)[i] = Lowest(n)[j]
               PROVE  i = j
    OBVIOUS
  <2>1. i - 1 = j - 1
    BY <1>4
  <2> QED BY <2>1
<1>6. ToSet(Lowest(n)) \in SUBSET Free
  BY <1>3, <1>4 DEF ToSet
<1>7. Lowest(n) \in Bijection(1 .. n, ToSet(Lowest(n)))
  BY <1>3, <1>5 DEF Bijection, Injection, IsInjective, Surjection, ToSet, Lowest
<1>8. Cardinality(ToSet(Lowest(n))) = Cardinality(1 .. n)
  <2>1. ExistsBijection(1 .. n, ToSet(Lowest(n)))
    BY <1>7 DEF ExistsBijection
  <2>2. IsFiniteSet(1 .. n)
    BY FS_Interval
  <2> QED BY <2>1, <2>2, FS_Bijection
<1>9. Cardinality(1 .. n) = n
  BY FS_Interval
<1> QED BY <1>3, <1>4, <1>5, <1>6, <1>8, <1>9

(* The entries of n new shared pages.                                       *)
LEMMA NewPages ==
  ASSUME NEW table \in Seq(Entries), NEW n \in Nat, NEW new, DOMAIN new = 1 .. n,
         \A i \in 1 .. n : new[i] \in Frames
  PROVE  LET larger == table \o [i \in 1 .. n |-> SharedIn(new[i])]
         IN  /\ larger \in Seq(Entries) /\ DOMAIN larger = 1 .. (Len(table) + n)
             /\ DOMAIN table \in SUBSET DOMAIN larger
             /\ \A p \in DOMAIN table : larger[p] = table[p]
             /\ \A p \in DOMAIN larger \ DOMAIN table :
                  /\ p - Len(table) \in 1 .. n
                  /\ larger[p] = SharedIn(new[p - Len(table)])
<1> DEFINE added == [i \in 1 .. n |-> SharedIn(new[i])]
<1>1. added \in Seq(Entries) /\ Len(added) = n /\ \A i \in 1 .. n : added[i] = SharedIn(new[i])
  BY EntryForms
<1> HIDE DEF added
<1>2. table \o added \in Seq(Entries) /\ Len(table \o added) = Len(table) + n
  BY <1>1
<1>3. \A p \in 1 .. (Len(table) + n) :
        (table \o added)[p] = IF p <= Len(table) THEN table[p] ELSE added[p - Len(table)]
  BY <1>1
<1> QED BY <1>1, <1>2, <1>3 DEF added

(* ShmAllocate clears frames that nobody has and never gives them out again.*)
LEMMA ShmAllocateKeeps ==
  ASSUME IInv, NEW t \in Thread, NEW n \in 1 .. load.pages, ShmAllocate(t, n), UNCHANGED load
  PROVE  IInv'
<1> DEFINE new == Lowest(n)
           S == ToSet(new)
<1>1. MemoryTypeOK /\ WhileOnInv /\ machine = "on" /\ phase[t] = "user" /\ n \in Nat
  BY MemoryAssumption DEF IInv, ShmAllocate, InUserMode, MemoryTypeOK, MemoryAssumption
<1>2. CASE ~Fits(n)
  BY <1>2, AbortKeeps DEF ShmAllocate
<1>3. CASE Fits(n) /\ n > Cardinality(Free)
  BY <1>1, <1>3 DEF ShmAllocate, IInv, MemoryTypeOK
<1>4. CASE Fits(n) /\ ~(n > Cardinality(Free))
  <2>0. Cardinality(Free) \in Nat /\ Free \in SUBSET Frames
    <3>1. Free \in SUBSET Frames
      BY DEF Free
    <3> QED BY <3>1, FramesFinite, MemoryAssumption DEF MemoryAssumption
  <2>1. /\ DOMAIN new = 1 .. n /\ \A i \in 1 .. n : new[i] \in Free
        /\ S \in SUBSET Free /\ Cardinality(S) = n
    BY <1>1, <1>4, <2>0, LowestFree
  <2>2. /\ physPageStatus' = physPageStatus \cup S
        /\ numPagesAllocated' = numPagesAllocated + n
        /\ mainMemory' = [f \in Frames |-> IF f \in S THEN 0 ELSE mainMemory[f]]
        /\ pageTable' = [pageTable EXCEPT ![t] =
                           pageTable[t] \o [i \in 1 .. n |-> SharedIn(new[i])]]
        /\ everShared' = everShared \cup S
        /\ UNCHANGED <<load, executable, copying, phase, machine>>
    BY <1>4 DEF ShmAllocate
  <2>3. S \in SUBSET (Frames \ physPageStatus) /\ \A i \in 1 .. n : new[i] \in S
    BY <2>1 DEF Free, ToSet
  <2> HIDE DEF new, S
  <2>4. /\ pageTable' \in [Thread -> Seq(Entries)]
        /\ \A u \in Thread : u # t => pageTable'[u] = pageTable[u]
        /\ DOMAIN pageTable[t] \in SUBSET DOMAIN pageTable'[t]
        /\ \A p \in DOMAIN pageTable[t] : pageTable'[t][p] = pageTable[t][p]
        /\ \A p \in DOMAIN pageTable'[t] \ DOMAIN pageTable[t] :
             \E f \in S : pageTable'[t][p] = SharedIn(f)
    <3> DEFINE larger == pageTable[t] \o [i \in 1 .. n |-> SharedIn(new[i])]
    <3>1. /\ larger \in Seq(Entries) /\ DOMAIN pageTable[t] \in SUBSET DOMAIN larger
          /\ \A p \in DOMAIN pageTable[t] : larger[p] = pageTable[t][p]
          /\ \A p \in DOMAIN larger \ DOMAIN pageTable[t] :
               /\ p - Len(pageTable[t]) \in 1 .. n
               /\ larger[p] = SharedIn(new[p - Len(pageTable[t])])
      <4>1. pageTable[t] \in Seq(Entries) /\ \A i \in 1 .. n : new[i] \in Frames
        BY <1>1, <2>0, <2>1 DEF MemoryTypeOK
      <4>2. n \in Nat /\ DOMAIN new = 1 .. n
        BY <1>1, <2>1
      <4>4. \A q \in Seq(Entries) :
              LET longer == q \o [i \in 1 .. n |-> SharedIn(new[i])]
              IN  /\ longer \in Seq(Entries) /\ DOMAIN longer = 1 .. (Len(q) + n)
                  /\ DOMAIN q \in SUBSET DOMAIN longer
                  /\ \A p \in DOMAIN q : longer[p] = q[p]
                  /\ \A p \in DOMAIN longer \ DOMAIN q :
                       /\ p - Len(q) \in 1 .. n
                       /\ longer[p] = SharedIn(new[p - Len(q)])
        BY SMTT(30), <4>1, <4>2, NewPages
      <4> QED BY <4>1, <4>4, Zenon
    <3> HIDE DEF larger
    <3>2. pageTable' = [pageTable EXCEPT ![t] = larger]
      BY <2>2 DEF larger
    <3> QED BY <1>1, <2>3, <3>1, <3>2 DEF MemoryTypeOK
  <2>5. /\ \A u \in Thread : Private(u)' = Private(u)
        /\ \A u \in Thread : u # t => Shared(u)' = Shared(u)
    <3>1. Private(t)' = Private(t)
      BY <2>3, <2>4, EntryForms DEF Private
    <3> QED BY <2>4, <3>1 DEF Private, Shared
  <2>6. Copying' = Copying /\ CopyFrames' = CopyFrames
    BY <2>2 DEF Copying, CopyFrames
  <2>7. EntriesOK'
    <3> SUFFICES ASSUME NEW u \in Thread, NEW p \in DOMAIN pageTable'[u] PROVE Entry(u, p)'
      BY DEF EntriesOK
    <3>1. CASE p \in DOMAIN pageTable[u]
      <4>1. Entry(u, p) /\ pageTable'[u][p] = pageTable[u][p]
        BY <1>1, <2>4, <3>1 DEF WhileOnInv, EntriesOK
      <4> QED BY <2>2, <2>3, <2>6, <4>1 DEF Entry
    <3>2. CASE p \notin DOMAIN pageTable[u]
      <4>1. PICK f \in S : pageTable'[u][p] = SharedIn(f)
        BY <2>4, <3>2
      <4> QED BY <2>2, <2>3, <4>1, EntryForms DEF Entry
    <3> QED BY <3>1, <3>2
  <2>8. \A u \in Thread : \A p \in Private(u) : pageTable'[u][p] = pageTable[u][p]
    BY <1>1, <2>4, PagesOf
  <2>9. OneOwner'
    BY <1>1, <2>5, <2>8 DEF WhileOnInv, OneOwner
  <2>10. Reserved'
    BY <1>1, <2>2, <2>3, <2>6 DEF WhileOnInv, Reserved
  <2>11. Accounted'
    <3>1. Cardinality(physPageStatus') = Cardinality(physPageStatus) + n
      BY <1>1, <2>1, <2>2, <2>3, DisjointFrames DEF MemoryTypeOK
    <3>2. \A g \in physPageStatus' \ (CopyFrames' \cup everShared') :
            \E u \in Thread : \E q \in Private(u)' : pageTable'[u][q].frame = g
      <4> SUFFICES ASSUME NEW g \in physPageStatus \ (CopyFrames \cup everShared)
                   PROVE  \E u \in Thread : \E q \in Private(u)' : pageTable'[u][q].frame = g
        BY <2>2, <2>6
      <4>1. PICK u \in Thread : \E q \in Private(u) : pageTable[u][q].frame = g
        BY <1>1 DEF WhileOnInv, Accounted
      <4> QED BY <2>5, <2>8, <4>1
    <3>3. Cardinality(CopyFrames) \in Nat /\ Cardinality(physPageStatus) \in Nat
      BY <1>1, FramesFinite DEF MemoryTypeOK, WhileOnInv, Reserved
    <3>4. numPagesAllocated + Cardinality(CopyFrames) = Cardinality(physPageStatus)
      BY <1>1 DEF WhileOnInv, Accounted
    <3>5. numPagesAllocated' + Cardinality(CopyFrames) = Cardinality(physPageStatus')
      BY <1>1, <2>2, <3>1, <3>3, <3>4 DEF MemoryTypeOK
    <3> QED BY <2>6, <3>2, <3>5 DEF Accounted
  <2>12. Forking'
    <3>1. \A u \in Thread : \A q \in Private(u) : pageTable[u][q].frame \in physPageStatus
      BY <1>1, PagesOf DEF WhileOnInv, EntriesOK, Entry
    <3>2. \A u \in Thread : \A q \in Private(u) :
            mainMemory'[pageTable[u][q].frame] = mainMemory[pageTable[u][q].frame]
      BY <1>1, <2>2, <2>3, <3>1 DEF MemoryTypeOK
    <3>3. \A u \in Thread : phase[u] \in {"fork", "created"} => u # t
      BY <1>1
    <3>4. \A u \in Thread : phase'[u] = "unborn" => pageTable'[u] = <<>>
      BY <1>1, <2>2, <2>4 DEF WhileOnInv, Forking
    <3> QED BY <1>1, <2>2, <2>4, <3>2, <3>3, <3>4, ForkingKept
  <2>13. MemoryTypeOK'
    <3>1. numPagesAllocated' \in Int /\ physPageStatus' \in SUBSET Frames
      BY <1>1, <2>2, <2>3 DEF MemoryTypeOK
    <3>2. numPagesAllocated' \in 0 .. NumPhysPages
      BY <2>10, <2>11, <3>1, CountFits DEF Accounted, Reserved
    <3> QED BY <1>1, <2>2, <2>3, <2>4, <3>1, <3>2 DEF MemoryTypeOK
  <2> QED BY <2>2, <2>7, <2>9, <2>10, <2>11, <2>12, <2>13 DEF IInv, WhileOnInv
<1> QED BY <1>2, <1>3, <1>4

(* Every step keeps the invariant.                                          *)
LEMMA NextKeeps ==
  ASSUME IInv, [MemoryNext]_memory PROVE IInv'
<1>1. CASE UNCHANGED memory
  <2>1. UNCHANGED <<Copying, CopyFrames>>
    BY <1>1 DEF memory, Copying, CopyFrames
  <2>2. \A t \in Thread : UNCHANGED <<Private(t), Shared(t)>>
    BY <1>1 DEF memory, Private, Shared
  <2>3. MemoryTypeOK' /\ machine' = machine
    BY <1>1 DEF IInv, memory, MemoryTypeOK
  <2>4. EntriesOK => EntriesOK'
    BY <1>1, <2>1 DEF memory, EntriesOK, Entry
  <2>5. OneOwner => OneOwner'
    BY <1>1, <2>2 DEF memory, OneOwner
  <2>6. Reserved /\ Accounted => Reserved' /\ Accounted'
    BY <1>1, <2>1, <2>2 DEF memory, Reserved, Accounted
  <2>7. Forking => Forking'
    <3>1. \A t, c \in Thread : HalfCopied(t, c) => HalfCopied(t, c)'
      BY <1>1, <2>2 DEF memory, HalfCopied
    <3> QED BY <1>1, <2>1, <3>1 DEF memory, Forking, Copying
  <2> QED BY <2>3, <2>4, <2>5, <2>6, <2>7 DEF IInv, WhileOnInv
<1>2. ASSUME NEW t \in Thread, UNCHANGED load,
             \/ \E program \in load.programs : Launch(t, program) \/ Exec(t, program)
             \/ \E p \in DOMAIN pageTable[t], v \in Written : Store(t, p, v)
             \/ \E p \in DOMAIN pageTable[t] : PageFault(t, p)
             \/ \E c \in Thread : Fork(t, c) \/ ForkResumes(t, c)
             \/ \E n \in 1 .. load.pages : ShmAllocate(t, n)
             \/ ExecMissing(t) \/ Exit(t)
      PROVE  IInv'
  BY <1>2, LaunchKeeps, ExecKeeps, StoreKeeps, PageFaultKeeps, ForkKeeps, ShmAllocateKeeps,
     ExecMissingKeeps, ExitKeeps
<1> QED BY <1>1, <1>2 DEF MemoryNext, Ended

-----------------------------------------------------------------------------
(* The invariant of the memory: its state is well formed, and while the     *)
(* machine is on no frame has two owners, none is lost, and a sleeping fork *)
(* has copied exactly the pages in front of its next one.                   *)
THEOREM MemoryInvariant == MemorySpec => []IInv
<1>1. MemoryInit => IInv
  BY InitIInv
<1>2. IInv /\ [MemoryNext]_memory => IInv'
  BY NextKeeps
<1> QED BY <1>1, <1>2, PTL DEF MemorySpec

(* The state of the memory has its types.                                   *)
THEOREM TypesAreKept == MemorySpec => []MemoryTypeOK
<1>1. IInv => MemoryTypeOK
  BY DEF IInv
<1> QED BY <1>1, MemoryInvariant, PTL

(* No frame has two owners, for any number of frames and processes.         *)
THEOREM FramesNotAliased == MemorySpec => []NoAliasing
<1>1. ASSUME IInv PROVE NoAliasing
  <2> SUFFICES ASSUME machine = "on"
               PROVE  /\ \A t, u \in Thread : \A p \in Private(t), q \in Private(u) \cup Shared(u) :
                           pageTable[t][p].frame = pageTable[u][q].frame => t = u /\ p = q
                      /\ \A t \in Copying : /\ \A u \in Thread : copying[t].frame \notin Mapped(u)
                                            /\ \A u \in Copying \ {t} :
                                                 copying[t].frame # copying[u].frame
                      /\ \A t \in Thread : Mapped(t) \subseteq physPageStatus
    BY DEF NoAliasing
  <2>1. MemoryTypeOK /\ WhileOnInv
    BY <1>1 DEF IInv
  <2>2. \A u \in Thread : \A p \in Private(u) : pageTable[u][p].frame \notin everShared \cup CopyFrames
    BY <2>1, PagesOf DEF WhileOnInv, EntriesOK, Entry
  <2>3. \A u \in Thread : \A q \in Shared(u) : pageTable[u][q].frame \in everShared
    BY <2>1, PagesOf DEF WhileOnInv, EntriesOK, Entry
  <2>4. \A t, u \in Thread : \A p \in Private(t), q \in Private(u) \cup Shared(u) :
          pageTable[t][p].frame = pageTable[u][q].frame => t = u /\ p = q
    BY <2>1, <2>2, <2>3 DEF WhileOnInv, OneOwner
  <2>5. \A t \in Copying : copying[t].frame \in CopyFrames \ everShared
    BY <2>1 DEF WhileOnInv, Reserved, CopyFrames
  <2>6. \A t \in Copying : \A u \in Thread : copying[t].frame \notin Mapped(u)
    BY <2>2, <2>3, <2>5 DEF Mapped
  <2>7. \A t \in Copying : \A u \in Copying \ {t} : copying[t].frame # copying[u].frame
    BY <2>1 DEF WhileOnInv, Reserved
  <2>8. \A t \in Thread : Mapped(t) \subseteq physPageStatus
    BY <2>1, PagesOf DEF Mapped, WhileOnInv, EntriesOK, Entry
  <2> QED BY <2>4, <2>6, <2>7, <2>8
<1> QED BY <1>1, MemoryInvariant, PTL

(* Every frame that is taken has an owner, and the count of them is behind  *)
(* by one for each fork that sleeps.                                        *)
THEOREM FramesAccounted == MemorySpec => []NoFrameLost
<1>1. ASSUME IInv PROVE NoFrameLost
  <2> SUFFICES ASSUME machine = "on"
               PROVE  /\ physPageStatus \subseteq (UNION {Mapped(t) : t \in Thread})
                                \cup {copying[t].frame : t \in Copying} \cup everShared
                      /\ numPagesAllocated + Cardinality(Copying) = Cardinality(physPageStatus)
    BY DEF NoFrameLost
  <2>1. MemoryTypeOK /\ WhileOnInv
    BY <1>1 DEF IInv
  <2>2. \A f \in physPageStatus \ (CopyFrames \cup everShared) : \E t \in Thread : f \in Mapped(t)
    BY <2>1 DEF WhileOnInv, Accounted, Mapped
  <2>3. Cardinality(CopyFrames) = Cardinality(Copying)
    <3> DEFINE g == [t \in Copying |-> copying[t].frame]
    <3>1. g \in Bijection(Copying, CopyFrames)
      BY <2>1 DEF Bijection, Injection, IsInjective, Surjection, CopyFrames, WhileOnInv, Reserved
    <3>2. IsFiniteSet(CopyFrames)
      BY <2>1, FramesFinite DEF WhileOnInv, Reserved, MemoryTypeOK
    <3>3. g \in Injection(Copying, CopyFrames) /\ g \in Surjection(Copying, CopyFrames)
      BY <3>1 DEF Bijection
    <3> HIDE DEF g
    <3> QED BY <3>2, <3>3, FS_Injection
  <2>4. numPagesAllocated + Cardinality(Copying) = Cardinality(physPageStatus)
    BY <2>1, <2>3 DEF WhileOnInv, Accounted
  <2>5. physPageStatus \subseteq (UNION {Mapped(t) : t \in Thread}) \cup CopyFrames \cup everShared
    <3> DEFINE U == UNION {Mapped(t) : t \in Thread}
    <3>1. \A t \in Thread : Mapped(t) \subseteq U
      OBVIOUS
    <3> HIDE DEF U
    <3>2. physPageStatus \subseteq U \cup CopyFrames \cup everShared
      BY <2>2, <3>1
    <3> QED BY <3>2 DEF U
  <2> QED BY <2>4, <2>5 DEF CopyFrames
<1> QED BY <1>1, MemoryInvariant, PTL

-----------------------------------------------------------------------------
(* The address space of t as the abstract specification sees it, and the    *)
(* variables of that specification.                                         *)
View(t) == IF phase[t] \in {"unborn", "created"} THEN <<>>
           ELSE [p \in DOMAIN pageTable[t] |-> Contents(t, p)]
Pages == [t \in Thread |-> View(t)]
Segments == [f \in Frames |-> IF f \in everShared THEN mainMemory[f] ELSE 0]

(* What a page holds depends on its entry and on its own frame only.        *)
LEMMA SameContents ==
  ASSUME NEW t \in Thread, NEW p,
         pageTable'[t][p] = pageTable[t][p],
         pageTable[t][p].valid /\ ~pageTable[t][p].shared =>
           mainMemory'[pageTable[t][p].frame] = mainMemory[pageTable[t][p].frame],
         ~pageTable[t][p].valid => executable'[t] = executable[t]
  PROVE  Contents(t, p)' = Contents(t, p)
BY DEF Contents

(* An address space is the same if its entries and private frames are.      *)
LEMMA SameView ==
  ASSUME NEW t \in Thread,
         phase'[t] \in {"unborn", "created"} <=> phase[t] \in {"unborn", "created"},
         phase[t] \notin {"unborn", "created"} =>
           /\ pageTable'[t] = pageTable[t] /\ executable'[t] = executable[t]
           /\ \A p \in Private(t) :
                mainMemory'[pageTable[t][p].frame] = mainMemory[pageTable[t][p].frame]
  PROVE  View(t)' = View(t)
<1>1. CASE phase[t] \in {"unborn", "created"}
  BY <1>1 DEF View
<1>2. CASE phase[t] \notin {"unborn", "created"}
  <2>1. \A p \in DOMAIN pageTable[t] : Contents(t, p)' = Contents(t, p)
    BY <1>2, SameContents DEF Private
  <2> QED BY <1>2, <2>1 DEF View
<1> QED BY <1>1, <1>2

(* The steps that the abstract specification does not see.                  *)
LEMMA Unseen ==
  ASSUME MemoryTypeOK, WhileOnInv, NEW S \in SUBSET (Frames \ everShared),
         \A u \in Thread :
           phase'[u] \in {"unborn", "created"} <=> phase[u] \in {"unborn", "created"},
         \A u \in Thread : phase[u] \notin {"unborn", "created"} =>
           /\ pageTable'[u] = pageTable[u] /\ executable'[u] = executable[u]
           /\ \A p \in Private(u) : pageTable[u][p].frame \notin S,
         \A g \in Frames \ S : mainMemory'[g] = mainMemory[g],
         everShared' = everShared
  PROVE  UNCHANGED <<Pages, Segments>>
<1>1. \A u \in Thread : \A p \in Private(u) : pageTable[u][p].frame \in Frames
  BY PagesOf DEF WhileOnInv, EntriesOK, Entry, MemoryTypeOK
<1>2. \A u \in Thread : View(u)' = View(u)
  BY <1>1, SameView
<1> QED BY <1>2 DEF Pages, Segments

(* A page fault loads what the page was said to hold.                       *)
LEMMA PageFaultUnseen ==
  ASSUME IInv, NEW t \in Thread, NEW p \in DOMAIN pageTable[t], PageFault(t, p)
  PROVE  UNCHANGED <<Pages, Segments>>
<1> DEFINE f == NextAvailPhysPage
<1>1. MemoryTypeOK /\ WhileOnInv /\ phase[t] = "user"
  BY DEF IInv, PageFault, InUserMode
<1>2. CASE Free = {}
  <2>1. UNCHANGED <<mainMemory, pageTable, executable, phase, everShared>>
    BY <1>2 DEF PageFault, Abort
  <2>2. {} \in SUBSET (Frames \ everShared)
    OBVIOUS
  <2>3. /\ \A g \in Frames \ {} : mainMemory'[g] = mainMemory[g]
        /\ \A u \in Thread : \A q \in Private(u) : pageTable[u][q].frame \notin {}
    BY <2>1
  <2> QED BY <1>1, <2>1, <2>2, <2>3, Unseen
<1>3. CASE Free # {}
  <2>1. f \in Frames \ physPageStatus
    BY <1>3, NextFrame
  <2>2. /\ mainMemory' = [mainMemory EXCEPT ![f] = executable[t][p]]
        /\ pageTable' = [pageTable EXCEPT ![t] = [pageTable[t] EXCEPT ![p] = PrivateIn(f)]]
        /\ UNCHANGED <<executable, phase, everShared>> /\ ~pageTable[t][p].valid
    BY <1>3 DEF PageFault, Loaded
  <2> HIDE DEF f
  <2>3. \A u \in Thread : \A q \in Private(u) :
          mainMemory'[pageTable[u][q].frame] = mainMemory[pageTable[u][q].frame]
    <3>1. \A u \in Thread : \A q \in Private(u) : pageTable[u][q].frame \in physPageStatus
      BY <1>1, PagesOf DEF WhileOnInv, EntriesOK, Entry
    <3> QED BY <1>1, <2>1, <2>2, <3>1 DEF MemoryTypeOK
  <2>4. \A u \in Thread : u # t => View(u)' = View(u)
    BY <1>1, <2>2, <2>3, SameView DEF MemoryTypeOK
  <2>5. /\ DOMAIN pageTable'[t] = DOMAIN pageTable[t] /\ pageTable'[t][p] = PrivateIn(f)
        /\ \A q \in DOMAIN pageTable[t] : q # p => pageTable'[t][q] = pageTable[t][q]
    BY <1>1, <2>2 DEF MemoryTypeOK
  <2>6. \A q \in DOMAIN pageTable[t] : Contents(t, q)' = Contents(t, q)
    <3> SUFFICES ASSUME NEW q \in DOMAIN pageTable[t] PROVE Contents(t, q)' = Contents(t, q)
      OBVIOUS
    <3>1. CASE q = p
      <4>1. mainMemory'[f] = executable[t][p]
        BY <1>1, <2>1, <2>2 DEF MemoryTypeOK
      <4>2. ~pageTable[t][p].shared
        BY <1>1, <2>2 DEF WhileOnInv, EntriesOK, Entry
      <4>3. pageTable'[t][p].valid /\ ~pageTable'[t][p].shared /\ pageTable'[t][p].frame = f
        BY <2>1, <2>5, EntryForms
      <4>4. Contents(t, p)' = [segment |-> {}, value |-> mainMemory'[f]]
        BY <4>3 DEF Contents
      <4>5. Contents(t, p) = [segment |-> {}, value |-> executable[t][p]]
        BY <2>2, <4>2 DEF Contents
      <4> QED BY <3>1, <4>1, <4>4, <4>5
    <3>2. CASE q # p
      BY <2>2, <2>3, <2>5, <3>2, SameContents DEF Private
    <3> QED BY <3>1, <3>2
  <2>7. View(t)' = View(t)
    BY <1>1, <2>2, <2>5, <2>6 DEF View
  <2>8. Segments' = Segments
    BY <1>1, <2>1, <2>2 DEF Segments, WhileOnInv, Reserved, MemoryTypeOK
  <2> QED BY <2>4, <2>7, <2>8 DEF Pages
<1> QED BY <1>2, <1>3

(* A fork that goes on is not seen; when it ends, the child has the pages   *)
(* of its parent.                                                           *)
LEMMA ForkSeen ==
  ASSUME IInv, NEW t \in Thread, NEW c \in Thread, Fork(t, c) \/ ForkResumes(t, c),
         UNCHANGED load
  PROVE  \/ UNCHANGED <<Pages, Segments>>
         \/ /\ Pages[c] = <<>> /\ Pages' = [Pages EXCEPT ![c] = Pages[t]]
            /\ UNCHANGED Segments
<1>1. MemoryTypeOK /\ WhileOnInv /\ machine = "on"
  BY DEF IInv, Fork, ForkResumes, InUserMode
<1>2. CASE Abort
  BY <1>1, <1>2, Unseen DEF Abort
<1>3. ASSUME NEW i \in Nat, NEW new, NEW table, ForkStep(t, c, i, table, new), CopyFrom(t, c, i)
      PROVE  \/ UNCHANGED <<Pages, Segments>>
             \/ /\ Pages[c] = <<>> /\ Pages' = [Pages EXCEPT ![c] = Pages[t]]
                /\ UNCHANGED Segments
  <2>1. /\ c # t /\ phase[c] \in {"unborn", "created"} /\ phase[t] \in {"user", "fork"}
        /\ \A g \in Frames \ new : mainMemory'[g] = mainMemory[g]
        /\ everShared' = everShared
        /\ DOMAIN table = DOMAIN pageTable[t]
    BY <1>3 DEF ForkStep
  <2>2. new \in SUBSET CopyFrames /\ new \in SUBSET (Frames \ everShared)
    BY <1>1, <1>3, OtherFrames DEF WhileOnInv, Reserved
  <2>3. \A u \in Thread : \A p \in Private(u) : pageTable[u][p].frame \in Frames \ new
    BY <1>1, <2>2, PagesOf DEF WhileOnInv, EntriesOK, Entry, MemoryTypeOK
  <2>4. /\ pageTable'[c] = table /\ executable'[c] = executable[t]
        /\ \A u \in Thread : u # c => pageTable'[u] = pageTable[u] /\ executable'[u] = executable[u]
    BY <1>1, <1>3, ForkedTables
  <2>5. Segments' = Segments
    <3>1. \A f \in Frames : f \in everShared => mainMemory'[f] = mainMemory[f]
      BY <2>1, <2>2
    <3>2. \A f \in Frames : (IF f \in everShared' THEN mainMemory'[f] ELSE 0)
                             = (IF f \in everShared THEN mainMemory[f] ELSE 0)
      BY <2>1, <3>1
    <3> QED BY <3>2 DEF Segments
  <2>6. CASE \A p \in Private(t) : p < i
    <3>1. phase' = [phase EXCEPT ![t] = "user", ![c] = "user"]
      <4>1. {p \in Private(t) : p >= i} = {}
        BY <1>1, <2>6, PagesOf
      <4> QED BY <1>3, <4>1 DEF CopyFrom
    <3>2. /\ phase'[t] = "user" /\ phase'[c] = "user"
          /\ \A u \in Thread : u \notin {t, c} => phase'[u] = phase[u]
      BY <1>1, <3>1 DEF MemoryTypeOK
    <3>3. \A u \in Thread : u # c => View(u)' = View(u)
      BY <2>1, <2>3, <2>4, <3>2, SameView
    <3>4. \A p \in DOMAIN table : Contents(c, p)' = Contents(t, p)
      <4> SUFFICES ASSUME NEW p \in DOMAIN table PROVE Contents(c, p)' = Contents(t, p)
        OBVIOUS
      <4>1. CASE p \in Shared(t)
        BY <1>1, <1>3, <2>1, <2>4, <4>1, PagesOf DEF ForkStep, Contents
      <4>2. CASE p \in Private(t)
        <5>1. p \in DOMAIN pageTable[t] /\ pageTable[t][p].valid /\ ~pageTable[t][p].shared
          BY <1>1, <2>1, <4>2, PagesOf
        <5>2. /\ table[p].valid /\ ~table[p].shared
              /\ mainMemory'[table[p].frame] = mainMemory[pageTable[t][p].frame]
          BY <1>3, <2>6, <4>2 DEF ForkStep
        <5> QED BY <2>4, <5>1, <5>2 DEF Contents
      <4>3. CASE p \notin Shared(t) /\ p \notin Private(t)
        <5>1. table[p] = Invalid
          BY <1>3, <4>3 DEF ForkStep
        <5> QED BY <1>1, <2>1, <2>4, <4>3, <5>1, PagesOf, EntryForms DEF Contents
      <4> QED BY <4>1, <4>2, <4>3
    <3>5. View(c)' = View(t)
      BY <2>1, <2>4, <3>2, <3>4 DEF View
    <3>6. View(c) = <<>>
      BY <2>1 DEF View
    <3> QED BY <2>5, <3>3, <3>5, <3>6 DEF Pages
  <2>7. CASE ~(\A p \in Private(t) : p < i)
    <3>1. phase' = phase \/ phase' = [phase EXCEPT ![t] = "fork", ![c] = "created"]
      <4>1. {p \in Private(t) : p >= i} # {}
        BY <1>1, <2>7, PagesOf
      <4> QED BY <1>3, <4>1 DEF CopyFrom
    <3>2. \A u \in Thread :
            phase'[u] \in {"unborn", "created"} <=> phase[u] \in {"unborn", "created"}
      BY <1>1, <2>1, <3>1 DEF MemoryTypeOK
    <3>3. \A u \in Thread : View(u)' = View(u)
      BY <2>1, <2>3, <2>4, <3>2, SameView
    <3> QED BY <2>5, <3>3 DEF Pages
  <2> QED BY <2>6, <2>7
<1> QED BY <1>2, <1>3, ForkIsStep, ForkResumesIsStep

(* A new address space is a program that has not run yet.                   *)
LEMMA NewSpaceSeen ==
  ASSUME MemoryTypeOK, WhileOnInv, NEW t \in Thread, NEW program \in load.programs,
         NewSpace(t, program), phase'[t] = "user",
         \A u \in Thread : u # t => phase'[u] = phase[u],
         UNCHANGED <<mainMemory, everShared>>
  PROVE  /\ Pages' = [Pages EXCEPT ![t] = [p \in DOMAIN program |->
                                             [segment |-> {}, value |-> program[p]]]]
         /\ UNCHANGED Segments
<1>1. program \in Seq(Nat)
  BY ProgramSeq
<1>2. /\ DOMAIN pageTable'[t] = DOMAIN program
      /\ \A p \in DOMAIN program : pageTable'[t][p] = Invalid
      /\ \A u \in Thread : u # t => pageTable'[u] = pageTable[u]
      /\ executable'[t] = program
      /\ \A u \in Thread : u # t => executable'[u] = executable[u]
  BY <1>1, EmptyTable DEF NewSpace, MemoryTypeOK
<1>3. \A u \in Thread : u # t => View(u)' = View(u)
  BY <1>2, SameView
<1>4. \A p \in DOMAIN program : Contents(t, p)' = [segment |-> {}, value |-> program[p]]
  BY <1>2, EntryForms DEF Contents
<1>5. View(t)' = [p \in DOMAIN program |-> [segment |-> {}, value |-> program[p]]]
  BY <1>2, <1>4 DEF View
<1> QED BY <1>3, <1>5 DEF Pages, Segments

(* A store writes a page of the process or a shared segment.                *)
LEMMA StoreSeen ==
  ASSUME IInv, NEW t \in Thread, NEW p \in DOMAIN pageTable[t], NEW v \in Written,
         Store(t, p, v)
  PROVE  /\ p \in DOMAIN Pages[t]
         /\ \/ /\ Pages[t][p].segment = {}
               /\ Pages' = [Pages EXCEPT ![t] = [Pages[t] EXCEPT
                                                   ![p] = [segment |-> {}, value |-> v]]]
               /\ UNCHANGED Segments
            \/ /\ Pages[t][p].segment # {} /\ UNCHANGED Pages
               /\ Segments' = [f \in Frames |->
                    IF Pages[t][p] = [segment |-> {f}, value |-> 0] THEN v ELSE Segments[f]]
<1> DEFINE f == pageTable[t][p].frame
<1>1. MemoryTypeOK /\ WhileOnInv /\ phase[t] = "user" /\ pageTable[t][p].valid
  BY DEF IInv, Store, InUserMode
<1>2. /\ mainMemory' = [mainMemory EXCEPT ![f] = v] /\ f \in Frames
      /\ UNCHANGED <<pageTable, executable, phase, everShared>>
  BY <1>1 DEF Store, WhileOnInv, EntriesOK, Entry, MemoryTypeOK
<1> HIDE DEF f
<1>3. mainMemory'[f] = v /\ \A g \in Frames : g # f => mainMemory'[g] = mainMemory[g]
  BY <1>1, <1>2 DEF MemoryTypeOK
<1>4. Pages[t] = [q \in DOMAIN pageTable[t] |-> Contents(t, q)]
  BY <1>1 DEF Pages, View
<1>5. \A u \in Thread : \A q \in Private(u) : pageTable[u][q].frame \in Frames \ everShared
  BY <1>1, PagesOf DEF WhileOnInv, EntriesOK, Entry, MemoryTypeOK
<1>6. CASE p \in Private(t)
  <2>1. f \notin everShared /\ ~pageTable[t][p].shared
    BY <1>1, <1>5, <1>6, PagesOf DEF f
  <2>2. \A u \in Thread : \A q \in Private(u) : ~(u = t /\ q = p) => pageTable[u][q].frame # f
    BY <1>1, <1>6 DEF WhileOnInv, OneOwner, f
  <2>3. \A u \in Thread : u # t => View(u)' = View(u)
    BY <1>2, <1>3, <1>5, <2>2, SameView
  <2>4. \A q \in DOMAIN pageTable[t] : q # p => Contents(t, q)' = Contents(t, q)
    BY <1>2, <1>3, <1>5, <2>2, SameContents DEF Private
  <2>5. Contents(t, p)' = [segment |-> {}, value |-> v] /\ Contents(t, p).segment = {}
    BY <1>1, <1>2, <1>3, <2>1 DEF Contents, f
  <2>6. View(t)' = [View(t) EXCEPT ![p] = [segment |-> {}, value |-> v]]
    BY <1>1, <1>2, <2>4, <2>5 DEF View
  <2>7. Segments' = Segments
    <3>1. \A g \in Frames : (IF g \in everShared' THEN mainMemory'[g] ELSE 0)
                             = (IF g \in everShared THEN mainMemory[g] ELSE 0)
      BY <1>2, <1>3, <2>1
    <3> QED BY <3>1 DEF Segments
  <2>8. Pages' = [Pages EXCEPT ![t] = [Pages[t] EXCEPT ![p] = [segment |-> {}, value |-> v]]]
    BY <2>3, <2>6 DEF Pages
  <2> QED BY <1>4, <2>5, <2>7, <2>8
<1>7. CASE p \notin Private(t)
  <2>1. pageTable[t][p].shared
    BY <1>1, <1>7, PagesOf
  <2>2. f \in everShared
    BY <1>1, <2>1 DEF WhileOnInv, EntriesOK, Entry, f
  <2>3. \A u \in Thread : \A q \in Private(u) : pageTable[u][q].frame # f
    BY <1>5, <2>2
  <2>4. \A u \in Thread : View(u)' = View(u)
    BY <1>2, <1>3, <1>5, <2>3, SameView
  <2>5. Contents(t, p) = [segment |-> {f}, value |-> 0]
    BY <2>1 DEF Contents, f
  <2>6. Pages[t][p] = [segment |-> {f}, value |-> 0] /\ {f} # {}
    BY <1>4, <2>5
  <2>7. \A g \in Frames :
          (IF g \in everShared' THEN mainMemory'[g] ELSE 0)
            = (IF Pages[t][p] = [segment |-> {g}, value |-> 0] THEN v ELSE Segments[g])
    <3>1. \A g \in Frames : Pages[t][p] = [segment |-> {g}, value |-> 0] <=> g = f
      BY <2>6
    <3> QED BY <1>2, <1>3, <2>2, <3>1 DEF Segments
  <2>8. Segments' = [g \in Frames |->
                      IF Pages[t][p] = [segment |-> {g}, value |-> 0] THEN v ELSE Segments[g]]
    BY <2>7 DEF Segments
  <2>9. Pages' = Pages
    BY <2>4 DEF Pages
  <2> QED BY <1>4, <2>6, <2>8, <2>9
<1> QED BY <1>6, <1>7

(* ShmAllocate gives cleared pages that no process has.                     *)
LEMMA ShmAllocateSeen ==
  ASSUME IInv, NEW t \in Thread, NEW n \in 1 .. load.pages, ShmAllocate(t, n)
  PROVE  \/ UNCHANGED <<Pages, Segments>>
         \/ \E S \in SUBSET Free : \E new \in SetToSeqs(S) :
              /\ Pages' = [Pages EXCEPT ![t] = Pages[t] \o
                             [i \in DOMAIN new |-> [segment |-> {new[i]}, value |-> 0]]]
              /\ Segments' = [f \in Frames |-> IF f \in ToSet(new) THEN 0 ELSE Segments[f]]
              /\ Len(Pages'[t]) > Len(Pages[t])
<1> DEFINE new == Lowest(n)
           S == ToSet(new)
<1>1. MemoryTypeOK /\ WhileOnInv /\ phase[t] = "user" /\ n \in Nat /\ n > 0
  BY MemoryAssumption DEF IInv, ShmAllocate, InUserMode, MemoryTypeOK, MemoryAssumption
<1>2. CASE ~(Fits(n) /\ ~(n > Cardinality(Free)))
  <2>1. UNCHANGED <<mainMemory, pageTable, executable, phase, everShared>>
    BY <1>2 DEF ShmAllocate, Abort
  <2>2. \A u \in Thread : UNCHANGED View(u)
    BY <2>1, SameView
  <2> QED BY <2>1, <2>2 DEF Pages, Segments
<1>3. CASE Fits(n) /\ ~(n > Cardinality(Free))
  <2>1. Cardinality(Free) \in Nat /\ Free \in SUBSET Frames
    <3>1. Free \in SUBSET Frames
      BY DEF Free
    <3> QED BY <3>1, FramesFinite, MemoryAssumption DEF MemoryAssumption
  <2>2. /\ DOMAIN new = 1 .. n /\ new \in [1 .. n -> Free]
        /\ \A i \in 1 .. n : new[i] \in Free
        /\ \A i, j \in 1 .. n : new[i] = new[j] => i = j
        /\ S \in SUBSET Free /\ Cardinality(S) = n
    BY <1>1, <1>3, <2>1, LowestFree
  <2>3. /\ mainMemory' = [f \in Frames |-> IF f \in S THEN 0 ELSE mainMemory[f]]
        /\ pageTable' = [pageTable EXCEPT ![t] =
                           pageTable[t] \o [i \in 1 .. n |-> SharedIn(new[i])]]
        /\ everShared' = everShared \cup S
        /\ UNCHANGED <<executable, phase>>
    BY <1>3 DEF ShmAllocate
  <2>4. new \in SetToSeqs(S)
    <3>1. \A i \in 1 .. n : new[i] \in S
      BY <2>2 DEF ToSet
    <3>2. new \in [1 .. Cardinality(S) -> S]
      BY <2>2, <3>1
    <3> QED BY <2>2, <3>2 DEF SetToSeqs
  <2> HIDE DEF new, S
  <2>5. \A u \in Thread : \A q \in Private(u) :
          mainMemory'[pageTable[u][q].frame] = mainMemory[pageTable[u][q].frame]
    <3>1. \A u \in Thread : \A q \in Private(u) : pageTable[u][q].frame \in physPageStatus
      BY <1>1, PagesOf DEF WhileOnInv, EntriesOK, Entry
    <3>2. physPageStatus \subseteq Frames /\ S \cap physPageStatus = {}
      BY <1>1, <2>2 DEF Free, MemoryTypeOK
    <3> QED BY <2>3, <3>1, <3>2
  <2>6. \A u \in Thread : u # t => View(u)' = View(u)
    BY <1>1, <2>3, <2>5, SameView DEF MemoryTypeOK
  <2> DEFINE old == pageTable[t]
             larger == old \o [i \in 1 .. n |-> SharedIn(new[i])]
  <2>7. /\ old \in Seq(Entries) /\ larger \in Seq(Entries)
        /\ DOMAIN larger = 1 .. (Len(old) + n)
        /\ \A p \in DOMAIN old : larger[p] = old[p]
        /\ \A p \in DOMAIN larger \ DOMAIN old :
             p - Len(old) \in 1 .. n /\ larger[p] = SharedIn(new[p - Len(old)])
    <3>1. pageTable[t] \in Seq(Entries) /\ \A i \in 1 .. n : new[i] \in Frames
      BY <1>1, <2>1, <2>2 DEF MemoryTypeOK
    <3> QED BY <1>1, <2>2, <3>1, NewPages
  <2>8. pageTable'[t] = larger
    BY <1>1, <2>3 DEF MemoryTypeOK
  <2> HIDE DEF larger
  <2>9. \A p \in DOMAIN old : Contents(t, p)' = Contents(t, p)
    BY <2>3, <2>5, <2>7, <2>8, SameContents DEF Private
  <2>10. \A p \in DOMAIN larger \ DOMAIN old :
           Contents(t, p)' = [segment |-> {new[p - Len(old)]}, value |-> 0]
    <3> SUFFICES ASSUME NEW p \in DOMAIN larger \ DOMAIN old
                 PROVE  Contents(t, p)' = [segment |-> {new[p - Len(old)]}, value |-> 0]
      OBVIOUS
    <3>1. p - Len(old) \in 1 .. n /\ larger[p] = SharedIn(new[p - Len(old)])
      BY <2>7
    <3>2. pageTable'[t][p].shared /\ pageTable'[t][p].frame = new[p - Len(old)]
      BY <2>1, <2>2, <2>8, <3>1, EntryForms
    <3> QED BY <3>2 DEF Contents
  <2> DEFINE before == [p \in DOMAIN old |-> Contents(t, p)]
             after == [p \in DOMAIN larger |-> Contents(t, p)']
             added == [i \in 1 .. n |-> [segment |-> {new[i]}, value |-> 0]]
  <2>11. View(t) = before /\ View(t)' = after
    BY <1>1, <2>3, <2>8 DEF View
  <2>12. after = before \o added /\ Len(before) = Len(old) /\ Len(after) = Len(old) + n
    <3> DEFINE R == {before[p] : p \in 1 .. Len(old)} \cup {added[i] : i \in 1 .. n}
    <3>1. before \in [1 .. Len(old) -> R] /\ added \in [1 .. n -> R]
      <4>1. before = [p \in 1 .. Len(old) |-> before[p]] /\ added = [i \in 1 .. n |-> added[i]]
        BY <2>7
      <4> HIDE DEF before, added
      <4> QED BY <4>1
    <3>2. Len(old) \in Nat /\ DOMAIN old = 1 .. Len(old)
      BY <2>7
    <3> HIDE DEF R, before
    <3>3. \A p \in 1 .. (Len(old) + n) :
            after[p] = IF p <= Len(old) THEN before[p] ELSE added[p - Len(old)]
      <4> SUFFICES ASSUME NEW p \in 1 .. (Len(old) + n)
                   PROVE  after[p] = IF p <= Len(old) THEN before[p] ELSE added[p - Len(old)]
        OBVIOUS
      <4>1. after[p] = Contents(t, p)'
        BY <2>7
      <4>2. CASE p <= Len(old)
        BY <2>9, <3>2, <4>1, <4>2 DEF before
      <4>3. CASE ~(p <= Len(old))
        <5>1. p \in DOMAIN larger \ DOMAIN old
          BY <1>1, <2>7, <3>2, <4>3
        <5>2. /\ p - Len(old) \in 1 .. n
              /\ Contents(t, p)' = [segment |-> {new[p - Len(old)]}, value |-> 0]
          BY <2>7, <2>10, <5>1
        <5> QED BY <4>1, <4>3, <5>2
      <4> QED BY <4>2, <4>3
    <3>4. after = [p \in 1 .. (Len(old) + n) |-> after[p]] /\ Len(after) = Len(old) + n
      BY <1>1, <2>7
    <3> HIDE DEF added, after
    <3>5. before \in Seq(R) /\ Len(before) = Len(old)
      BY <3>1, <3>2
    <3>6. added \in Seq(R) /\ Len(added) = n
      BY <1>1, <3>1
    <3>7. before \o added = [p \in 1 .. (Len(before) + Len(added)) |->
                              IF p <= Len(before) THEN before[p] ELSE added[p - Len(before)]]
      BY <3>5, <3>6, Joined
    <3> QED BY SMTT(30), ZenonT(30), <3>3, <3>4, <3>5, <3>6, <3>7
  <2> HIDE DEF before, after, added, old
  <2>13. Pages' = [Pages EXCEPT ![t] = Pages[t] \o added] /\ Pages[t] = before /\ Pages'[t] = after
    BY <2>6, <2>11, <2>12 DEF Pages
  <2>14. Segments' = [f \in Frames |-> IF f \in S THEN 0 ELSE Segments[f]]
    <3>1. \A f \in Frames : (IF f \in everShared' THEN mainMemory'[f] ELSE 0)
                             = (IF f \in S THEN 0 ELSE Segments[f])
      BY <2>3 DEF Segments
    <3> QED BY <3>1 DEF Segments
  <2>15. Len(Pages'[t]) > Len(Pages[t])
    BY <1>1, <2>7, <2>12, <2>13 DEF old
  <2>16. Pages' = [Pages EXCEPT ![t] = Pages[t] \o
                     [i \in DOMAIN new |-> [segment |-> {new[i]}, value |-> 0]]]
    BY <2>2, <2>13 DEF added
  <2> QED BY <2>2, <2>4, <2>14, <2>15, <2>16 DEF S
<1> QED BY <1>2, <1>3

(* A frame that is free is in no abstract page.                             *)
LEMMA FreeNotInUse ==
  ASSUME MemoryTypeOK, WhileOnInv, NEW t \in Thread, NEW p \in DOMAIN Pages[t], NEW f \in Free
  PROVE  Pages[t][p].segment # {f}
<1>1. phase[t] \notin {"unborn", "created"} /\ p \in DOMAIN pageTable[t]
      /\ Pages[t][p] = Contents(t, p)
  BY DEF Pages, View
<1>2. pageTable[t][p].shared => pageTable[t][p].frame \in physPageStatus
  BY <1>1 DEF WhileOnInv, EntriesOK, Entry
<1>3. f \notin physPageStatus
  BY DEF Free
<1> QED BY <1>1, <1>2, <1>3 DEF Contents

-----------------------------------------------------------------------------
(* The steps of the abstract specification, in the terms of this module.    *)
LEMMA AbstractRun ==
  ASSUME NEW t \in Thread, NEW program \in Programs,
         Pages' = [Pages EXCEPT ![t] = [p \in DOMAIN program |->
                                          [segment |-> {}, value |-> program[p]]]],
         UNCHANGED Segments
  PROVE  Abstract!VMNext
<1>1. Abstract!Run(t, program)
  BY DEF Abstract!Run, Abstract!Private, Pages, View, Segments
<1> QED BY <1>1 DEF Abstract!VMNext

(* A forked process gets the pages of its parent.                           *)
LEMMA AbstractFork ==
  ASSUME NEW t \in Thread, NEW c \in Thread, Pages[c] = <<>>,
         Pages' = [Pages EXCEPT ![c] = Pages[t]], UNCHANGED Segments
  PROVE  Abstract!VMNext
<1>1. Abstract!Fork(t, c)
  BY DEF Abstract!Fork, Pages, View, Segments
<1> QED BY <1>1 DEF Abstract!VMNext

(* A value is written to a private page or to a segment.                    *)
LEMMA AbstractWrite ==
  ASSUME NEW t \in Thread, NEW v \in Written, NEW p \in DOMAIN Pages[t],
         \/ /\ Pages[t][p].segment = {}
            /\ Pages' = [Pages EXCEPT ![t] = [Pages[t] EXCEPT
                                                ![p] = [segment |-> {}, value |-> v]]]
            /\ UNCHANGED Segments
         \/ /\ Pages[t][p].segment # {} /\ UNCHANGED Pages
            /\ Segments' = [f \in Frames |->
                 IF Pages[t][p] = [segment |-> {f}, value |-> 0] THEN v ELSE Segments[f]]
  PROVE  Abstract!VMNext
<1>1. Abstract!Write(t, p, v)
  BY DEF Abstract!Write, Abstract!Private, Abstract!Shared, Pages, View, Segments
<1>2. \E q \in DOMAIN Pages[t] : Abstract!Write(t, q, v)
  BY <1>1
<1> QED BY <1>2 DEF Abstract!VMNext, Pages, View

(* New segments are in no page of any process.                              *)
LEMMA AbstractShare ==
  ASSUME NEW t \in Thread, NEW S \in SUBSET Frames, NEW new \in SetToSeqs(S),
         \A u \in Thread : \A p \in DOMAIN Pages[u] : \A f \in S : Pages[u][p].segment # {f},
         Pages' = [Pages EXCEPT ![t] = Pages[t] \o
                     [i \in DOMAIN new |-> [segment |-> {new[i]}, value |-> 0]]],
         Segments' = [f \in Frames |-> IF f \in ToSet(new) THEN 0 ELSE Segments[f]],
         Len(Pages'[t]) > Len(Pages[t])
  PROVE  Abstract!VMNext
<1>1. Abstract!Share(t, new)
  BY DEF Abstract!Share, Abstract!Shared, Abstract!ToSet, ToSet, Pages, View, Segments
<1>2. S \in SUBSET (Frames \ Abstract!InUse)
  <2> SUFFICES ASSUME NEW f \in S PROVE f \notin Abstract!InUse
    OBVIOUS
  <2>1. \A u \in Thread : \A p \in DOMAIN Pages[u] : Pages[u][p].segment # {f}
    OBVIOUS
  <2> QED BY SMTT(30), ZenonT(30), <2>1 DEF Abstract!InUse, Pages, View
<1>3. Len(Pages'[t]) > Len(Pages[t])
  OBVIOUS
<1>4. new \in Abstract!SetToSeqs(S)
  BY DEF Abstract!SetToSeqs, SetToSeqs, Cardinality, Abstract!Cardinality
<1> QED BY <1>1, <1>2, <1>3, <1>4 DEF Abstract!VMNext, Pages, View

(* Every step of the kernel is a step of the abstract specification, or     *)
(* changes nothing that it sees.                                            *)
LEMMA StepSeen ==
  ASSUME IInv, [MemoryNext]_memory
  PROVE  Abstract!VMNext \/ UNCHANGED <<Pages, Segments>>
<1>1. CASE UNCHANGED memory
  BY <1>1, SameView DEF memory, Pages, Segments
<1>2. ASSUME NEW t \in Thread, NEW program \in load.programs, UNCHANGED load,
             Launch(t, program) \/ Exec(t, program)
      PROVE  Abstract!VMNext \/ UNCHANGED <<Pages, Segments>>
  <2>1. /\ MemoryTypeOK /\ WhileOnInv /\ phase[t] \in {"unborn", "user"}
        /\ UNCHANGED <<mainMemory, everShared>>
    BY <1>2 DEF IInv, Launch, Exec, Abort, InUserMode, CanBeBorn
  <2>2. program \in Programs
    BY <2>1 DEF Programs, MemoryTypeOK
  <2>3. CASE /\ NewSpace(t, program) /\ phase'[t] = "user"
             /\ \A u \in Thread : u # t => phase'[u] = phase[u]
    BY <1>2, <2>1, <2>2, <2>3, NewSpaceSeen, AbstractRun
  <2>4. CASE UNCHANGED <<pageTable, executable, phase>>
    <3>1. \A u \in Thread : UNCHANGED View(u)
      BY <2>1, <2>4, SameView
    <3> QED BY <2>1, <3>1 DEF Pages, Segments
  <2> QED BY <1>2, <2>1, <2>3, <2>4 DEF Launch, Exec, Abort, InUserMode, MemoryTypeOK
<1>3. ASSUME NEW t \in Thread, NEW p \in DOMAIN pageTable[t], NEW v \in Written, Store(t, p, v)
      PROVE  Abstract!VMNext
  BY SMTT(30), <1>3, StoreSeen, AbstractWrite
<1>4. ASSUME NEW t \in Thread, NEW c \in Thread, UNCHANGED load, Fork(t, c) \/ ForkResumes(t, c)
      PROVE  Abstract!VMNext \/ UNCHANGED <<Pages, Segments>>
  BY <1>4, ForkSeen, AbstractFork
<1>5. ASSUME NEW t \in Thread, NEW n \in 1 .. load.pages, ShmAllocate(t, n)
      PROVE  Abstract!VMNext \/ UNCHANGED <<Pages, Segments>>
  <2>1. MemoryTypeOK /\ WhileOnInv
    BY <1>5 DEF IInv, ShmAllocate, InUserMode
  <2>2. Free \in SUBSET Frames
    BY DEF Free
  <2>3. CASE \E S \in SUBSET Free : \E new \in SetToSeqs(S) :
               /\ Pages' = [Pages EXCEPT ![t] = Pages[t] \o
                              [i \in DOMAIN new |-> [segment |-> {new[i]}, value |-> 0]]]
               /\ Segments' = [f \in Frames |-> IF f \in ToSet(new) THEN 0 ELSE Segments[f]]
               /\ Len(Pages'[t]) > Len(Pages[t])
    <3>1. PICK S \in SUBSET Free : \E new \in SetToSeqs(S) :
               /\ Pages' = [Pages EXCEPT ![t] = Pages[t] \o
                              [i \in DOMAIN new |-> [segment |-> {new[i]}, value |-> 0]]]
               /\ Segments' = [f \in Frames |-> IF f \in ToSet(new) THEN 0 ELSE Segments[f]]
               /\ Len(Pages'[t]) > Len(Pages[t])
      BY <2>3
    <3>2. S \in SUBSET Frames
      BY <2>2
    <3>3. \A u \in Thread : \A p \in DOMAIN Pages[u] : \A f \in S : Pages[u][p].segment # {f}
      BY <2>1, FreeNotInUse
    <3> QED BY <3>1, <3>2, <3>3, AbstractShare
  <2> QED BY <1>5, <2>3, ShmAllocateSeen
<1>6. ASSUME NEW t \in Thread, ExecMissing(t) \/ Exit(t)
      PROVE  UNCHANGED <<Pages, Segments>>
  <2>1. UNCHANGED <<mainMemory, pageTable, executable, everShared>>
    BY <1>6 DEF ExecMissing, Exit
  <2>2. \A u \in Thread : phase'[u] \in {"unborn", "created"} <=> phase[u] \in {"unborn", "created"}
    BY <1>6 DEF ExecMissing, Exit, InUserMode, IInv, MemoryTypeOK
  <2>3. \A u \in Thread : UNCHANGED View(u)
    BY <2>1, <2>2, SameView
  <2> QED BY <2>1, <2>3 DEF Pages, Segments
<1>7. CASE UNCHANGED load /\ \E t \in Thread :
             \/ \E program \in load.programs : Launch(t, program) \/ Exec(t, program)
             \/ \E p \in DOMAIN pageTable[t], v \in Written : Store(t, p, v)
             \/ \E p \in DOMAIN pageTable[t] : PageFault(t, p)
             \/ \E c \in Thread : Fork(t, c) \/ ForkResumes(t, c)
             \/ \E n \in 1 .. load.pages : ShmAllocate(t, n)
             \/ ExecMissing(t) \/ Exit(t)
  BY <1>2, <1>3, <1>4, <1>5, <1>6, <1>7, PageFaultUnseen
<1> QED BY <1>1, <1>7 DEF MemoryNext, Ended

(* The address spaces implement the abstract ones: for any programs, frames *)
(* and processes, what a process reads is what NachosVirtualMemory says.    *)
THEOREM VirtualMemoryImplemented == MemorySpec => ImplementsVirtualMemory
<1>1. MemoryInit => Abstract!VMInit
  BY DEF MemoryInit, Abstract!VMInit
<1>2. IInv /\ [MemoryNext]_memory
        => [Abstract!VMNext]_<<[t \in Thread |-> IF phase[t] \in {"unborn", "created"} THEN <<>>
                                 ELSE [p \in DOMAIN pageTable[t] |-> Contents(t, p)]],
                               [f \in Frames |-> IF f \in everShared THEN mainMemory[f] ELSE 0]>>
  BY StepSeen DEF Pages, View, Segments
<1> QED BY <1>1, <1>2, MemoryInvariant, PTL DEF MemorySpec, ImplementsVirtualMemory, Abstract!VMSpec
=============================================================================
