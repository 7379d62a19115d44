-------------------------------- MODULE MpxHeap --------------------------------
(***************************************************************************)
(* Who uses the heap in this system: pcb_setup, pcb_insert, the alarms and *)
(* the memory menu.  Only a rejected alarm and the menu give memory back:  *)
(* pcb_free, iocb_free and dcb_free have no caller that gets there, and    *)
(* checkAlarm deletes no alarm, because get_hours, get_minutes and         *)
(* get_seconds never read the clock: itoa makes an empty string of their 0,*)
(* atoi makes a 0 of it, and no alarm's time is below 0:00:00.             *)
(***************************************************************************)
EXTENDS HeapManager

CONSTANTS
  Slots,         \* the indices of alarms_glob
  PcbSizes,      \* what pcb_setup asks for, in this order: PCB, stack, name
  LeakSize,      \* sizeof(newPcb), a pointer, in pcb_insert
  MessageSize,   \* the message of an alarm
  AlarmSize,     \* sizeof(alarm)
  UserSizes,     \* the sizes typed at the memory menu
  MaxUserBlocks  \* bound: the blocks of the menu that are not freed yet

ASSUME ClientAssumption ==
  /\ Slots \subseteq Nat /\ UserSizes \subseteq Nat /\ PcbSizes \in [1..3 -> Nat]
  /\ {LeakSize, MessageSize, AlarmSize, MaxUserBlocks} \subseteq Nat
  /\ NULL \notin [message : Nat, block : Nat]   \* an alarm that is set

VARIABLES
  asking,        \* setAlarm in progress: its message, and whether a request of it has run
  alarms_glob,   \* the alarms that are set
  users          \* the addresses the memory menu has shown, until they are freed

mpx_heap_vars == <<mcb, held, asking, alarms_glob, users>>

NotAsking == [message |-> NULL, queued |-> FALSE]

MpxHeapInit ==
  /\ HeapInit
  /\ asking = NotAsking
  /\ alarms_glob = [i \in Slots |-> NULL]
  /\ users = {}

-----------------------------------------------------------------------------
\* pcb_setup, when there is room (otherwise it writes through NULL).
PcbSetup ==
  LET m1 == Allocated(mcb, PcbSizes[1])
      m2 == Allocated(m1, PcbSizes[2])
      blocks == {Handed(mcb, PcbSizes[1]), Handed(m1, PcbSizes[2]), Handed(m2, PcbSizes[3])}
  IN /\ FirstFit(mcb, PcbSizes[1]) # NULL
     /\ FirstFit(m1, PcbSizes[2]) # NULL
     /\ FirstFit(m2, PcbSizes[3]) # NULL
     /\ mcb' = Allocated(m2, PcbSizes[3])
     /\ held' = held \union blocks
     /\ UNCHANGED <<asking, alarms_glob, users>>

\* pcb_insert of a process that waits: a block nobody keeps the address of.
\* When the heap is full nothing is allocated, and nobody notices.
Leaks(m) == IF FirstFit(m, LeakSize) = NULL THEN {} ELSE {Handed(m, LeakSize)}

PcbInsertBlocked ==
  /\ mcb' = Allocated(mcb, LeakSize)
  /\ held' = held \union Leaks(mcb)
  /\ asking' = [asking EXCEPT !.queued = asking.message # NULL]
  /\ UNCHANGED <<alarms_glob, users>>

\* memory_alloc and memory_free, from the menu: not while comhand is in
\* setAlarm.  The user frees what memory_alloc returned.
MemoryAlloc(size) ==
  /\ asking.message = NULL /\ Cardinality(users) < MaxUserBlocks
  /\ AllocateMemory(size)
  /\ users' = users \union {Handed(mcb, size).start}
  /\ UNCHANGED <<asking, alarms_glob>>

MemoryFree(start) ==
  /\ asking.message = NULL
  /\ mcb' = Freed(mcb, start)
  /\ held' = {h \in held : h.start # start}
  /\ users' = users \ {start}
  /\ UNCHANGED <<asking, alarms_glob>>

\* setAlarm, up to its first request for input.
SetAlarm ==
  /\ asking.message = NULL
  /\ AllocateMemory(MessageSize)
  /\ asking' = [NotAsking EXCEPT !.message = FirstFit(mcb, MessageSize) + Header]
  /\ UNCHANGED <<alarms_glob, users>>

(***************************************************************************)
(* setAlarm makes seven requests before it goes on.  A request that is not *)
(* performed had an event pending, which only a performed one brings about:*)
(* one at least is performed, and so goes through pcb_insert.              *)
(***************************************************************************)
Answered == asking.message # NULL /\ asking.queued

FreeSlots == {i \in Slots : alarms_glob[i] = NULL}

Stored(i) ==
  alarms_glob' = [alarms_glob EXCEPT ![i] = [message |-> asking.message,
                                            block |-> FirstFit(mcb, AlarmSize) + Header]]

AlarmAcceptedAnywhere ==   \* mutant: the slot may be taken
  /\ Answered
  /\ AllocateMemory(AlarmSize)
  /\ \E i \in Slots : Stored(i)
  /\ asking' = NotAsking
  /\ UNCHANGED users

AlarmAccepted ==
  /\ Answered /\ FreeSlots # {}
  /\ AllocateMemory(AlarmSize)
  /\ Stored(Min(FreeSlots))
  /\ asking' = NotAsking
  /\ UNCHANGED users

\* delete_alarm: the message, then the alarm.
DeleteAlarm(m, message, block) == Freed(Freed(m, message), block)

\* What is left of the heap once the message, and nothing else, is given back
\* from m, with the blocks a request in between has leaked.
MessageReturned(leaks) == held' = {h \in held : h.start # asking.message} \union leaks

\* No memory for the alarm: the request that says so may leak a block first.
AlarmUnallocated ==
  /\ Answered /\ FirstFit(mcb, AlarmSize) = NULL
  /\ \E performed \in BOOLEAN :
       LET m == IF performed THEN Allocated(mcb, LeakSize) ELSE mcb
       IN /\ mcb' = Freed(m, asking.message)
          /\ MessageReturned(IF performed THEN Leaks(mcb) ELSE {})
  /\ asking' = NotAsking
  /\ UNCHANGED <<alarms_glob, users>>

AlarmOutOfRangeStored ==   \* mutant: the range is checked once the alarm is set
  /\ Answered /\ FirstFit(mcb, AlarmSize) # NULL /\ FreeSlots # {}
  /\ mcb' = DeleteAlarm(Allocated(mcb, AlarmSize), asking.message,
                        FirstFit(mcb, AlarmSize) + Header)
  /\ MessageReturned({})
  /\ Stored(Min(FreeSlots))
  /\ asking' = NotAsking
  /\ UNCHANGED users

\* An hour, minute or second out of range.
AlarmOutOfRange ==
  /\ Answered /\ FirstFit(mcb, AlarmSize) # NULL
  /\ mcb' = DeleteAlarm(Allocated(mcb, AlarmSize), asking.message,
                        FirstFit(mcb, AlarmSize) + Header)
  /\ MessageReturned({})
  /\ asking' = NotAsking
  /\ UNCHANGED <<alarms_glob, users>>

\* No slot is left: the request that says so may leak a block before the deletion.
AlarmUnslotted ==
  /\ Answered /\ FirstFit(mcb, AlarmSize) # NULL /\ FreeSlots = {}
  /\ \E performed \in BOOLEAN :
       LET m1 == Allocated(mcb, AlarmSize)
           m2 == IF performed THEN Allocated(m1, LeakSize) ELSE m1
       IN /\ mcb' = DeleteAlarm(m2, asking.message, FirstFit(mcb, AlarmSize) + Header)
          /\ MessageReturned(IF performed THEN Leaks(m1) ELSE {})
  /\ asking' = NotAsking
  /\ UNCHANGED <<alarms_glob, users>>

-----------------------------------------------------------------------------
ClientsNext ==
  \/ PcbSetup
  \/ PcbInsertBlocked
  \/ \E size \in UserSizes : MemoryAlloc(size)
  \/ \E start \in users : MemoryFree(start)
  \/ SetAlarm
  \/ AlarmAccepted
  \/ AlarmUnallocated
  \/ AlarmOutOfRange
  \/ AlarmUnslotted

-----------------------------------------------------------------------------
\* What an alarm points to is still allocated (checkAlarm reads its time,
\* user_commands.c:1047): no rejected alarm took it along.
AlarmsAllocated ==
  \A i \in Slots :
    alarms_glob[i] # NULL =>
      \A start \in {alarms_glob[i].message, alarms_glob[i].block} :
        \E b \in OnHeapList(mcb) : b + Header = start /\ ~mcb[b].free

\* setAlarm loses no memory (user_commands.c:960, 989, 1009): the blocks of its
\* sizes, of which nobody else here asks for any, are those of the alarms that
\* are set and of the one being asked for.
NoAlarmLeaked ==
  {h.start : h \in {g \in held : g.size \in {MessageSize, AlarmSize}}} =
    (UNION {{alarms_glob[i].message, alarms_glob[i].block} : i \in Slots \ FreeSlots})
      \union ({asking.message} \ {NULL})
=============================================================================
