------------------------ MODULE ThreadSuspensionProofs ------------------------
(* Theorems about ThreadSuspension, for any finite set of callers.         *)
EXTENDS ThreadSuspension, FiniteSetTheorems, TLAPS

USE ThreadsAssumption, BoundsAssumption

(* Calls that count in suspends and have not suspended the host thread yet. *)
BeforePlaces == {"check", "hostSuspend", "titleSuspend"}
Before == {x \in Threads : call[x] \in BeforePlaces}

Starting == place \in {"new", "announced"}

(* Each suspending call is good for one signal, one nested Suspend, and one *)
(* more in the count or among the tokens; the start is good for one, too.   *)
Budget ==
  /\ suspendCount + sem + Cardinality(Before) + One(Starting) <= suspends + 1
  /\ signals + Cardinality(Signalling) + Cardinality(Before) <= suspends
  /\ nested + Cardinality(Before) <= suspends

(* Before the thread announces itself nobody calls; the tokens to spare come *)
(* from its start; only callers send signals; who is finished is not alive. *)
Shape ==
  /\ place = "new" => /\ state = "uninitialized" /\ suspendCount = 0
                      /\ \A x \in Threads : call[x] \in {"idle", "create"}
  /\ Starting => spare = 0
  /\ call[Target] \notin {"titleSuspend", "kill", "titleKill", "create"}
  /\ Alive => state # "finished"

IInv == TypeOK /\ Budget /\ Shape /\ TokensBalance

-----------------------------------------------------------------------------
(* Counting the calls at a place.                                          *)

LEMMA CountsType ==
  /\ IsFiniteSet(Before) /\ Cardinality(Before) \in Nat /\ Cardinality(Before)' \in Nat
  /\ IsFiniteSet(Signalling) /\ Cardinality(Signalling) \in Nat
  /\ Cardinality(Signalling)' \in Nat
  <1>1. IsFiniteSet(Threads)
    BY FS_AddElement DEF Threads
  <1>2. \A S : S \subseteq Threads => IsFiniteSet(S) /\ Cardinality(S) \in Nat
    BY <1>1, FS_Subset, FS_CardinalityType
  <1>3. /\ Before \subseteq Threads /\ Before' \subseteq Threads
        /\ Signalling \subseteq Threads /\ Signalling' \subseteq Threads
    BY DEF Before, Signalling, Threads
  <1> QED
    BY <1>2, <1>3

(* A call that goes from one place to another moves between the sets.       *)
SendPlaces == {"kill", "titleKill"}

LEMMA BeforeMoves ==
  ASSUME NEW x \in Threads, \A y \in Threads \ {x} : call'[y] = call[y]
  PROVE  /\ call'[x] \in BeforePlaces /\ call[x] \notin BeforePlaces
              => Cardinality(Before)' = Cardinality(Before) + 1
         /\ call'[x] \notin BeforePlaces /\ call[x] \in BeforePlaces
              => Cardinality(Before)' = Cardinality(Before) - 1
         /\ (call'[x] \in BeforePlaces <=> call[x] \in BeforePlaces)
              => Cardinality(Before)' = Cardinality(Before)
  <1>1. CASE call'[x] \in BeforePlaces /\ call[x] \notin BeforePlaces
    <2>1. Before' = Before \cup {x} /\ x \notin Before
      BY <1>1 DEF Before, SendPlaces, Threads
    <2>2. Cardinality(Before \cup {x}) = Cardinality(Before) + 1
      BY <2>1, CountsType, FS_AddElement
    <2> QED
      BY <1>1, <2>1, <2>2
  <1>2. CASE call'[x] \notin BeforePlaces /\ call[x] \in BeforePlaces
    <2>1. Before' = Before \ {x} /\ x \in Before
      BY <1>2 DEF Before, SendPlaces, Threads
    <2>2. Cardinality(Before \ {x}) = Cardinality(Before) - 1
      BY <2>1, CountsType, FS_RemoveElement
    <2> QED
      BY <1>2, <2>1, <2>2
  <1>3. CASE call'[x] \in BeforePlaces <=> call[x] \in BeforePlaces
    <2>1. Before' = Before
      BY <1>3 DEF Before, SendPlaces, Threads
    <2> QED
      BY <1>3, <2>1
  <1> QED
    BY <1>1, <1>2, <1>3

LEMMA SignallingMoves ==
  ASSUME NEW x \in Callers, \A y \in Threads \ {x} : call'[y] = call[y]
  PROVE  /\ call'[x] \in SendPlaces /\ call[x] \notin SendPlaces
              => Cardinality(Signalling)' = Cardinality(Signalling) + 1
         /\ call'[x] \notin SendPlaces /\ call[x] \in SendPlaces
              => Cardinality(Signalling)' = Cardinality(Signalling) - 1
         /\ (call'[x] \in SendPlaces <=> call[x] \in SendPlaces)
              => Cardinality(Signalling)' = Cardinality(Signalling)
  <1>1. CASE call'[x] \in SendPlaces /\ call[x] \notin SendPlaces
    <2>1. Signalling' = Signalling \cup {x} /\ x \notin Signalling
      BY <1>1 DEF Signalling, SendPlaces, Threads
    <2>2. Cardinality(Signalling \cup {x}) = Cardinality(Signalling) + 1
      BY <2>1, CountsType, FS_AddElement
    <2> QED
      BY <1>1, <2>1, <2>2
  <1>2. CASE call'[x] \notin SendPlaces /\ call[x] \in SendPlaces
    <2>1. Signalling' = Signalling \ {x} /\ x \in Signalling
      BY <1>2 DEF Signalling, SendPlaces, Threads
    <2>2. Cardinality(Signalling \ {x}) = Cardinality(Signalling) - 1
      BY <2>1, CountsType, FS_RemoveElement
    <2> QED
      BY <1>2, <2>1, <2>2
  <1>3. CASE call'[x] \in SendPlaces <=> call[x] \in SendPlaces
    <2>1. Signalling' = Signalling
      BY <1>3 DEF Signalling, SendPlaces, Threads
    <2> QED
      BY <1>3, <2>1
  <1> QED
    BY <1>1, <1>2, <1>3

(* A call that moves between other places does not.                         *)
LEMMA SignallingKept ==
  ASSUME \A y \in Callers : call'[y] = call[y] \/ {call[y], call'[y]} \cap SendPlaces = {}
  PROVE  Cardinality(Signalling)' = Cardinality(Signalling)
  <1>1. Signalling' = Signalling
    BY DEF Signalling, SendPlaces
  <1> QED
    BY <1>1

Counted == BeforePlaces \cup SendPlaces

LEMMA CallsElsewhere ==
  ASSUME \A y \in Threads : call'[y] = call[y] \/ {call[y], call'[y]} \cap Counted = {}
  PROVE  /\ Cardinality(Before)' = Cardinality(Before)
         /\ Cardinality(Signalling)' = Cardinality(Signalling)
  <1>1. Before' = Before
    BY DEF Before, Counted
  <1>2. Cardinality(Signalling)' = Cardinality(Signalling)
    BY SignallingKept DEF Counted, Threads
  <1> QED
    BY <1>1, <1>2

LEMMA CallsKept ==
  ASSUME UNCHANGED call
  PROVE  /\ Cardinality(Before)' = Cardinality(Before)
         /\ Cardinality(Signalling)' = Cardinality(Signalling)
  BY DEF Before, Signalling

-----------------------------------------------------------------------------
(* One lemma per action.                                                 *)

LEMMA AnnounceKeeps ==
  ASSUME IInv, Announce
  PROVE  IInv'
  <1> USE DEF IInv
  <1>1. /\ Cardinality(Before)' = Cardinality(Before)
        /\ Cardinality(Signalling)' = Cardinality(Signalling)
    BY CallsKept DEF Announce, calls
  <1>2. Budget'
    BY <1>1, CountsType DEF TypeOK, Budget, Starting, One, Announce, history
  <1>3. Shape'
    BY <1>1 DEF TypeOK, Shape, Starting, Alive, Threads, Announce, calls, history
  <1>4. TokensBalance'
    BY <1>1, CountsType
       DEF TypeOK, Shape, TokensBalance, Waits, Owed, Alive, Starting, One, Threads,
           Announce, calls, history
  <1>5. TypeOK'
    BY <1>1, <1>2, CountsType
       DEF TypeOK, Budget, Starting, One, Threads, CallPlaces, Places, Announce, calls,
           guest, history
  <1> QED
    BY <1>2, <1>3, <1>4, <1>5

LEMMA StoreSuspendCountKeeps ==
  ASSUME IInv, StoreSuspendCount
  PROVE  IInv'
  <1> USE DEF IInv
  <1>1. /\ Cardinality(Before)' = Cardinality(Before)
        /\ Cardinality(Signalling)' = Cardinality(Signalling)
    BY CallsKept DEF StoreSuspendCount, calls
  <1>2. Budget'
    BY <1>1, CountsType DEF TypeOK, Budget, Starting, One, StoreSuspendCount
  <1>3. Shape'
    BY <1>1 DEF TypeOK, Shape, Starting, Alive, Threads, StoreSuspendCount, calls
  <1>4. TokensBalance'
    BY <1>1, CountsType
       DEF TypeOK, Shape, TokensBalance, Waits, Owed, Alive, Starting, One, Threads,
           StoreSuspendCount, calls
  <1>5. TypeOK'
    BY <1>1, <1>2, CountsType
       DEF TypeOK, Budget, Starting, One, Threads, CallPlaces, Places, StoreSuspendCount,
           guest, calls
  <1> QED
    BY <1>2, <1>3, <1>4, <1>5

LEMMA StartKeeps ==
  ASSUME IInv, Start
  PROVE  IInv'
  <1> USE DEF IInv
  <1>1. /\ Cardinality(Before)' = Cardinality(Before)
        /\ Cardinality(Signalling)' = Cardinality(Signalling)
    BY CallsKept DEF Start, calls
  <1>2. Budget'
    BY <1>1, CountsType DEF TypeOK, Budget, Starting, One, Start, host, history
  <1>3. Shape'
    BY <1>1 DEF TypeOK, Shape, Starting, Alive, Threads, Start, host, calls, history
  <1>4. TokensBalance'
    BY <1>1, CountsType
       DEF TypeOK, TokensBalance, Waits, Owed, Alive, Starting, One, Threads, Start, host,
           calls, history
  <1>5. TypeOK'
    BY <1>1, <1>2, CountsType
       DEF TypeOK, Budget, Starting, One, Threads, CallPlaces, Places, Start, host, guest,
           calls, history
  <1> QED
    BY <1>2, <1>3, <1>4, <1>5

LEMMA HandleSignalKeeps ==
  ASSUME IInv, HandleSignal
  PROVE  IInv'
  <1> USE DEF IInv
  <1>1. /\ Cardinality(Before)' = Cardinality(Before)
        /\ Cardinality(Signalling)' = Cardinality(Signalling)
    BY CallsKept DEF HandleSignal, calls
  <1>2. Budget'
    BY <1>1, CountsType DEF TypeOK, Budget, Starting, One, HandleSignal, history
  <1>3. Shape'
    BY <1>1 DEF TypeOK, Shape, Starting, Alive, Threads, HandleSignal, calls, history
  <1>4. TokensBalance'
    BY <1>1, CountsType
       DEF TypeOK, TokensBalance, Waits, Owed, Alive, Starting, One, Threads,
           HandleSignal, calls, history
  <1>5. TypeOK'
    BY <1>1, <1>2, CountsType
       DEF TypeOK, Budget, Starting, One, Threads, CallPlaces, Places, HandleSignal,
           guest, calls, history
  <1> QED
    BY <1>2, <1>3, <1>4, <1>5

LEMMA HandlerReturnsKeeps ==
  ASSUME IInv, HandlerReturns
  PROVE  IInv'
  <1> USE DEF IInv
  <1>1. /\ Cardinality(Before)' = Cardinality(Before)
        /\ Cardinality(Signalling)' = Cardinality(Signalling)
    BY CallsKept DEF HandlerReturns, calls
  <1>2. Budget'
    BY <1>1, CountsType DEF TypeOK, Budget, Starting, One, HandlerReturns, history
  <1>3. Shape'
    BY <1>1 DEF TypeOK, Shape, Starting, Alive, Threads, HandlerReturns, calls, history
  <1>4. TokensBalance'
    BY <1>1, CountsType
       DEF TypeOK, TokensBalance, Waits, Owed, Alive, Starting, One, Threads,
           HandlerReturns, calls, history
  <1>5. TypeOK'
    <2>1. /\ suspendCount' \in 0..suspends'+1 /\ sem' \in 0..suspends'+1
          /\ signals' \in 0..suspends' /\ nested' \in 0..suspends'
      BY <1>1, <1>2, CountsType
         DEF TypeOK, Budget, Starting, One, HandlerReturns, guest, calls, history
    <2> QED
      BY <2>1 DEF TypeOK, Threads, CallPlaces, Places, HandlerReturns, guest, calls, history
  <1> QED
    BY <1>2, <1>3, <1>4, <1>5

LEMMA BeginSuspendKeeps ==
  ASSUME IInv, NEW x \in Threads, BeginSuspend(x)
  PROVE  IInv'
  <1> USE DEF IInv
  <1>0. /\ call[x] = "idle" /\ call'[x] = "check"
        /\ \A y \in Threads \ {x} : call'[y] = call[y]
    BY DEF TypeOK, BeginSuspend, Goes
  <1>1. /\ Cardinality(Before)' = Cardinality(Before) + 1
        /\ Cardinality(Signalling)' = Cardinality(Signalling)
    <2>1. Cardinality(Before)' = Cardinality(Before) + 1
      BY <1>0, BeforeMoves, CountsType DEF One, BeforePlaces
    <2>2. Cardinality(Signalling)' = Cardinality(Signalling)
      BY <1>0, SignallingKept DEF SendPlaces, Threads
    <2> QED
      BY <2>1, <2>2
  <1>2. Budget'
    BY <1>1, CountsType DEF TypeOK, Budget, Starting, One, BeginSuspend, host, thread
  <1>3. Shape'
    BY <1>1
       DEF TypeOK, Shape, Starting, Alive, Threads, BeginSuspend, CanStep, Usable,
           WaitStarted, Goes, host, thread
  <1>4. TokensBalance'
    BY <1>1, CountsType
       DEF TypeOK, TokensBalance, Waits, Owed, Alive, Starting, One, Threads,
           BeginSuspend, Goes, host, thread
  <1>5. TypeOK'
    BY <1>1, <1>2, CountsType
       DEF TypeOK, Budget, Starting, One, Threads, CallPlaces, Places, BeginSuspend, Goes,
           host, thread
  <1> QED
    BY <1>2, <1>3, <1>4, <1>5

LEMMA CheckWrappedKeeps ==
  ASSUME IInv, NEW x \in Threads, CheckWrapped(x)
  PROVE  IInv'
  <1> USE DEF IInv
  <1>0. /\ call[x] = "check" /\ call'[x] = (IF guestCount = 0 THEN "idle" ELSE "hostSuspend")
        /\ \A y \in Threads \ {x} : call'[y] = call[y]
    BY DEF TypeOK, CheckWrapped, Goes
  <1>1. /\ Cardinality(Before)' = Cardinality(Before) - One(guestCount = 0)
        /\ Cardinality(Signalling)' = Cardinality(Signalling)
    <2>1. Cardinality(Before)' = Cardinality(Before) - One(guestCount = 0)
      BY <1>0, BeforeMoves, CountsType DEF One, BeforePlaces
    <2>2. Cardinality(Signalling)' = Cardinality(Signalling)
      BY <1>0, SignallingKept DEF SendPlaces, Threads
    <2> QED
      BY <2>1, <2>2
  <1>2. Budget'
    BY <1>1, CountsType
       DEF TypeOK, Budget, Starting, One, CheckWrapped, host, thread, history
  <1>3. Shape'
    BY <1>1
       DEF TypeOK, Shape, Starting, Alive, Threads, CheckWrapped, CanStep, Goes, host,
           thread, history
  <1>4. TokensBalance'
    BY <1>1, CountsType
       DEF TypeOK, TokensBalance, Waits, Owed, Alive, Starting, One, Threads,
           CheckWrapped, Goes, host, thread, history
  <1>5. TypeOK'
    BY <1>1, <1>2, CountsType
       DEF TypeOK, Budget, Starting, One, Threads, CallPlaces, Places, CheckWrapped, Goes,
           host, guest, thread, history
  <1> QED
    BY <1>2, <1>3, <1>4, <1>5

LEMMA HostSuspendKeeps ==
  ASSUME IInv, NEW x \in Threads, HostSuspend(x)
  PROVE  IInv'
  <1> USE DEF IInv
  <1>0. /\ \/ call[x] = "hostSuspend" /\ call'[x] = (IF x = Target THEN "semWait" ELSE "kill") 
           \/ call[x] = "titleSuspend" /\ call'[x] = "titleKill"
        /\ \A y \in Threads \ {x} : call'[y] = call[y]
    BY DEF TypeOK, HostSuspend, Goes
  <1>1. /\ Cardinality(Before)' = Cardinality(Before) - 1
        /\ Cardinality(Signalling)' = Cardinality(Signalling) + One(x # Target)
    <2>1. Cardinality(Before)' = Cardinality(Before) - 1
      BY <1>0, BeforeMoves, CountsType DEF One, BeforePlaces
    <2>2. CASE x = Target
      <3>1. Cardinality(Signalling)' = Cardinality(Signalling)
        BY <1>0, <2>2, SignallingKept DEF Threads
      <3> QED
        BY <2>1, <2>2, <3>1, CountsType DEF One
    <2>3. CASE x \in Callers
      <3>1. Cardinality(Signalling)' = Cardinality(Signalling) + 1
        BY <1>0, <2>3, SignallingMoves DEF SendPlaces
      <3> QED
        BY <2>1, <2>3, <3>1 DEF One
    <2> QED
      BY <2>2, <2>3 DEF Threads
  <1>2. Budget'
    BY <1>1, CountsType DEF TypeOK, Budget, Starting, One, HostSuspend, thread
  <1>3. Shape'
    BY <1>1
       DEF TypeOK, Shape, Starting, Alive, Threads, HostSuspend, CanStep, WaitStarted,
           Goes, thread
  <1>4. TokensBalance'
    <2>1. Owed' /\ nested' = nested + One(Owed)
      BY DEF TypeOK, Owed, One, HostSuspend
    <2>2. Waits' = Waits + 1
      <3>1. CASE x = Target
        <4>1. call[Target] # "semWait" /\ call'[Target] = "semWait"
          BY <1>0, <3>1 DEF Shape
        <4> QED
          BY <1>1, <3>1, <4>1, CountsType DEF TypeOK, Waits, One, HostSuspend, thread
      <3>2. CASE x # Target
        <4>1. call'[Target] = call[Target]
          BY <1>0, <3>2 DEF Threads
        <4> QED
          BY <1>1, <3>2, <4>1, CountsType DEF TypeOK, Waits, One, HostSuspend, thread
      <3> QED
        BY <3>1, <3>2
    <2>3. Waits \in Int
      BY CountsType DEF TypeOK, Waits, One
    <2> QED
      BY <2>1, <2>2, <2>3 DEF TypeOK, TokensBalance, Alive, One, HostSuspend, thread
  <1>5. TypeOK'
    <2>1. /\ suspendCount' \in 0..suspends'+1 /\ sem' \in 0..suspends'+1
          /\ signals' \in 0..suspends' /\ nested' \in 0..suspends'
      BY <1>1, <1>2, CountsType
         DEF TypeOK, Budget, Starting, One, HostSuspend, Goes, guest, thread
    <2> QED
      BY <2>1 DEF TypeOK, Threads, CallPlaces, Places, HostSuspend, Goes, guest, thread
  <1> QED
    BY <1>2, <1>3, <1>4, <1>5

LEMMA SendSignalKeeps ==
  ASSUME IInv, NEW x \in Threads, SendSignal(x)
  PROVE  IInv'
  <1> USE DEF IInv
  <1>0. /\ \/ call[x] = "kill" /\ call'[x] = "idle" 
           \/ call[x] = "titleKill" /\ call'[x] = "terminate"
        /\ \A y \in Threads \ {x} : call'[y] = call[y]
    BY DEF TypeOK, SendSignal, Goes
  <1>1. /\ Cardinality(Before)' = Cardinality(Before)
        /\ Cardinality(Signalling)' = Cardinality(Signalling) - 1
    <2>1. Cardinality(Before)' = Cardinality(Before)
      BY <1>0, BeforeMoves, CountsType DEF One, BeforePlaces
    <2>2. x \in Callers
      BY <1>0 DEF Shape, Threads
    <2>3. Cardinality(Signalling)' = Cardinality(Signalling) - 1
      BY <1>0, <2>2, SignallingMoves DEF SendPlaces
    <2> QED
      BY <2>1, <2>3
  <1>2. Budget'
    BY <1>1, CountsType DEF TypeOK, Budget, Starting, One, SendSignal, thread, history
  <1>3. Shape'
    BY <1>1 DEF TypeOK, Shape, Starting, Alive, Threads, SendSignal, Goes, thread, history
  <1>4. TokensBalance'
    BY <1>1, CountsType
       DEF TypeOK, TokensBalance, Waits, Owed, Alive, Starting, One, Threads, SendSignal,
           Goes, thread, history
  <1>5. TypeOK'
    <2>1. /\ suspendCount' \in 0..suspends'+1 /\ sem' \in 0..suspends'+1
          /\ signals' \in 0..suspends' /\ nested' \in 0..suspends'
      BY <1>1, <1>2, CountsType
         DEF TypeOK, Budget, Starting, One, SendSignal, Goes, guest, thread, history
    <2> QED
      BY <2>1
         DEF TypeOK, Threads, CallPlaces, Places, SendSignal, Goes, guest, thread, history
  <1> QED
    BY <1>2, <1>3, <1>4, <1>5

LEMMA WaitSuspendedKeeps ==
  ASSUME IInv, WaitSuspended
  PROVE  IInv'
  <1> USE DEF IInv
  <1>1. /\ Cardinality(Before)' = Cardinality(Before)
        /\ Cardinality(Signalling)' = Cardinality(Signalling)
    BY CallsElsewhere
       DEF TypeOK, Threads, Counted, BeforePlaces, SendPlaces, WaitSuspended, Goes
  <1>2. Budget'
    BY <1>1, CountsType DEF TypeOK, Budget, Starting, One, WaitSuspended, thread, history
  <1>3. Shape'
    BY <1>1
       DEF TypeOK, Shape, Starting, Alive, Threads, WaitSuspended, CanStep, Goes, thread,
           history
  <1>4. TokensBalance'
    BY <1>1, CountsType
       DEF TypeOK, TokensBalance, Waits, Owed, Alive, Starting, One, Threads,
           WaitSuspended, Goes, thread, history
  <1>5. TypeOK'
    BY <1>1, <1>2, CountsType
       DEF TypeOK, Budget, Starting, One, Threads, CallPlaces, Places, WaitSuspended,
           Goes, guest, thread, history
  <1> QED
    BY <1>2, <1>3, <1>4, <1>5

LEMMA BeginResumeKeeps ==
  ASSUME IInv, NEW x \in Threads, BeginResume(x)
  PROVE  IInv'
  <1> USE DEF IInv
  <1>1. /\ Cardinality(Before)' = Cardinality(Before)
        /\ Cardinality(Signalling)' = Cardinality(Signalling)
    BY CallsElsewhere
       DEF TypeOK, Threads, Counted, BeforePlaces, SendPlaces, BeginResume, Goes
  <1>2. Budget'
    BY <1>1, CountsType DEF TypeOK, Budget, Starting, One, BeginResume, host, thread
  <1>3. Shape'
    BY <1>1
       DEF TypeOK, Shape, Starting, Alive, Threads, BeginResume, Usable, WaitStarted,
           Goes, host, thread
  <1>4. TokensBalance'
    BY <1>1, CountsType
       DEF TypeOK, TokensBalance, Waits, Owed, Alive, Starting, One, Threads, BeginResume,
           Goes, host, thread
  <1>5. TypeOK'
    BY <1>1, <1>2, CountsType
       DEF TypeOK, Budget, Starting, One, Threads, CallPlaces, Places, BeginResume, Goes,
           host, guest, thread
  <1> QED
    BY <1>2, <1>3, <1>4, <1>5

LEMMA BeginSelfSuspendKeeps ==
  ASSUME IInv, BeginSelfSuspend
  PROVE  IInv'
  <1> USE DEF IInv
  <1>1. /\ Cardinality(Before)' = Cardinality(Before)
        /\ Cardinality(Signalling)' = Cardinality(Signalling)
    BY CallsElsewhere
       DEF TypeOK, Threads, Counted, BeforePlaces, SendPlaces, BeginSelfSuspend, Goes
  <1>2. Budget'
    BY <1>1, CountsType DEF TypeOK, Budget, Starting, One, BeginSelfSuspend, host, thread
  <1>3. Shape'
    BY <1>1
       DEF TypeOK, Shape, Starting, Alive, Threads, BeginSelfSuspend, CanStep, Goes, host,
           thread
  <1>4. TokensBalance'
    BY <1>1, CountsType
       DEF TypeOK, TokensBalance, Waits, Owed, Alive, Starting, One, Threads,
           BeginSelfSuspend, Goes, host, thread
  <1>5. TypeOK'
    BY <1>1, <1>2, CountsType
       DEF TypeOK, Budget, Starting, One, Threads, CallPlaces, Places, BeginSelfSuspend,
           Goes, host, guest, thread
  <1> QED
    BY <1>2, <1>3, <1>4, <1>5

LEMMA LoadCountKeeps ==
  ASSUME IInv, NEW x \in Threads, LoadCount(x)
  PROVE  IInv'
  <1> USE DEF IInv
  <1>1. /\ Cardinality(Before)' = Cardinality(Before)
        /\ Cardinality(Signalling)' = Cardinality(Signalling)
    BY CallsElsewhere
       DEF TypeOK, Threads, Counted, BeforePlaces, SendPlaces, LoadCount, Goes
  <1>2. Budget'
    BY <1>1, CountsType DEF TypeOK, Budget, Starting, One, LoadCount, host, thread, history
  <1>3. Shape'
    BY <1>1
       DEF TypeOK, Shape, Starting, Alive, Threads, LoadCount, CanStep, Goes, host,
           thread, history
  <1>4. TokensBalance'
    BY <1>1, CountsType
       DEF TypeOK, TokensBalance, Waits, Owed, Alive, Starting, One, Threads, LoadCount,
           Goes, host, thread, history
  <1>5. TypeOK'
    BY <1>1, <1>2, CountsType
       DEF TypeOK, Budget, Starting, One, Threads, CallPlaces, Places, LoadCount, Goes,
           host, thread, history
  <1> QED
    BY <1>2, <1>3, <1>4, <1>5

LEMMA LowerCountKeeps ==
  ASSUME IInv, NEW x \in Threads, LowerCount(x)
  PROVE  IInv'
  <1> USE DEF IInv
  <1>1. /\ Cardinality(Before)' = Cardinality(Before)
        /\ Cardinality(Signalling)' = Cardinality(Signalling)
    BY CallsElsewhere DEF TypeOK, Threads, Counted, BeforePlaces, SendPlaces, LowerCount
  <1>2. Budget'
    BY <1>1, CountsType
       DEF TypeOK, Budget, Starting, One, LowerCount, Lowered, host, thread, history
  <1>3. Shape'
    BY <1>1
       DEF TypeOK, Shape, Starting, Alive, Threads, LowerCount, Lowered, host, thread,
           history
  <1>4. TokensBalance'
    BY <1>1, CountsType
       DEF TypeOK, TokensBalance, Waits, Owed, Alive, Starting, One, Threads, LowerCount,
           Lowered, host, thread, history
  <1>5. TypeOK'
    BY <1>1, <1>2, CountsType
       DEF TypeOK, Budget, Starting, One, Threads, CallPlaces, Places, LowerCount, Unlock,
           Lowered, host, thread, history
  <1> QED
    BY <1>2, <1>3, <1>4, <1>5

LEMMA RaiseCountKeeps ==
  ASSUME IInv, RaiseCount
  PROVE  IInv'
  <1> USE DEF IInv
  <1>1. /\ Cardinality(Before)' = Cardinality(Before)
        /\ Cardinality(Signalling)' = Cardinality(Signalling)
    BY CallsElsewhere
       DEF TypeOK, Threads, Counted, BeforePlaces, SendPlaces, RaiseCount, AfterTest, Goes
  <1>2. Budget'
    BY <1>1, CountsType DEF TypeOK, Budget, Starting, One, RaiseCount, host, thread, history
  <1>3. Shape'
    BY <1>1
       DEF TypeOK, Shape, Starting, Alive, Threads, RaiseCount, CanStep, AfterTest, Goes,
           host, thread, history
  <1>4. TokensBalance'
    BY <1>1, CountsType
       DEF TypeOK, TokensBalance, Waits, Owed, Alive, Starting, One, Threads, RaiseCount,
           AfterTest, Goes, host, thread, history
  <1>5. TypeOK'
    BY <1>1, <1>2, CountsType
       DEF TypeOK, Budget, Starting, One, Threads, CallPlaces, Places, RaiseCount, Unlock,
           AfterTest, Goes, host, thread, history
  <1> QED
    BY <1>2, <1>3, <1>4, <1>5

LEMMA WakeUpKeeps ==
  ASSUME IInv, WakeUp
  PROVE  IInv'
  <1> USE DEF IInv
  <1>1. /\ Cardinality(Before)' = Cardinality(Before)
        /\ Cardinality(Signalling)' = Cardinality(Signalling)
    BY CallsElsewhere
       DEF TypeOK, Threads, Counted, BeforePlaces, SendPlaces, WakeUp, AfterTest, Goes
  <1>2. Budget'
    BY <1>1, CountsType DEF TypeOK, Budget, Starting, One, WakeUp, host, thread, history
  <1>3. Shape'
    BY <1>1
       DEF TypeOK, Shape, Starting, Alive, Threads, WakeUp, CanStep, AfterTest, Goes,
           host, thread, history
  <1>4. TokensBalance'
    BY <1>1, CountsType
       DEF TypeOK, TokensBalance, Waits, Owed, Alive, Starting, One, Threads, WakeUp,
           AfterTest, Goes, host, thread, history
  <1>5. TypeOK'
    BY <1>1, <1>2, CountsType
       DEF TypeOK, Budget, Starting, One, Threads, CallPlaces, Places, WakeUp, AfterTest,
           Goes, host, guest, thread, history
  <1> QED
    BY <1>2, <1>3, <1>4, <1>5

LEMMA HostResumeKeeps ==
  ASSUME IInv, NEW x \in Threads, HostResume(x)
  PROVE  IInv'
  <1> USE DEF IInv
  <1>1. /\ Cardinality(Before)' = Cardinality(Before)
        /\ Cardinality(Signalling)' = Cardinality(Signalling)
    BY CallsElsewhere
       DEF TypeOK, Threads, Counted, BeforePlaces, SendPlaces, HostResume, Goes
  <1>2. Budget'
    BY <1>1, CountsType
       DEF TypeOK, Budget, Starting, One, HostResume, Posts, Lowered, thread
  <1>3. Shape'
    BY <1>1
       DEF TypeOK, Shape, Starting, Alive, Threads, HostResume, WaitStarted, Posts,
           Lowered, Goes, thread
  <1>4. TokensBalance'
    <2>1. call'[Target] = "semWait" <=> call[Target] = "semWait"
      BY DEF TypeOK, HostResume, Goes, Threads
    <2>2. Waits' = Waits /\ Waits \in Int
      BY <1>1, <2>1, CountsType DEF TypeOK, Waits, One, HostResume, thread
    <2>3. /\ sem' = sem + One(Posts)
          /\ One(Owed)' = One(Owed) - One(Posts)
      BY DEF TypeOK, Owed, One, Posts, Lowered, HostResume
    <2> QED
      BY <2>2, <2>3 DEF TypeOK, TokensBalance, Alive, One, HostResume, thread
  <1>5. TypeOK'
    BY <1>1, <1>2, CountsType
       DEF TypeOK, Budget, Starting, One, Threads, CallPlaces, Places, HostResume, Posts,
           Lowered, Goes, guest, thread
  <1> QED
    BY <1>2, <1>3, <1>4, <1>5

LEMMA TerminateTitleKeeps ==
  ASSUME IInv, NEW x \in Threads, TerminateTitle(x)
  PROVE  IInv'
  <1> USE DEF IInv
  <1>0. /\ call[x] = "idle" /\ call'[x] = "titleSuspend"
        /\ \A y \in Threads \ {x} : call'[y] = call[y]
    BY DEF TypeOK, TerminateTitle, Goes
  <1>1. /\ Cardinality(Before)' = Cardinality(Before) + 1
        /\ Cardinality(Signalling)' = Cardinality(Signalling)
    <2>1. Cardinality(Before)' = Cardinality(Before) + 1
      BY <1>0, BeforeMoves, CountsType DEF One, BeforePlaces
    <2>2. Cardinality(Signalling)' = Cardinality(Signalling)
      BY <1>0, SignallingKept DEF SendPlaces, Threads
    <2> QED
      BY <2>1, <2>2
  <1>2. Budget'
    BY <1>1, CountsType DEF TypeOK, Budget, Starting, One, TerminateTitle, host, thread
  <1>3. Shape'
    BY <1>1
       DEF TypeOK, Shape, Starting, Alive, Threads, TerminateTitle, Usable, WaitStarted,
           Goes, host, thread
  <1>4. TokensBalance'
    BY <1>1, CountsType
       DEF TypeOK, TokensBalance, Waits, Owed, Alive, Starting, One, Threads,
           TerminateTitle, Goes, host, thread
  <1>5. TypeOK'
    BY <1>1, <1>2, CountsType
       DEF TypeOK, Budget, Starting, One, Threads, CallPlaces, Places, TerminateTitle,
           Goes, host, guest, thread
  <1> QED
    BY <1>2, <1>3, <1>4, <1>5

LEMMA TerminateKeeps ==
  ASSUME IInv, NEW x \in Threads, Terminate(x)
  PROVE  IInv'
  <1> USE DEF IInv
  <1>1. /\ Cardinality(Before)' = Cardinality(Before)
        /\ Cardinality(Signalling)' = Cardinality(Signalling)
    BY CallsElsewhere
       DEF TypeOK, Threads, Counted, BeforePlaces, SendPlaces, Terminate, Goes
  <1>2. Budget'
    BY <1>1, CountsType DEF TypeOK, Budget, Starting, One, Terminate, history
  <1>3. Shape'
    BY <1>1 DEF TypeOK, Shape, Starting, Alive, Threads, Terminate, Goes, history
  <1>4. TokensBalance'
    BY <1>1, CountsType
       DEF TypeOK, TokensBalance, Waits, Owed, Alive, Starting, One, Threads, Terminate,
           Goes, history
  <1>5. TypeOK'
    BY <1>1, <1>2, CountsType
       DEF TypeOK, Budget, Starting, One, Threads, CallPlaces, Places, Terminate, Goes,
           guest, history
  <1> QED
    BY <1>2, <1>3, <1>4, <1>5

LEMMA CancelledKeeps ==
  ASSUME IInv, Cancelled
  PROVE  IInv'
  <1> USE DEF IInv
  <1>1. /\ Cardinality(Before)' = Cardinality(Before)
        /\ Cardinality(Signalling)' = Cardinality(Signalling)
    BY CallsKept DEF Cancelled, calls
  <1>2. Budget'
    BY <1>1, CountsType DEF TypeOK, Budget, Starting, One, Cancelled, host, history
  <1>3. Shape'
    BY <1>1 DEF TypeOK, Shape, Starting, Alive, Threads, Cancelled, host, calls, history
  <1>4. TokensBalance'
    BY <1>1, CountsType
       DEF TypeOK, TokensBalance, Waits, Owed, Alive, Starting, One, Threads, Cancelled,
           host, calls, history
  <1>5. TypeOK'
    BY <1>1, <1>2, CountsType
       DEF TypeOK, Budget, Starting, One, Threads, CallPlaces, Places, Cancelled, host,
           guest, calls, history
  <1> QED
    BY <1>2, <1>3, <1>4, <1>5

LEMMA ExitKeeps ==
  ASSUME IInv, Exit
  PROVE  IInv'
  <1> USE DEF IInv
  <1>1. /\ Cardinality(Before)' = Cardinality(Before)
        /\ Cardinality(Signalling)' = Cardinality(Signalling)
    BY CallsKept DEF Exit, calls
  <1>2. Budget'
    BY <1>1, CountsType DEF TypeOK, Budget, Starting, One, Exit, history
  <1>3. Shape'
    BY <1>1 DEF TypeOK, Shape, Starting, Alive, Threads, Exit, CanStep, calls, history
  <1>4. TokensBalance'
    BY <1>1, CountsType
       DEF TypeOK, TokensBalance, Waits, Owed, Alive, Starting, One, Threads, Exit, calls,
           history
  <1>5. TypeOK'
    BY <1>1, <1>2, CountsType
       DEF TypeOK, Budget, Starting, One, Threads, CallPlaces, Places, Exit, guest, calls,
           history
  <1> QED
    BY <1>2, <1>3, <1>4, <1>5

-----------------------------------------------------------------------------
LEMMA InitHolds == Init => IInv
  <1> SUFFICES ASSUME Init
               PROVE  IInv
    OBVIOUS
  <1>1. Before = {} /\ Signalling = {}
    BY DEF Init, Before, BeforePlaces, Signalling, Threads
  <1>2. Cardinality(Before) = 0 /\ Cardinality(Signalling) = 0
    BY <1>1, FS_EmptySet
  <1>3. TypeOK
    <2>1. call \in [Threads -> CallPlaces] /\ previous \in [Threads -> 0..CountModulus-1]
      BY DEF Init, CallPlaces
    <2>2. /\ guestCount \in 0..CountModulus-1 /\ suspends \in 0..MaxSuspends
          /\ 0 \in 0..suspends /\ 0 \in 0..suspends+1
      BY DEF Init
    <2>3. /\ suspendCount = 0 /\ sem = 0 /\ signals = 0 /\ nested = 0 /\ spare = 0
          /\ state = "uninitialized" /\ place = "new" /\ suspendMutex = Nobody
          /\ {handler, cancelled, gapResume, orderly} \subseteq BOOLEAN
      BY DEF Init
    <2> QED
      BY <2>1, <2>2, <2>3 DEF TypeOK, Places
  <1>4. Budget
    BY <1>2 DEF Init, Budget, Starting, One
  <1>5. Shape
    BY DEF Init, Shape, Threads, Alive
  <1>6. TokensBalance
    BY <1>2 DEF Init, TokensBalance, Waits, Owed, One, Threads
  <1> QED
    BY <1>3, <1>4, <1>5, <1>6 DEF IInv

(* Nothing changes when no step is taken. *)
LEMMA Stutters == IInv /\ UNCHANGED vars => IInv'
  BY CallsKept
     DEF IInv, TypeOK, Budget, Starting, Shape, TokensBalance, Waits, Owed, Alive, One,
       Signalling, Before, vars, host, guest, thread, calls, history

LEMMA StepKeeps == IInv /\ [Next]_vars => IInv'
  <1> SUFFICES ASSUME IInv, [Next]_vars
               PROVE  IInv'
    OBVIOUS
  <1>1. CASE ThreadStep
    BY <1>1, AnnounceKeeps, StoreSuspendCountKeeps, StartKeeps, HandleSignalKeeps,
       HandlerReturnsKeeps, CancelledKeeps DEF ThreadStep
  <1>2. CASE SelfStep
    BY <1>2, BeginSelfSuspendKeeps, RaiseCountKeeps, WakeUpKeeps, WaitSuspendedKeeps, ExitKeeps
       DEF SelfStep
  <1>3. ASSUME NEW x \in Threads, CallStep(x) PROVE IInv'
    BY <1>3, CheckWrappedKeeps, HostSuspendKeeps, SendSignalKeeps, LowerCountKeeps,
       HostResumeKeeps, TerminateKeeps DEF CallStep
  <1>4. ASSUME NEW x \in Threads, LoadCount(x) PROVE IInv'
    BY <1>4, LoadCountKeeps
  <1>5. ASSUME NEW x \in Threads, CallBegins(x) PROVE IInv'
    BY <1>5, BeginSuspendKeeps, BeginResumeKeeps, TerminateTitleKeeps DEF CallBegins
  <1>6. CASE UNCHANGED vars
    BY <1>6, Stutters
  <1> QED
    BY <1>1, <1>2, <1>3, <1>4, <1>5, <1>6 DEF Next

THEOREM Invariance == Spec => []IInv
  <1> QED
    BY InitHolds, StepKeeps, PTL DEF Spec

(* The types are right, and the suspend count, the tokens and the queued    *)
(* signals stay within the number of calls that suspended the thread        *)
(* (PosixCondition<Thread> never counts, posts or signals on its own).      *)
THEOREM TypeCorrect == Spec => []TypeOK
  <1>1. IInv => TypeOK
    BY DEF IInv
  <1> QED
    BY <1>1, Invariance, PTL

(* Every wait of the thread on suspend_sem_, in the signal handler or in    *)
(* WaitSuspended, has its token there or still to be posted by the resume   *)
(* that ends the suspension, but for one wait for each nested Suspend and   *)
(* one token that the start of the thread leaves behind.                    *)
THEOREM Balanced == Spec => []TokensBalance
  <1>1. IInv => TokensBalance
    BY DEF IInv
  <1> QED
    BY <1>1, Invariance, PTL

-----------------------------------------------------------------------------
(* What the tokens decide: who stands still, and who goes on.              *)

(* A thread of the guest's that is alive has its state by its count.       *)
StateByCount ==
  Alive => state # "finished" /\ (place = "guest" /\ suspendCount > 0 => state = "suspended")

AwaitsToken == handler \/ call[Target] = "semWait"

(* A thread runs on though it is suspended only on the token that its      *)
(* start has left, and has used it up by then; and it stays where it waits *)
(* for a token though it is resumed only if it was suspended more than     *)
(* once before that.                                                       *)
StandsStillOrGoesOn ==
  Alive =>
    /\ Quiet /\ signals = 0 /\ suspendCount > 0 /\ ~Stopped =>
         spare = 1 /\ nested = 0 /\ sem = 0
    /\ AwaitsToken /\ ~Owed /\ sem = 0 => nested > spare

LEMMA StateByCountStep ==
  ASSUME TypeOK, StateByCount, [Next]_vars
  PROVE  StateByCount'
  <1> USE DEF StateByCount, Alive
  <1>1. CASE UNCHANGED <<state, suspendCount, place, cancelled>>
    BY <1>1
  <1>2. CASE Announce \/ StoreSuspendCount \/ Start \/ Cancelled \/ Exit
    BY <1>2 DEF Announce, StoreSuspendCount, Start, Cancelled, Exit, host
  <1>3. ASSUME NEW x \in Threads, HostSuspend(x) \/ HostResume(x) \/ Terminate(x)
        PROVE  StateByCount'
    <2>1. CASE HostSuspend(x)
      BY <2>1 DEF HostSuspend, thread
    <2>2. CASE HostResume(x)
      <3>1. suspendCount \in Nat
        BY DEF TypeOK
      <3>2. suspendCount' = Lowered(suspendCount) /\ UNCHANGED <<place, cancelled>>
            /\ state' = IF Posts THEN "running" ELSE state
        BY <2>2 DEF HostResume, thread
      <3> QED
        BY <3>1, <3>2 DEF Posts, Lowered
    <2>3. CASE Terminate(x)
      BY <2>3 DEF Terminate
    <2> QED
      BY <1>3, <2>1, <2>2, <2>3
  <1>4. CASE \/ HandleSignal \/ HandlerReturns \/ BeginSelfSuspend \/ RaiseCount \/ WakeUp
             \/ WaitSuspended
             \/ \E x \in Threads : \/ CheckWrapped(x) \/ SendSignal(x) \/ LowerCount(x)
                                   \/ LoadCount(x) \/ CallBegins(x)
    BY <1>1, <1>4
       DEF HandleSignal, HandlerReturns, BeginSelfSuspend, RaiseCount, WakeUp, WaitSuspended,
           CheckWrapped, SendSignal, LowerCount, LoadCount, CallBegins, BeginSuspend, BeginResume,
           TerminateTitle, host, thread
  <1>5. CASE UNCHANGED vars
    BY <1>1, <1>5 DEF vars, host, thread
  <1> QED
    BY <1>2, <1>3, <1>4, <1>5 DEF Next, ThreadStep, SelfStep, CallStep

(* With the calls through and the signals handled, the signal handler and  *)
(* suspend_sem_ of threading_posix.cpp hold a suspended thread, but for    *)
(* the token of its start: that is the only way to what the run            *)
(* ThreadSuspensionStops shows.  A resumed thread finds its token, but for *)
(* nested suspensions.                                                     *)
THEOREM TokensDecide == Spec => []StandsStillOrGoesOn
  <1>1. Init => StateByCount
    BY DEF Init, StateByCount, Alive
  <1>2. IInv /\ StateByCount /\ [Next]_vars => StateByCount'
    BY StateByCountStep DEF IInv
  <1>3. IInv /\ StateByCount => StandsStillOrGoesOn
    <2> SUFFICES ASSUME IInv, StateByCount, Alive
                 PROVE  StandsStillOrGoesOn
      BY DEF StandsStillOrGoesOn
    <2>0. /\ Cardinality(Signalling) \in Nat /\ signals \in Nat /\ sem \in Nat /\ nested \in Nat
          /\ spare \in {0, 1}
      BY CountsType DEF IInv, TypeOK
    <2>1. (Cardinality(Signalling) + signals + One(handler) + One(call[Target] = "semWait")) - sem
            = One(Owed) + nested - spare
      BY DEF IInv, TokensBalance, Waits
    <2>2. ASSUME Quiet, signals = 0, suspendCount > 0, ~Stopped
          PROVE  spare = 1 /\ nested = 0 /\ sem = 0
      <3>1. Signalling = {}
        BY <2>2 DEF Signalling, Quiet, Idle, Waiting, Threads
      <3>2. Cardinality(Signalling) = 0 /\ One(handler) = 0 /\ One(call[Target] = "semWait") = 0
        BY <2>2, <3>1, FS_EmptySet DEF Stopped, One
      <3>3. Owed
        BY <2>2 DEF StateByCount, Stopped, Owed
      <3> QED
        BY <2>0, <2>1, <2>2, <3>2, <3>3 DEF One
    <2>3. ASSUME AwaitsToken, ~Owed, sem = 0
          PROVE  nested > spare
      <3>1. One(handler) + One(call[Target] = "semWait") \in {1, 2} /\ One(Owed) = 0
            /\ One(handler) \in {0, 1} /\ One(call[Target] = "semWait") \in {0, 1}
        BY <2>3 DEF AwaitsToken, One
      <3> QED
        BY <2>0, <2>1, <2>3, <3>1
    <2> QED
      BY <2>2, <2>3 DEF StandsStillOrGoesOn
  <1> QED
    BY <1>1, <1>2, <1>3, Invariance, PTL DEF Spec

-----------------------------------------------------------------------------
(* When the two counts agree.  As long as calls neither overlap nor nest,  *)
(* at most one thread is between the beginning and the end of a call, but  *)
(* for a thread that Resume has just notified; so both counts are 0 or 1,  *)
(* and which call is where tells how they relate.                          *)

TitlePlaces == {"titleSuspend", "titleKill", "terminate"}
RaisingPlaces == {"check", "hostSuspend"}
LoweringPlaces == {"create", "hostResume"}

Doomed == \E x \in Threads : call[x] \in TitlePlaces
Orderliness == Alive /\ orderly /\ ~gapResume /\ ~Doomed

\* suspend_count_, or what the starting thread is about to store there
Held == IF Starting THEN 1 ELSE suspendCount
Busy(x) == ~Idle(x) /\ ~Waiting(x)
Settled == \A x \in Threads : call[x] \notin RaisingPlaces \cup LoweringPlaces

(* Until XThread::Create has resumed the thread nobody else calls.         *)
CreateInv ==
  \A x \in Threads : call[x] = "create" =>
    /\ x = Creator /\ ~cancelled
    /\ place \in {"new", "announced", "starter"}
    /\ place = "starter" => suspendCount = 1
    /\ \A y \in Threads \ {x} : call[y] = "idle"

OneBusy ==
  \A x, y \in Threads : Busy(x) /\ Busy(y) /\ x # y =>
    \/ call[x] = "hostResume" /\ call[y] = "cvWake"
    \/ call[y] = "hostResume" /\ call[x] = "cvWake"

CallsAgree ==
  \A x \in Threads :
    /\ call[x] \in RaisingPlaces => guestCount = 1 /\ Held = 0 /\ call[Target] # "cvWait"
    /\ call[x] \in LoweringPlaces => guestCount = 0
    /\ call[x] = "store" => previous[x] = guestCount

TargetAgrees ==
  /\ call[Target] \in {"lock", "store"} => guestCount = 0
  /\ call[Target] = "cvWait" => guestCount = 1 /\ Held = 0
  /\ call[Target] = "cvWake" => guestCount = 0 /\ Held = 0

Agreed ==
  /\ OneBusy
  /\ Starting => suspendCount = 0
  /\ guestCount \in {0, 1} /\ suspendCount \in {0, 1}
  /\ CallsAgree
  /\ TargetAgrees
  /\ Settled => (Held = 1 <=> guestCount = 1 /\ call[Target] # "cvWait")

AgreeInv == CreateInv /\ (Orderliness => Agreed)

LEMMA InitAgrees == Init => AgreeInv
  <1> SUFFICES ASSUME Init PROVE AgreeInv
    OBVIOUS
  <1>1. /\ place = "new" /\ suspendCount = 0 /\ ~cancelled /\ guestCount \in {0, 1}
        /\ \A x \in Threads : \/ call[x] = "idle"
                              \/ call[x] = "create" /\ x = Creator /\ guestCount = 0
        /\ \A x \in Threads \ {Creator} : call[x] = "idle"
        /\ Creator \in Threads /\ Target \in Threads /\ Creator # Target
        /\ guestCount = 0 => call[Creator] = "create"
    BY DEF Init, Threads
  <1>2. CreateInv
    BY <1>1 DEF CreateInv
  <1>3. OneBusy
    BY <1>1 DEF OneBusy, Busy, Idle
  <1>4. CallsAgree /\ TargetAgrees
    BY <1>1 DEF CallsAgree, TargetAgrees, RaisingPlaces, LoweringPlaces
  <1>5. Settled => (Held = 1 <=> guestCount = 1 /\ call[Target] # "cvWait")
    BY <1>1 DEF Settled, Held, Starting, LoweringPlaces
  <1> QED
    BY <1>1, <1>2, <1>3, <1>4, <1>5 DEF AgreeInv, Agreed, Starting

(* No call begins or goes on while the thread is being created, but for    *)
(* the Resume that XThread::Create makes.                                  *)
LEMMA CreateKeeps ==
  ASSUME IInv, CreateInv, Next
  PROVE  CreateInv'
  <1>0. TypeOK /\ Shape /\ Creator \in Threads /\ Target \in Threads /\ Creator # Target
    BY DEF IInv, Threads
  <1>1. ASSUME NEW x \in Threads, call'[x] = "create", call[x] # "create"
        PROVE  FALSE
    BY <1>0, <1>1
       DEF TypeOK, Next, ThreadStep, SelfStep, CallStep, CallBegins, Announce, StoreSuspendCount, Start,
           HandleSignal, HandlerReturns, Cancelled, BeginSelfSuspend, RaiseCount, WakeUp, WaitSuspended,
           Exit, CheckWrapped, HostSuspend, SendSignal, LowerCount, HostResume, Terminate, LoadCount,
           BeginSuspend, BeginResume, TerminateTitle, Goes, calls, AfterTest
  <1>2. ASSUME NEW x \in Threads, call[x] = "create", call'[x] = "create"
        PROVE  /\ x = Creator /\ ~cancelled'
               /\ place' \in {"new", "announced", "starter"}
               /\ place' = "starter" => suspendCount' = 1
               /\ \A y \in Threads \ {x} : call'[y] = "idle"
    <2>1. /\ x = Creator /\ ~cancelled /\ place \in {"new", "announced", "starter"}
          /\ place = "starter" => suspendCount = 1
          /\ \A y \in Threads \ {x} : call[y] = "idle"
      BY <1>2 DEF CreateInv
    <2>2. CASE ThreadStep
      BY <1>2, <2>1, <2>2
         DEF ThreadStep, Announce, StoreSuspendCount, Start, HandleSignal, HandlerReturns, Cancelled,
             calls, host
    <2>3. CASE SelfStep
      BY <1>0, <1>2, <2>1, <2>3
         DEF SelfStep, BeginSelfSuspend, RaiseCount, WakeUp, WaitSuspended, Exit, CanStep
    <2>4. ASSUME NEW y \in Threads, CallStep(y) \/ LoadCount(y) \/ CallBegins(y)
          PROVE  FALSE
      <3>1. CASE CallBegins(y)
        BY <2>1, <1>2, <3>1 DEF CallBegins, BeginSuspend, BeginResume, TerminateTitle, Usable
      <3>2. CASE y = x
        BY <1>0, <1>2, <2>1, <2>4, <3>1, <3>2
           DEF TypeOK, CallStep, LoadCount, CheckWrapped, HostSuspend, SendSignal, LowerCount, HostResume,
               Terminate, Goes
      <3>3. CASE y # x /\ ~CallBegins(y)
        <4>1. call[y] = "idle"
          BY <2>1, <3>3
        <4> QED
          BY <2>4, <3>3, <4>1
             DEF CallStep, LoadCount, CheckWrapped, HostSuspend, SendSignal, LowerCount, HostResume,
                 Terminate, Goes
      <3> QED
        BY <3>1, <3>2, <3>3
    <2> QED
      BY <2>2, <2>3, <2>4 DEF Next
  <1> QED
    BY <1>1, <1>2 DEF CreateInv

(* What is no longer orderly never is again.                               *)
LEMMA OrderlyBefore ==
  ASSUME IInv, Next, Orderliness'
  PROVE  Orderliness
  <1>0. TypeOK /\ Shape
    BY DEF IInv
  <1>1. Alive /\ orderly /\ ~gapResume
    BY <1>0
       DEF TypeOK, Orderliness, Alive, Orderly, Next, ThreadStep, SelfStep, CallStep, CallBegins, Announce,
           StoreSuspendCount, Start, HandleSignal, HandlerReturns, Cancelled, BeginSelfSuspend, RaiseCount,
           WakeUp, WaitSuspended, Exit, CheckWrapped, HostSuspend, SendSignal, LowerCount, HostResume,
           Terminate, LoadCount, BeginSuspend, BeginResume, TerminateTitle, host, thread, history
  <1>2. ASSUME NEW x \in Threads, call[x] \in TitlePlaces
        PROVE  FALSE
    <2>1. call'[x] \notin TitlePlaces
      BY DEF Orderliness, Doomed
    <2>2. call[x] = "terminate" => ~Terminate(x)
      BY <1>0, <1>1 DEF Terminate, Orderliness, Alive, Shape, TypeOK
    <2> QED
      BY <1>0, <1>2, <2>1, <2>2
         DEF TypeOK, TitlePlaces, Next, ThreadStep, SelfStep, CallStep, CallBegins, Announce,
             StoreSuspendCount, Start, HandleSignal, HandlerReturns, Cancelled, BeginSelfSuspend, RaiseCount,
             WakeUp, WaitSuspended, Exit, CheckWrapped, HostSuspend, SendSignal, LowerCount, HostResume,
             Terminate, LoadCount, BeginSuspend, BeginResume, TerminateTitle, Goes, calls, Threads
  <1> QED
    BY <1>1, <1>2 DEF Orderliness, Doomed

(* Steps of the thread itself that no call and no count takes part in.     *)
LEMMA ThreadAgrees ==
  ASSUME IInv, CreateInv, Agreed, Orderliness', ThreadStep
  PROVE  Agreed'
  <1>0. TypeOK /\ Shape
    BY DEF IInv
  <1>1. /\ UNCHANGED <<guestCount, call, previous>>
        /\ Starting' => Starting
    BY DEF ThreadStep, Announce, StoreSuspendCount, Start, HandleSignal, HandlerReturns, Cancelled,
           calls, guest, Starting
  <1>2. Held' = Held /\ suspendCount' \in {0, 1} /\ (Starting' => suspendCount' = 0)
    <2>1. CASE StoreSuspendCount
      BY <2>1 DEF StoreSuspendCount, Held, Starting
    <2>2. CASE ~StoreSuspendCount
      <3>1. UNCHANGED suspendCount /\ (Starting' <=> Starting)
        BY <2>2
           DEF ThreadStep, Announce, Start, HandleSignal, HandlerReturns, Cancelled, host, Starting,
               Orderliness, Alive
      <3> QED
        BY <3>1 DEF Held, Agreed
    <2> QED
      BY <2>1, <2>2
  <1>3. OneBusy' /\ CallsAgree' /\ TargetAgrees'
    BY <1>1, <1>2 DEF Agreed, OneBusy, Busy, Idle, Waiting, CallsAgree, TargetAgrees
  <1> QED
    BY <1>1, <1>2, <1>3 DEF Agreed, Settled

(* What a step that changes only the place of one call owes.               *)
LEMMA MoveAgrees ==
  ASSUME IInv, Agreed, NEW x \in Threads, NEW to \in CallPlaces,
         call' = [call EXCEPT ![x] = to], call[x] # "idle",
         UNCHANGED <<guestCount, suspendCount, place>>,
         \A y \in Threads \ {x} : previous'[y] = previous[y],
         {call[x], to} \cap (LoweringPlaces \cup {"create", "cvWait", "cvWake"}) = {},
         Waiting(x) => to = "idle",
         call[x] \in RaisingPlaces <=> to \in RaisingPlaces,
         to = "store" => previous'[x] = guestCount,
         x = Target /\ to \in {"lock", "store"} => call[x] \in {"lock", "store"}
  PROVE  Agreed'
  <1>0. /\ TypeOK /\ Target \in Threads /\ call'[x] = to
        /\ \A y \in Threads \ {x} : call'[y] = call[y]
        /\ Held' = Held /\ Starting' = Starting
    BY DEF IInv, TypeOK, Threads, Held, Starting
  <1>1. \A y \in Threads : Busy(y)' => Busy(y)
    BY <1>0 DEF Busy, Idle, Waiting
  <1>2. OneBusy'
    <2>1. {call[x], to} \cap {"hostResume", "cvWake"} = {}
      BY DEF LoweringPlaces
    <2>2. \A y \in Threads \ {x} : ~(Busy(x)' /\ Busy(y))
      BY <1>0, <1>1, <2>1 DEF Agreed, OneBusy
    <2>3. \A y \in Threads \ {x} : Busy(y)' => ~Busy(x)'
      BY <1>0, <1>1, <2>2
    <2> QED
      BY <1>0, <1>1, <2>3 DEF Agreed, OneBusy
  <1>3. CallsAgree'
    BY <1>0 DEF Agreed, CallsAgree
  <1>4. TargetAgrees'
    BY <1>0 DEF Agreed, TargetAgrees
  <1>5. (Settled' <=> Settled) /\ (call'[Target] = "cvWait" <=> call[Target] = "cvWait")
    BY <1>0 DEF Settled, LoweringPlaces
  <1> QED
    BY <1>0, <1>2, <1>3, <1>4, <1>5 DEF Agreed

(* A call that begins finds the others idle, or waiting to be resumed.     *)
LEMMA BeginAgrees ==
  ASSUME IInv, CreateInv, Agreed, Orderliness', NEW x \in Threads, CallBegins(x)
  PROVE  Agreed'
  <1>0. /\ TypeOK /\ Target \in Threads /\ call[x] = "idle"
        /\ \A y \in Threads \ {x} : call'[y] = call[y]
        /\ UNCHANGED <<suspendCount, place, previous>>
    BY DEF IInv, TypeOK, Threads, CallBegins, BeginSuspend, BeginResume, TerminateTitle, Goes, host, thread
  <1>a. Held' = Held /\ Starting' = Starting
    BY <1>0 DEF Held, Starting
  <1>1. CASE BeginSuspend(x)
    <2>1. /\ guestCount = 0 /\ guestCount' = 1 /\ call'[x] = "check"
          /\ \A y \in Threads \ {x} : call[y] = "idle"
      BY <1>0, <1>1 DEF BeginSuspend, Orderliness, Orderly, Idle, Goes, TypeOK
    <2>2. Settled /\ Held = 0
      <3>1. Settled
        BY <1>0, <2>1 DEF Settled, RaisingPlaces, LoweringPlaces
      <3> QED
        BY <2>1, <3>1 DEF Agreed, Held
    <2>3. OneBusy' /\ TargetAgrees'
      BY <1>0, <1>a, <2>1 DEF OneBusy, Busy, Idle, Waiting, TargetAgrees
    <2>4. CallsAgree'
      BY <1>0, <1>a, <2>1, <2>2 DEF CallsAgree, LoweringPlaces, RaisingPlaces
    <2>5. ~Settled'
      BY <2>1 DEF Settled, RaisingPlaces
    <2> QED
      BY <1>0, <1>a, <2>1, <2>3, <2>4, <2>5 DEF Agreed
  <1>2. CASE BeginResume(x)
    <2>1. /\ UNCHANGED guestCount /\ call'[x] = "lock" /\ x # Target
          /\ \A y \in Threads \ {x} : Idle(y) \/ Waiting(y)
      BY <1>0, <1>2 DEF BeginResume, Orderliness, Goes, TypeOK, guest
    <2>2. OneBusy'
      BY <1>0, <2>1 DEF OneBusy, Busy, Idle, Waiting
    <2>3. CallsAgree' /\ TargetAgrees'
      BY <1>0, <1>a, <2>1 DEF Agreed, CallsAgree, TargetAgrees, LoweringPlaces, RaisingPlaces
    <2>4. Settled' <=> Settled
      BY <1>0, <2>1 DEF Settled, LoweringPlaces, RaisingPlaces
    <2> QED
      BY <1>0, <1>a, <2>1, <2>2, <2>3, <2>4 DEF Agreed
  <1>3. CASE TerminateTitle(x)
    <2>1. call'[x] = "titleSuspend"
      BY <1>0, <1>3 DEF TerminateTitle, Goes, TypeOK
    <2> QED
      BY <2>1 DEF Orderliness, Doomed, TitlePlaces
  <1> QED
    BY <1>1, <1>2, <1>3 DEF CallBegins

LEMMA SelfAgrees ==
  ASSUME IInv, CreateInv, Agreed, Orderliness', SelfStep
  PROVE  Agreed'
  <1>0. /\ TypeOK /\ Target \in Threads
        /\ \A y \in Threads \ {Target} : call'[y] = call[y]
        /\ \A y \in Threads \ {Target} : previous'[y] = previous[y]
        /\ UNCHANGED suspendCount /\ (Orderliness' => UNCHANGED place)
    BY DEF IInv, TypeOK, Threads, SelfStep, BeginSelfSuspend, RaiseCount, WakeUp, WaitSuspended, Exit, Goes,
           Unlock, host, thread, calls, Orderliness, Alive
  <1>a. Held' = Held /\ Starting' = Starting
    BY <1>0 DEF Held, Starting
  <1>1. CASE BeginSelfSuspend
    <2>1. /\ guestCount = 0 /\ UNCHANGED <<guestCount, previous>> /\ call'[Target] = "lock"
          /\ call[Target] = "idle" /\ \A y \in Threads \ {Target} : call[y] = "idle"
      BY <1>0, <1>1 DEF BeginSelfSuspend, Orderliness, Orderly, Idle, Goes, TypeOK, guest
    <2>2. OneBusy' /\ CallsAgree' /\ TargetAgrees'
      BY <1>0, <1>a, <2>1 DEF OneBusy, Busy, Idle, Waiting, CallsAgree, TargetAgrees, LoweringPlaces, RaisingPlaces
    <2>3. Settled' <=> Settled
      BY <1>0, <2>1 DEF Settled, LoweringPlaces, RaisingPlaces
    <2> QED
      BY <1>0, <1>a, <2>1, <2>2, <2>3 DEF Agreed
  <1>2. CASE RaiseCount
    <2>1. /\ call[Target] = "store" /\ guestCount = 0 /\ previous[Target] = 0
          /\ guestCount' = 1 /\ call'[Target] = "cvWait"
      BY <1>0, <1>2 DEF RaiseCount, Goes, AfterTest, TypeOK, Agreed, CallsAgree, TargetAgrees
    <2>2. \A y \in Threads \ {Target} : ~Busy(y)
      BY <1>0, <2>1 DEF Agreed, OneBusy, Busy, Idle, Waiting
    <2>3. Settled /\ Settled' /\ \A y \in Threads \ {Target} : call[y] \in {"idle", "semWait", "cvWait"}
      BY <1>0, <2>1, <2>2 DEF Settled, Busy, Idle, Waiting, LoweringPlaces, RaisingPlaces
    <2>4. Held = 0
      BY <2>1, <2>3 DEF Agreed, Held
    <2>5. OneBusy' /\ CallsAgree' /\ TargetAgrees'
      BY <1>0, <1>a, <2>1, <2>3, <2>4
         DEF OneBusy, Busy, Idle, Waiting, CallsAgree, TargetAgrees, LoweringPlaces, RaisingPlaces
    <2> QED
      BY <1>0, <1>a, <2>1, <2>3, <2>4, <2>5 DEF Agreed
  <1>3. CASE WakeUp
    <2>1. /\ call[Target] = "cvWake" /\ guestCount = 0 /\ Held = 0 /\ UNCHANGED <<guestCount, previous>>
          /\ call'[Target] = "idle"
      BY <1>0, <1>3 DEF WakeUp, Goes, AfterTest, TypeOK, Agreed, TargetAgrees, guest
    <2>2. OneBusy' /\ CallsAgree' /\ TargetAgrees'
      BY <1>0, <1>a, <2>1
         DEF Agreed, OneBusy, Busy, Idle, Waiting, CallsAgree, TargetAgrees, LoweringPlaces, RaisingPlaces
    <2> QED
      BY <1>0, <1>a, <2>1, <2>2 DEF Agreed
  <1>4. CASE WaitSuspended
    <2>1. /\ call[Target] = "semWait" /\ UNCHANGED <<guestCount, previous>> /\ call'[Target] = "idle"
      BY <1>0, <1>4 DEF WaitSuspended, Goes, TypeOK, guest
    <2>2. OneBusy' /\ CallsAgree' /\ TargetAgrees'
      BY <1>0, <1>a, <2>1
         DEF Agreed, OneBusy, Busy, Idle, Waiting, CallsAgree, TargetAgrees, LoweringPlaces, RaisingPlaces
    <2>3. Settled' <=> Settled
      BY <1>0, <2>1 DEF Settled, LoweringPlaces, RaisingPlaces
    <2> QED
      BY <1>0, <1>a, <2>1, <2>2, <2>3 DEF Agreed
  <1>5. CASE Exit
    BY <1>5 DEF Exit, Orderliness, Alive
  <1> QED
    BY <1>1, <1>2, <1>3, <1>4, <1>5 DEF SelfStep

LEMMA CallAgrees ==
  ASSUME IInv, CreateInv, Agreed, Orderliness, Orderliness', NEW x \in Threads, CallStep(x) \/ LoadCount(x)
  PROVE  Agreed'
  <1>0. /\ TypeOK /\ Shape /\ Target \in Threads /\ UNCHANGED place
    BY DEF IInv, Threads, CallStep, LoadCount, CheckWrapped, HostSuspend, SendSignal, LowerCount,
           HostResume, Terminate, thread
  <1>a. Starting' = Starting
    BY <1>0 DEF Starting
  <1>b. call[x] \notin TitlePlaces
    BY DEF Orderliness, Doomed
  <1>1. CASE CheckWrapped(x)
    <2>1. call[x] = "check" /\ guestCount = 1
      BY <1>1 DEF CheckWrapped, Goes, Agreed, CallsAgree, RaisingPlaces
    <2>2. /\ call' = [call EXCEPT ![x] = "hostSuspend"]
          /\ UNCHANGED <<guestCount, suspendCount, previous>>
      BY <1>1, <2>1 DEF CheckWrapped, Goes, host, guest
    <2> QED
      BY <1>0, <2>1, <2>2, MoveAgrees DEF CallPlaces, RaisingPlaces, LoweringPlaces, Waiting
  <1>2. CASE HostSuspend(x)
    <2>1. PICK to \in {"semWait", "kill"} :
            /\ call[x] = "hostSuspend" /\ call' = [call EXCEPT ![x] = to]
            /\ suspendCount' = suspendCount + 1 /\ UNCHANGED <<guestCount, previous>>
            /\ to = "semWait" => x = Target
      BY <1>2, <1>b DEF HostSuspend, Goes, TitlePlaces, guest
    <2>2. /\ guestCount = 1 /\ Held = 0 /\ call[Target] # "cvWait" /\ ~Starting /\ suspendCount = 0
          /\ Held' = 1 /\ suspendCount' = 1
      BY <1>a, <2>1 DEF Agreed, CallsAgree, RaisingPlaces, Held
    <2>3. \A y \in Threads \ {x} : call'[y] = call[y] /\ ~Busy(y) /\ call[y] \in {"idle", "semWait", "cvWait"}
      BY <1>0, <2>1 DEF Agreed, OneBusy, Busy, Idle, Waiting, TypeOK
    <2>4. call'[x] = to
      BY <1>0, <2>1 DEF TypeOK
    <2>5. OneBusy' /\ CallsAgree' /\ TargetAgrees'
      BY <1>0, <1>a, <2>1, <2>2, <2>3, <2>4
         DEF OneBusy, Busy, Idle, Waiting, CallsAgree, TargetAgrees, LoweringPlaces, RaisingPlaces
    <2> QED
      BY <1>0, <1>a, <2>1, <2>2, <2>3, <2>4, <2>5 DEF Agreed
  <1>3. CASE SendSignal(x)
    <2>1. /\ call[x] = "kill" /\ call' = [call EXCEPT ![x] = "idle"]
          /\ UNCHANGED <<guestCount, suspendCount, previous>>
      BY <1>3, <1>b DEF SendSignal, Goes, TitlePlaces, guest
    <2> QED
      BY <1>0, <2>1, MoveAgrees DEF CallPlaces, RaisingPlaces, LoweringPlaces, Waiting
  <1>4. CASE LoadCount(x)
    <2>1. /\ call[x] = "lock" /\ call' = [call EXCEPT ![x] = "store"]
          /\ UNCHANGED <<guestCount, suspendCount>> /\ previous' = [previous EXCEPT ![x] = guestCount]
      BY <1>4 DEF LoadCount, Goes, host
    <2>2. previous'[x] = guestCount /\ \A y \in Threads \ {x} : previous'[y] = previous[y]
      BY <1>0, <2>1 DEF TypeOK
    <2> QED
      BY <1>0, <2>1, <2>2, MoveAgrees DEF CallPlaces, RaisingPlaces, LoweringPlaces, Waiting
  <1>5. CASE LowerCount(x)
    <2>1. /\ x # Target /\ call[x] = "store" /\ previous[x] = guestCount /\ guestCount \in {0, 1}
          /\ UNCHANGED suspendCount
          /\ \A y \in Threads \ {x} : previous'[y] = previous[y]
      BY <1>0, <1>5 DEF LowerCount, Unlock, Agreed, CallsAgree, TypeOK, host
    <2>2. guestCount' = 0 /\ Lowered(previous[x]) = 0
      BY <1>5, <2>1 DEF LowerCount, Lowered
    <2>a. PICK count \in {0} :
            call' = [call EXCEPT ![x] = IF count = 0 THEN "hostResume" ELSE "idle",
                                 ![Target] = IF @ = "cvWait" THEN "cvWake" ELSE @]
      BY <1>5, <2>2 DEF LowerCount
    <2>3. /\ call'[x] = "hostResume"
          /\ call'[Target] = IF call[Target] = "cvWait" THEN "cvWake" ELSE call[Target]
          /\ \A y \in Threads \ {x, Target} : call'[y] = call[y]
      BY <1>0, <2>1, <2>a DEF TypeOK
    <2>4. \A y \in Threads \ {x} : ~Busy(y) /\ call[y] \in {"idle", "semWait", "cvWait"}
      BY <1>0, <2>1 DEF Agreed, OneBusy, Busy, Idle, Waiting
    <2>5. OneBusy' /\ CallsAgree'
      <3>1. /\ \A y \in Threads \ {x, Target} : call'[y] \in {"idle", "semWait", "cvWait"}
            /\ call'[Target] \in {"idle", "semWait", "cvWake"}
        BY <1>0, <2>1, <2>3, <2>4
      <3>2. OneBusy'
        BY <2>3, <3>1 DEF OneBusy, Busy, Idle, Waiting
      <3>3. CallsAgree'
        BY <2>2, <2>3, <3>1 DEF CallsAgree, LoweringPlaces, RaisingPlaces
      <3> QED
        BY <3>2, <3>3
    <2>6. TargetAgrees'
      BY <1>0, <1>a, <2>1, <2>2, <2>3, <2>4 DEF Agreed, TargetAgrees, Held
    <2>7. ~Settled'
      BY <2>3 DEF Settled, LoweringPlaces
    <2> QED
      BY <1>0, <1>a, <2>1, <2>2, <2>5, <2>6, <2>7 DEF Agreed
  <1>6. CASE HostResume(x)
    <2>1. /\ call[x] \in LoweringPlaces /\ call' = [call EXCEPT ![x] = "idle"]
          /\ suspendCount' = Lowered(suspendCount) /\ UNCHANGED <<guestCount, previous>>
      BY <1>6 DEF HostResume, Goes, LoweringPlaces, guest
    <2>2. guestCount = 0 /\ suspendCount' = 0
      BY <2>1 DEF Agreed, CallsAgree, Lowered
    <2>3. ~Starting
      BY <1>0, <1>6 DEF HostResume, Starting, Shape, WaitStarted, Orderliness, Agreed
    <2>4. Held' = 0
      BY <1>a, <2>2, <2>3 DEF Held
    <2>5. \A y \in Threads \ {x} : call'[y] = call[y] /\ call[y] \in {"idle", "semWait", "cvWait", "cvWake"}
      BY <1>0, <2>1 DEF Agreed, OneBusy, Busy, Idle, Waiting, TypeOK, LoweringPlaces
    <2>6. call'[x] = "idle" /\ call[Target] # "cvWait"
      BY <1>0, <2>1, <2>2 DEF TypeOK, Agreed, TargetAgrees
    <2>7. OneBusy' /\ CallsAgree' /\ TargetAgrees'
      BY <1>0, <2>1, <2>2, <2>4, <2>5, <2>6
         DEF Agreed, OneBusy, Busy, Idle, Waiting, CallsAgree, TargetAgrees, LoweringPlaces, RaisingPlaces
    <2> QED
      BY <1>0, <1>a, <2>1, <2>2, <2>3, <2>4, <2>7 DEF Agreed
  <1>7. CASE Terminate(x)
    BY <1>7, <1>b DEF Terminate, Goes, TitlePlaces
  <1> QED
    BY <1>1, <1>2, <1>3, <1>4, <1>5, <1>6, <1>7 DEF CallStep

LEMMA StepAgrees ==
  ASSUME IInv, AgreeInv, [Next]_vars
  PROVE  AgreeInv'
  <1>1. CASE Next
    <2>1. CreateInv'
      BY <1>1, CreateKeeps DEF AgreeInv
    <2>2. ASSUME Orderliness'
          PROVE  Agreed'
      <3>1. Orderliness /\ Agreed /\ CreateInv
        BY <1>1, <2>2, OrderlyBefore DEF AgreeInv
      <3> QED
        BY <1>1, <2>2, <3>1, ThreadAgrees, SelfAgrees, CallAgrees, BeginAgrees DEF Next
    <2> QED
      BY <2>1, <2>2 DEF AgreeInv
  <1>2. CASE UNCHANGED vars
    BY <1>2
       DEF vars, host, guest, thread, calls, history, AgreeInv, CreateInv, Orderliness, Alive, Doomed,
           Agreed, OneBusy, Busy, Idle, Waiting, CallsAgree, TargetAgrees, Settled, Held, Starting
  <1> QED
    BY <1>1, <1>2

(* Between calls the guest's count and the host's agree whether the thread *)
(* is suspended, whatever the callers did, as long as no call overlapped   *)
(* another or suspended a suspended thread, and no Resume came before the  *)
(* starting thread had stored its count (XThread::Suspend and Resume,      *)
(* PosixCondition<Thread>::ThreadStartRoutine).                            *)
THEOREM CountsInAgreement == Spec => []CountsAgree
  <1>1. Init => IInv /\ AgreeInv
    BY InitHolds, InitAgrees
  <1>2. (IInv /\ AgreeInv) /\ [Next]_vars => (IInv /\ AgreeInv)'
    BY StepKeeps, StepAgrees
  <1>3. IInv /\ AgreeInv => CountsAgree
    <2> SUFFICES ASSUME AgreeInv, Quiet, Alive, orderly, ~gapResume, place \in {"starter", "guest"}
                 PROVE  suspendCount > 0 <=> guestCount > 0 /\ call[Target] # "cvWait"
      BY DEF CountsAgree
    <2>1. Orderliness /\ Settled
      BY DEF Quiet, Idle, Waiting, Orderliness, Doomed, Settled, TitlePlaces, LoweringPlaces, RaisingPlaces
    <2> QED
      BY <2>1 DEF AgreeInv, Agreed, Held, Starting
  <1> QED
    BY <1>1, <1>2, <1>3, PTL DEF Spec
===============================================================================
