-------------------------- MODULE ObjectTableProofs --------------------------
(* Theorems about ObjectTable: any guest threads, objects, slots and names. *)
EXTENDS ObjectTable, SequenceLemmas

USE SlotsAssumption, GuestsAssumption, NoneAssumption

-----------------------------------------------------------------------------
(* The inductive invariant, part by part.                                  *)

EntryType == [object : Objects \cup {NoObject}, count : Nat]
ObjectType == [pointers : Nat, handles : Seq(Slots),
               stale : Slots \cup {NoSlot}, name : Names \cup {NoName}]
CallType == [at : Places, call : {"none", "create", "open", "duplicate", "close source"},
             name : Names \cup {NoName}, handle : Slots \cup {NoSlot},
             object : Objects \cup {NoObject}, holds : Slots \cup {NoSlot},
             primary : Slots \cup {NoSlot}]

TableTyped ==
  /\ entry \in [Slots -> EntryType]
  /\ names \in [Names -> Slots \cup {NoSlot}]
  /\ owned \in [Slots -> Nat]
  /\ mishaps \subseteq {"open", "create", "release", "leak", "close"}
  /\ crashed \in BOOLEAN
ObjectsTyped == xobject \in [Objects -> ObjectType]

(* What a call holds at each of its places.                                *)
WithObject == {"retain", "retaining", "release", "releasing", "found", "returning",
               "attributes", "return", "add", "using"}
WithName == {"find", "lookup", "retain", "retaining", "again", "attributes"}
WithSlot == {"lookup", "retain", "retaining", "again", "add", "check", "remove"}
WithHold == {"attributes", "return", "add", "check", "remove"}
WithNoHold == {"find", "lookup", "retain", "retaining", "found", "returning", "create", "using"}
Creating == {"again", "release", "releasing", "found", "returning", "create", "attributes", "return"}
CallOK(t) ==
  /\ t \in CallType
  /\ t.at = "idle" => t = Idle
  /\ t.at \in WithObject <=> t.object \in Objects
  /\ t.at \in WithName => t.name \in Names
  /\ t.at \in WithSlot => t.handle \in Slots
  /\ t.at \in WithHold => t.holds \in Slots
  /\ t.at \in WithNoHold => t.holds = NoSlot
  /\ t.at \in {"add", "check", "remove"} => t.handle = t.holds
  /\ t.at \in {"find", "lookup", "retain", "retaining"} => t.call \in {"open", "create"}
  /\ t.at \in Creating => t.call = "create"
  /\ t.at = "remove" => t.call = "close source"
ThreadTyped == thread \in [Guests -> CallType] /\ \A g \in Guests : CallOK(thread[g])

Typed == TableTyped /\ ObjectsTyped /\ ThreadTyped

(* A slot has an object exactly if its handle has references.              *)
Filled == \A s \in Slots : entry[s].count > 0 <=> entry[s].object \in Objects

(* HandlesExact, in terms that a step can keep.                            *)
Listed == \A o \in Objects : ToSet(xobject[o].handles) = Entries(o) /\ IsInjective(xobject[o].handles)

(* While the counts are right, the handle of a new object stays its own.   *)
Created ==
  mishaps = {} =>
    \A g \in Guests : thread[g].at \in {"attributes", "return"} =>
      entry[thread[g].holds].object = thread[g].object

(* An object gets its name once, from the thread that made it.             *)
Naming(g) == thread[g].at = "attributes"
Unnamed ==
  /\ \A g \in Guests : Naming(g) => xobject[thread[g].object].name = NoName
  /\ \A g, h \in Guests : Naming(g) /\ Naming(h) /\ thread[g].object = thread[h].object => g = h

IInv ==
  /\ Typed /\ Filled
  /\ PointersExact /\ Listed
  /\ CountsExact /\ CrashNeedsMishap /\ Created
  /\ Unnamed /\ NamesAreLive

-----------------------------------------------------------------------------
(* The state of one thread.                                                *)

LEMMA StepOfOne ==
  ASSUME ThreadTyped, NEW g \in Guests, Step(g)
  PROVE  /\ thread' = [h \in Guests |-> thread'[h]]
         /\ \A h \in Guests \ {g} : thread'[h] = thread[h]
  BY DEF ThreadTyped, Step, Create, Open, Enter, FindName, Lookup, ReadPrimary, RetainFound, LookupAgain,
         ReleaseFound, ReturnFound, CreateObject, SetAttributes, ReturnCreated, Close,
         Duplicate, AddDuplicate, CheckSource, RemoveSource, Use, Used, Give, Goto

LEMMA StepStarts ==
  ASSUME ThreadTyped, NEW g \in Guests, Step(g)
  PROVE  ~crashed /\ CallOK(thread[g]) /\ thread[g] \in CallType
  BY DEF ThreadTyped, Step, Create, Open, FindName, Lookup, ReadPrimary, RetainFound, LookupAgain,
         ReleaseFound, ReturnFound, CreateObject, SetAttributes, ReturnCreated, Close,
         Duplicate, AddDuplicate, CheckSource, RemoveSource, Use, Used, MayAsk, At

(* The reads of handles_[0].                                               *)
Reads(g) ==
  \/ ReadPrimary(g, "retain", "retaining") \/ ReadPrimary(g, "release", "releasing")
  \/ ReadPrimary(g, "found", "returning")

LEMMA PrimaryTyped ==
  ASSUME ObjectsTyped, NEW o \in Objects
  PROVE  Primary(o) \in Slots \cup {NoSlot}
  <1>1. xobject[o] \in ObjectType
    BY DEF ObjectsTyped
  <1> QED
    BY <1>1, HeadTailProperties DEF Primary, ObjectType

LEMMA FoundRetained ==
  ASSUME ThreadTyped, NEW g \in Guests, RetainFound(g)
  PROVE  \/ thread'[g] = Idle
         \/ \E got \in Slots \cup {NoSlot} : thread[g].call = "create" /\
              thread'[g] = [thread[g] EXCEPT !.object = NoObject, !.holds = got,
                                             !.primary = NoSlot, !.at = "again"]
  <1> DEFINE p == thread[g].primary
             got == IF Live(p) THEN p ELSE NoSlot
  <1>1. got \in Slots \cup {NoSlot}
    BY DEF Live
  <1>2. \/ Give(g, thread[g].handle, got)
        \/ thread[g].call = "create" /\ thread' = [thread EXCEPT
              ![g].object = NoObject, ![g].holds = got, ![g].primary = NoSlot, ![g].at = "again"]
    BY DEF RetainFound
  <1> HIDE DEF got
  <1> QED
    BY <1>1, <1>2 DEF Give, ThreadTyped

LEMMA CallOKStep ==
  ASSUME Typed, NEW g \in Guests, Step(g)
  PROVE  CallOK(thread'[g])
  <1> DEFINE t == thread[g]
  <1>0. /\ CallOK(t) /\ t \in CallType /\ thread \in [Guests -> CallType]
    BY StepStarts DEF Typed, ThreadTyped
  <1>1. Idle \in CallType /\ CallOK(Idle)
    BY DEF Idle, CallOK, CallType, Places, WithObject, WithName, WithSlot, WithHold, WithNoHold,
           Creating, NoSlot
  <1> USE DEF WithObject, WithName, WithSlot, WithHold, WithNoHold, Creating, Places
  <1>2. CASE FindName(g)
    <2> DEFINE n == names[t.name]
    <2>1. t.at = "find" /\ t.name \in Names /\ n \in Slots \cup {NoSlot} /\ t.object = NoObject
      BY <1>0, <1>2 DEF FindName, At, CallOK, CallType, Typed, TableTyped
    <2>2. \/ n # NoSlot /\ thread'[g] = [t EXCEPT !.handle = n, !.at = "lookup"]
          \/ thread'[g] = Idle
          \/ t.call # "open" /\ thread'[g] = [t EXCEPT !.at = "create"]
      BY <1>0, <1>2 DEF FindName
    <2> HIDE DEF t, n
    <2>3. ASSUME n # NoSlot, NEW u, u = [t EXCEPT !.handle = n, !.at = "lookup"]
          PROVE  CallOK(u)
      <3>1. /\ u \in CallType /\ u.at = "lookup" /\ u.handle \in Slots
            /\ u.name = t.name /\ u.object = t.object /\ u.holds = t.holds /\ u.call = t.call
        BY <1>0, <2>1, <2>3 DEF CallType
      <3> QED
        BY <1>0, <2>1, <3>1 DEF CallOK
    <2>4. ASSUME t.call # "open", NEW u, u = [t EXCEPT !.at = "create"]
          PROVE  CallOK(u)
      <3>1. /\ u \in CallType /\ u.at = "create" /\ u.handle = t.handle
            /\ u.name = t.name /\ u.object = t.object /\ u.holds = t.holds /\ u.call = t.call
        BY <1>0, <2>1, <2>4 DEF CallType
      <3> QED
        BY <1>0, <2>1, <2>4, <3>1 DEF CallOK
    <2> QED
      BY <1>1, <2>2, <2>3, <2>4
  <1>3. CASE Lookup(g)
    <2> DEFINE o == entry[t.handle].object
    <2>1. t.at = "lookup" /\ t.handle \in Slots /\ o \in Objects \cup {NoObject}
      BY <1>0, <1>3 DEF Lookup, At, CallOK, CallType, Typed, TableTyped, EntryType
    <2>2. \/ o # NoObject /\ thread'[g] = [t EXCEPT !.object = o, !.at = "retain"]
          \/ thread'[g] = Idle
          \/ t.call = "create" /\ thread'[g] = [t EXCEPT !.at = "again"]
      BY <1>0, <1>3 DEF Lookup, Give, Goto
    <2> HIDE DEF t, o
    <2>3. ASSUME o # NoObject, NEW u, u = [t EXCEPT !.object = o, !.at = "retain"]
          PROVE  CallOK(u)
      <3>1. /\ u \in CallType /\ u.at = "retain" /\ u.object \in Objects
            /\ u.handle = t.handle /\ u.name = t.name /\ u.holds = t.holds /\ u.call = t.call
        BY <1>0, <2>1, <2>3 DEF CallType
      <3> QED
        BY <1>0, <2>1, <3>1 DEF CallOK
    <2>4. ASSUME t.call = "create", NEW u, u = [t EXCEPT !.at = "again"]
          PROVE  CallOK(u)
      <3>1. /\ u \in CallType /\ u.at = "again"
            /\ u.handle = t.handle /\ u.name = t.name /\ u.object = t.object /\ u.holds = t.holds /\ u.call = t.call
        BY <1>0, <2>1, <2>4 DEF CallType
      <3> QED
        BY <1>0, <2>1, <2>4, <3>1 DEF CallOK
    <2> QED
      BY <1>1, <2>2, <2>3, <2>4
  <1>a. CASE Reads(g)
    <2>1. PICK from \in {"retain", "release", "found"}, to \in {"retaining", "releasing", "returning"} :
            /\ ReadPrimary(g, from, to)
            /\ from = "retain" <=> to = "retaining"
            /\ from = "release" <=> to = "releasing"
      BY <1>a DEF Reads
    <2> DEFINE p == Primary(t.object)
    <2>2. t.at = from /\ thread'[g] = [t EXCEPT !.primary = p, !.at = to]
      BY <1>0, <2>1 DEF ReadPrimary, At
    <2>3. t.object \in Objects
      BY <1>0, <2>2 DEF CallOK
    <2>4. p \in Slots \cup {NoSlot}
      BY <2>3, PrimaryTyped DEF Typed
    <2> HIDE DEF t, p
    <2>5. ASSUME NEW u, u = [t EXCEPT !.primary = p, !.at = to]
          PROVE  CallOK(u)
      <3>1. /\ u \in CallType /\ u.at = to /\ u.handle = t.handle /\ u.name = t.name
            /\ u.object = t.object /\ u.holds = t.holds /\ u.call = t.call
        BY <1>0, <2>4, <2>5 DEF CallType
      <3> QED
        BY <1>0, <2>1, <2>2, <3>1 DEF CallOK
    <2> QED
      BY <2>2, <2>5
  <1>4. CASE RetainFound(g)
    <2>1. t.at = "retaining"
      BY <1>4 DEF RetainFound, At
    <2>2. \/ thread'[g] = Idle
          \/ \E got \in Slots \cup {NoSlot} : t.call = "create" /\
               thread'[g] = [t EXCEPT !.object = NoObject, !.holds = got, !.primary = NoSlot, !.at = "again"]
      BY <1>0, <1>4, FoundRetained DEF Typed
    <2> HIDE DEF t
    <2>3. ASSUME t.call = "create", NEW got \in Slots \cup {NoSlot},
                 NEW u, u = [t EXCEPT !.object = NoObject, !.holds = got, !.primary = NoSlot, !.at = "again"]
          PROVE  CallOK(u)
      <3>1. /\ u \in CallType /\ u.at = "again" /\ u.object = NoObject /\ u.holds = got
            /\ u.handle = t.handle /\ u.name = t.name /\ u.call = t.call
        BY <1>0, <2>1, <2>3 DEF CallType
      <3> QED
        BY <1>0, <2>1, <2>3, <3>1 DEF CallOK
    <2> QED
      BY <1>1, <2>2, <2>3
  <1>5. CASE LookupAgain(g)
    <2> DEFINE o == entry[t.handle].object
    <2>1. t.at = "again" /\ t.handle \in Slots /\ o \in Objects \cup {NoObject}
      BY <1>0, <1>5 DEF LookupAgain, At, CallOK, CallType, Typed, TableTyped, EntryType
    <2>2. \/ o # NoObject /\ thread'[g] = [t EXCEPT !.handle = NoSlot, !.object = o, !.at = "release"]
          \/ thread'[g] = [t EXCEPT !.holds = NoSlot, !.at = "create"]
      BY <1>0, <1>5 DEF LookupAgain
    <2> HIDE DEF t, o
    <2>3. ASSUME o # NoObject, NEW u, u = [t EXCEPT !.handle = NoSlot, !.object = o, !.at = "release"]
          PROVE  CallOK(u)
      <3>1. /\ u \in CallType /\ u.at = "release" /\ u.object \in Objects
            /\ u.handle = NoSlot /\ u.name = t.name /\ u.holds = t.holds /\ u.call = t.call
        BY <1>0, <2>1, <2>3 DEF CallType
      <3> QED
        BY <1>0, <2>1, <3>1 DEF CallOK
    <2>4. ASSUME NEW u, u = [t EXCEPT !.holds = NoSlot, !.at = "create"]
          PROVE  CallOK(u)
      <3>1. /\ u \in CallType /\ u.at = "create" /\ u.holds = NoSlot
            /\ u.handle = t.handle /\ u.name = t.name /\ u.object = t.object /\ u.call = t.call
        BY <1>0, <2>1, <2>4 DEF CallType, NoSlot
      <3> QED
        BY <1>0, <2>1, <3>1 DEF CallOK
    <2> QED
      BY <2>2, <2>3, <2>4
  <1>6. CASE ReleaseFound(g)
    <2>1. /\ t.at = "releasing"
          /\ thread'[g] = [t EXCEPT !.holds = NoSlot, !.primary = NoSlot, !.at = "found"]
      BY <1>0, <1>6 DEF ReleaseFound, At
    <2> HIDE DEF t
    <2>2. ASSUME NEW u, u = [t EXCEPT !.holds = NoSlot, !.primary = NoSlot, !.at = "found"]
          PROVE  CallOK(u)
      <3>1. /\ u \in CallType /\ u.at = "found" /\ u.holds = NoSlot
            /\ u.object = t.object /\ u.call = t.call
        BY <1>0, <2>2 DEF CallType
      <3> QED
        BY <1>0, <2>1, <3>1 DEF CallOK
    <2> QED
      BY <2>1, <2>2
  <1>7. CASE ReturnFound(g)
    BY <1>0, <1>1, <1>7 DEF ReturnFound, At, CallOK, CallType, NoSlot, Give
  <1>8. CASE CreateObject(g)
    <2>1. t.at = "create"
      BY <1>8 DEF CreateObject, At
    <2>2. PICK o \in Objects, s \in Slots :
            thread'[g] = [t EXCEPT !.object = o, !.holds = s,
                                   !.at = IF t.name = NoName THEN "return" ELSE "attributes"]
      BY <1>0, <1>8 DEF CreateObject
    <2> HIDE DEF t
    <2> QED
      BY <1>0, <2>1, <2>2 DEF CallOK, CallType
  <1>9. CASE SetAttributes(g)
    BY <1>0, <1>1, <1>9 DEF SetAttributes, At, CallOK, CallType, NoSlot, Goto
  <1>10. CASE ReturnCreated(g)
    BY <1>0, <1>1, <1>10 DEF ReturnCreated, At, CallOK, CallType, NoSlot, Give
  <1>11. CASE AddDuplicate(g)
    <2>1. t.at = "add" /\ thread'[g] = [t EXCEPT !.object = NoObject, !.at = "check"]
      BY <1>0, <1>11 DEF AddDuplicate, At
    <2> HIDE DEF t
    <2>2. ASSUME NEW u, u = [t EXCEPT !.object = NoObject, !.at = "check"]
          PROVE  CallOK(u)
      <3>1. /\ u \in CallType /\ u.at = "check" /\ u.object = NoObject
            /\ u.handle = t.handle /\ u.name = t.name /\ u.holds = t.holds /\ u.call = t.call
        BY <1>0, <2>2 DEF CallType
      <3> QED
        BY <1>0, <2>1, <3>1 DEF CallOK
    <2> QED
      BY <2>1, <2>2
  <1>12. CASE CheckSource(g)
    <2>1. \/ thread'[g] = Idle
          \/ t.at = "check" /\ t.call = "close source" /\ thread'[g] = [t EXCEPT !.at = "remove"]
      BY <1>0, <1>12 DEF CheckSource, At, Goto
    <2> HIDE DEF t
    <2>2. ASSUME t.at = "check", t.call = "close source", NEW u, u = [t EXCEPT !.at = "remove"]
          PROVE  CallOK(u)
      <3>1. /\ u \in CallType /\ u.at = "remove"
            /\ u.handle = t.handle /\ u.name = t.name /\ u.object = t.object /\ u.holds = t.holds /\ u.call = t.call
        BY <1>0, <2>2 DEF CallType
      <3> QED
        BY <1>0, <2>2, <3>1 DEF CallOK
    <2> QED
      BY <1>1, <2>1, <2>2
  <1>13. CASE RemoveSource(g)
    BY <1>0, <1>1, <1>13 DEF RemoveSource, At, CallOK, CallType, NoSlot
  <1>14. CASE Used(g)
    BY <1>0, <1>1, <1>14 DEF Used, At, CallOK, CallType, NoSlot
  <1>15. ASSUME NEW call \in {"create", "open"}, NEW n \in Names \cup {NoName},
                NEW at \in {"create", "find"}, n = NoName => at = "create",
                at = "create" => call = "create",
                Enter(g, call, n, NoSlot, at)
         PROVE  CallOK(thread'[g])
    <2>1. thread'[g] = [Idle EXCEPT !.at = at, !.call = call, !.name = n, !.handle = NoSlot]
      BY <1>0, <1>15 DEF Enter
    <2>2. Idle.at = "idle" /\ Idle.object = NoObject /\ Idle.holds = NoSlot
      BY DEF Idle
    <2> QED
      BY <1>1, <1>15, <2>1, <2>2 DEF CallOK, CallType
  <1>16. CASE Create(g) \/ Open(g)
    <2>1. NoName \in Names \cup {NoName} /\ "create" \in {"create", "find"} /\ "find" \in {"create", "find"}
          /\ "create" \in {"create", "open"} /\ "open" \in {"create", "open"}
      OBVIOUS
    <2> QED
      BY <1>15, <1>16, <2>1 DEF Create, Open
  <1>17. ASSUME NEW s \in Slots, Close(g, s)
        PROVE  CallOK(thread'[g])
    BY <1>0, <1>17 DEF Close
  <1>18. ASSUME NEW s \in Slots, Use(g, s)
        PROVE  CallOK(thread'[g])
    <2> DEFINE o == entry[s].object
    <2>1. o \in Objects /\ thread'[g] = [Idle EXCEPT !.at = "using", !.object = o]
      BY <1>0, <1>18 DEF Use, Typed, TableTyped, EntryType
    <2>2. Idle.holds = NoSlot
      BY DEF Idle
    <2> HIDE DEF o
    <2> QED
      BY <1>1, <2>1, <2>2 DEF CallOK, CallType
  <1>19. ASSUME NEW s \in Slots, NEW call \in {"duplicate", "close source"}, Duplicate(g, s, call)
        PROVE  CallOK(thread'[g])
    <2> DEFINE o == entry[s].object
    <2>1. /\ o \in Objects \cup {NoObject}
          /\ thread'[g] = [Idle EXCEPT !.at = IF o = NoObject THEN "check" ELSE "add",
                                       !.call = call, !.handle = s, !.object = o, !.holds = s]
      BY <1>0, <1>19 DEF Duplicate, Typed, TableTyped, EntryType
    <2> HIDE DEF o
    <2> DEFINE u == thread'[g]
    <2>2. CASE o = NoObject
      <3>1. /\ u \in CallType /\ u.at = "check" /\ u.handle = s
            /\ u.object = NoObject /\ u.holds = s
        BY <1>1, <2>1, <2>2 DEF CallType
      <3> QED
        BY <3>1 DEF CallOK
    <2>3. CASE o # NoObject
      <3>1. /\ u \in CallType /\ u.at = "add" /\ u.handle = s
            /\ u.object \in Objects /\ u.holds = s
        BY <1>1, <2>1, <2>3 DEF CallType
      <3> QED
        BY <3>1 DEF CallOK
    <2> QED
      BY <2>2, <2>3
  <1> QED
    BY <1>2, <1>3, <1>4, <1>5, <1>6, <1>7, <1>8, <1>9, <1>10, <1>11, <1>12, <1>13, <1>14, <1>16, <1>17, <1>18, <1>19, <1>a
       DEF Step, Reads

LEMMA ThreadTypedStep ==
  ASSUME Typed, NEW g \in Guests, Step(g)
  PROVE  ThreadTyped'
  <1>1. ThreadTyped
    BY DEF Typed
  <1>2. \A h \in Guests : CallOK(thread'[h])
    BY <1>1, StepOfOne, CallOKStep DEF ThreadTyped
  <1>3. \A h \in Guests : thread'[h] \in CallType
    BY <1>2 DEF CallOK
  <1>4. thread' \in [Guests -> CallType]
    BY <1>1, <1>3, StepOfOne
  <1> QED
    BY <1>2, <1>4 DEF ThreadTyped

-----------------------------------------------------------------------------
(* The six ways a step changes who refers to which object.                 *)

SameObjects == \A s \in Slots : entry'[s].object = entry[s].object

Keep(g) ==
  /\ SameObjects /\ UNCHANGED <<xobject, names>>
  /\ thread'[g].object = thread[g].object
Gain(g) ==
  /\ SameObjects /\ UNCHANGED names
  /\ \E s \in Slots :
       /\ entry[s].object \in Objects /\ Retain(entry[s].object)
       /\ thread[g].object = NoObject /\ thread'[g].object = entry[s].object
Drop(g) ==
  /\ SameObjects /\ UNCHANGED names
  /\ thread[g].object \in Objects /\ Release(thread[g].object)
  /\ thread'[g].object = NoObject
RemoveBy(g) ==
  /\ \E s \in Slots : entry[s].object \in Objects /\ RemoveHandle(s)
  /\ thread'[g].object = thread[g].object

LEMMA ObjectAt ==
  ASSUME Typed, NEW g \in Guests
  PROVE  /\ thread[g].at \in WithObject => thread[g].object \in Objects
         /\ thread[g].at \notin WithObject => thread[g].object = NoObject
  BY DEF Typed, ThreadTyped, CallOK, CallType

LEMMA EntryTyped ==
  ASSUME Typed
  PROVE  /\ entry \in [Slots -> EntryType]
         /\ \A s \in Slots : entry[s].object \in Objects \cup {NoObject} /\ entry[s].count \in Nat
  BY DEF Typed, TableTyped, EntryType

LEMMA ReleaseHandleKind ==
  ASSUME Typed, Filled, NEW s \in Slots \cup {NoSlot}, ReleaseHandle(s)
  PROVE  \/ SameObjects /\ UNCHANGED <<xobject, names>>
         \/ s \in Slots /\ entry[s].object \in Objects /\ RemoveHandle(s)
  BY EntryTyped DEF ReleaseHandle, Live, SameObjects, Filled, EntryType

LEMMA IncrementedKind ==
  ASSUME Typed, NEW s, entry' = IF Live(s) THEN Incremented(s) ELSE entry
  PROVE  SameObjects
  BY EntryTyped DEF Live, Incremented, SameObjects, EntryType

LEMMA PrimaryRead ==
  ASSUME Typed, NEW g \in Guests, Reads(g)
  PROVE  /\ UNCHANGED <<entry, xobject, names, owned, mishaps, crashed>>
         /\ thread'[g].object = thread[g].object /\ thread'[g].holds = thread[g].holds
         /\ thread'[g].at \in {"retaining", "releasing", "returning"}
  <1>1. PICK from \in {"retain", "release", "found"}, to \in {"retaining", "releasing", "returning"} :
          ReadPrimary(g, from, to)
    BY DEF Reads
  <1>2. thread \in [Guests -> CallType] /\ thread[g] \in CallType
    BY DEF Typed, ThreadTyped
  <1>3. thread'[g] = [thread[g] EXCEPT !.primary = Primary(thread[g].object), !.at = to]
    BY <1>1, <1>2 DEF ReadPrimary
  <1> QED
    BY <1>1, <1>2, <1>3 DEF ReadPrimary, CallType

LEMMA KindOfStep ==
  ASSUME Typed, Filled, NEW g \in Guests, Step(g)
  PROVE  \/ Keep(g) \/ Gain(g) \/ Drop(g) \/ RemoveBy(g)
         \/ CreateObject(g) \/ AddDuplicate(g) \/ SetAttributes(g)
  <1> DEFINE t == thread[g]
             Goal == Keep(g) \/ Gain(g) \/ Drop(g) \/ RemoveBy(g)
  <1>0. /\ CallOK(t) /\ t \in CallType /\ thread \in [Guests -> CallType]
        /\ entry \in [Slots -> EntryType]
    BY StepStarts, EntryTyped DEF Typed, ThreadTyped
  <1>a. Idle.object = NoObject /\ \A p : [t EXCEPT !.at = p].object = t.object
    BY <1>0 DEF Idle, CallType
  <1> USE DEF WithObject
  <1>1. CASE Create(g) \/ Open(g) \/ FindName(g)
    <2>1. UNCHANGED <<entry, xobject, names>> /\ t.at \in {"idle", "find"}
      BY <1>1 DEF Create, Open, FindName, MayAsk, At
    <2>2. thread'[g].object = NoObject
      <3>1. t.object = NoObject
        BY <2>1, ObjectAt
      <3>2. CASE Create(g) \/ Open(g)
        BY <1>0, <3>2 DEF Create, Open, Enter, Idle
      <3>3. CASE FindName(g)
        BY <1>0, <1>a, <3>1, <3>3 DEF FindName, CallType
      <3> QED
        BY <1>1, <3>2, <3>3
    <2> QED
      BY <2>1, <2>2, ObjectAt DEF Keep, SameObjects
  <1>2. CASE Lookup(g)
    <2>1. t.at = "lookup" /\ t.handle \in Slots /\ t.object = NoObject
          /\ UNCHANGED <<entry, names>>
      BY <1>0, <1>2, ObjectAt DEF Lookup, At, CallOK, WithSlot
    <2>2. CASE entry[t.handle].object = NoObject
      <3>1. (thread'[g] = Idle \/ thread'[g] = [t EXCEPT !.at = "again"]) /\ UNCHANGED xobject
        BY <1>0, <1>2, <2>2 DEF Lookup, Give, Goto
      <3> QED
        BY <1>a, <2>1, <3>1 DEF Keep, SameObjects
    <2>3. CASE entry[t.handle].object # NoObject
      <3>1. /\ thread'[g] = [t EXCEPT !.object = entry[t.handle].object, !.at = "retain"]
            /\ Retain(entry[t.handle].object)
        BY <1>0, <1>2, <2>3 DEF Lookup
      <3>2. thread'[g].object = entry[t.handle].object /\ entry[t.handle].object \in Objects
        BY <1>0, <2>1, <2>3, <3>1, EntryTyped DEF CallType
      <3> QED
        BY <2>1, <3>1, <3>2 DEF Gain, SameObjects
    <2> QED
      BY <2>2, <2>3
  <1>3. CASE LookupAgain(g)
    <2>1. t.at = "again" /\ t.handle \in Slots /\ t.object = NoObject
          /\ UNCHANGED <<entry, names>>
      BY <1>0, <1>3, ObjectAt DEF LookupAgain, At, CallOK, WithSlot
    <2>2. CASE entry[t.handle].object = NoObject
      BY <1>0, <1>3, <2>1, <2>2 DEF LookupAgain, Keep, SameObjects, CallType
    <2>3. CASE entry[t.handle].object # NoObject
      <3>1. /\ thread'[g] = [t EXCEPT !.handle = NoSlot, !.object = entry[t.handle].object, !.at = "release"]
            /\ Retain(entry[t.handle].object)
        BY <1>0, <1>3, <2>3 DEF LookupAgain
      <3>2. thread'[g].object = entry[t.handle].object /\ entry[t.handle].object \in Objects
        BY <1>0, <2>1, <2>3, <3>1, EntryTyped DEF CallType
      <3> QED
        BY <2>1, <3>1, <3>2 DEF Gain, SameObjects
    <2> QED
      BY <2>2, <2>3
  <1>4. CASE RetainFound(g) \/ ReturnFound(g) \/ ReturnCreated(g) \/ Used(g)
    <2>1. t.object \in Objects
      BY <1>4, ObjectAt DEF RetainFound, ReturnFound, ReturnCreated, Used, At
    <2>2. Release(t.object) /\ UNCHANGED names
      BY <1>4 DEF RetainFound, ReturnFound, ReturnCreated, Used
    <2>3. thread'[g].object = NoObject
      <3>1. CASE thread'[g] = Idle
        BY <1>a, <3>1
      <3>2. CASE RetainFound(g) /\ thread'[g] # Idle
        <4>1. \E got : thread'[g] = [t EXCEPT !.object = NoObject, !.holds = got, !.primary = NoSlot, !.at = "again"]
          BY <3>2, FoundRetained DEF Typed
        <4> QED
          BY <1>0, <4>1 DEF CallType
      <3> QED
        BY <1>0, <1>4, <3>1, <3>2 DEF ReturnFound, ReturnCreated, Used, Give
    <2>4. SameObjects
      BY <1>4, IncrementedKind DEF RetainFound, ReturnFound, ReturnCreated, Used, SameObjects
    <2> QED
      BY <2>1, <2>2, <2>3, <2>4 DEF Drop
  <1>5. CASE ReleaseFound(g)
    <2>2. t.primary \in Slots \cup {NoSlot} /\ ReleaseHandle(t.primary)
      BY <1>0, <1>5 DEF ReleaseFound, CallType
    <2>3. thread'[g].object = t.object
      BY <1>0, <1>5 DEF ReleaseFound, CallType
    <2> QED
      BY <2>2, <2>3, ReleaseHandleKind DEF Keep, RemoveBy
  <1>6. ASSUME NEW s \in Slots, Close(g, s)
        PROVE  Goal
    BY <1>6, ReleaseHandleKind DEF Close, Keep, RemoveBy
  <1>7. ASSUME NEW s \in Slots, Use(g, s)
        PROVE  Goal
    <2>1. t.object = NoObject
      BY <1>7, ObjectAt DEF Use, MayAsk, At
    <2> QED
      BY <1>0, <1>7, <2>1, EntryTyped DEF Use, Gain, SameObjects, Idle
  <1>8. ASSUME NEW s \in Slots, NEW call, Duplicate(g, s, call)
        PROVE  Goal
    <2>1. t.object = NoObject
      BY <1>8, ObjectAt DEF Duplicate, MayAsk, At
    <2>2. thread'[g].object = entry[s].object /\ UNCHANGED <<entry, names>>
      BY <1>0, <1>8 DEF Duplicate, Idle
    <2>3. CASE entry[s].object = NoObject
      BY <1>8, <2>1, <2>2, <2>3 DEF Duplicate, Keep, SameObjects
    <2>4. CASE entry[s].object # NoObject
      BY <1>8, <2>1, <2>2, <2>4, EntryTyped DEF Duplicate, Gain, SameObjects, Retain
    <2> QED
      BY <2>3, <2>4
  <1>9. CASE CheckSource(g)
    <2>1. t.object = NoObject /\ UNCHANGED <<entry, xobject, names>>
      BY <1>9, ObjectAt DEF CheckSource, At
    <2>2. thread'[g].object = NoObject
      <3>1. thread'[g] = Idle \/ thread'[g] = [t EXCEPT !.at = "remove"]
        BY <1>0, <1>9 DEF CheckSource, Goto
      <3> QED
        BY <1>a, <2>1, <3>1
    <2> QED
      BY <2>1, <2>2 DEF Keep, SameObjects
  <1>11. CASE Reads(g)
    BY <1>11, PrimaryRead DEF Keep, SameObjects
  <1>10. CASE RemoveSource(g)
    <2>1. t.object = NoObject /\ t.handle \in Slots
      BY <1>0, <1>10, ObjectAt DEF RemoveSource, At, CallOK, WithSlot
    <2>2. thread'[g].object = NoObject
      BY <1>0, <1>10 DEF RemoveSource, Idle
    <2> QED
      BY <1>10, <2>1, <2>2, EntryTyped DEF RemoveSource, Keep, RemoveBy, SameObjects
  <1> QED
    BY <1>1, <1>2, <1>3, <1>4, <1>5, <1>6, <1>7, <1>8, <1>9, <1>10, <1>11 DEF Step, Reads

-----------------------------------------------------------------------------
(* The sets that the properties count.                                     *)

LEMMA SlotsFinite == IsFiniteSet(Slots) /\ Cardinality(Slots) \in Nat
  <1>1. IsFiniteSet(Slots)
    BY FS_Interval DEF Slots
  <1> QED
    BY <1>1, FS_CardinalityType

LEMMA SetsFinite ==
  ASSUME NEW o, NEW s
  PROVE  /\ IsFiniteSet(Entries(o)) /\ Cardinality(Entries(o)) \in Nat
         /\ IsFiniteSet(Users(o)) /\ Cardinality(Users(o)) \in Nat
         /\ IsFiniteSet(References(s)) /\ Cardinality(References(s)) \in Nat
  <1>1. IsFiniteSet(Entries(o)) /\ IsFiniteSet(Users(o)) /\ IsFiniteSet(References(s))
    BY SlotsFinite, FS_Subset DEF Entries, Users, References
  <1> QED
    BY <1>1, FS_CardinalityType

LEMMA UsersMove ==
  ASSUME ThreadTyped, NEW g \in Guests, Step(g), NEW o
  PROVE  /\ thread[g].object # o /\ thread'[g].object = o =>
              Cardinality(Users(o)') = Cardinality(Users(o)) + 1
         /\ thread[g].object = o /\ thread'[g].object # o =>
              Cardinality(Users(o)') = Cardinality(Users(o)) - 1
         /\ (thread[g].object = o <=> thread'[g].object = o) => Users(o)' = Users(o)
  <1>0. \A h \in Guests \ {g} : thread'[h] = thread[h]
    BY StepOfOne
  <1>1. CASE thread[g].object # o /\ thread'[g].object = o
    <2>1. Users(o)' = Users(o) \cup {g} /\ g \notin Users(o)
      BY <1>0, <1>1 DEF Users
    <2>2. Cardinality(Users(o) \cup {g}) = Cardinality(Users(o)) + 1
      BY <2>1, SetsFinite, FS_AddElement
    <2> QED
      BY <1>1, <2>1, <2>2
  <1>2. CASE thread[g].object = o /\ thread'[g].object # o
    <2>1. Users(o)' = Users(o) \ {g} /\ g \in Users(o)
      BY <1>0, <1>2 DEF Users
    <2>2. Cardinality(Users(o) \ {g}) = Cardinality(Users(o)) - 1
      BY <2>1, SetsFinite, FS_RemoveElement
    <2> QED
      BY <1>2, <2>1, <2>2
  <1>3. CASE thread[g].object = o <=> thread'[g].object = o
    BY <1>0, <1>3 DEF Users
  <1> QED
    BY <1>1, <1>2, <1>3

LEMMA ReferencesMove ==
  ASSUME ThreadTyped, NEW g \in Guests, Step(g), NEW s
  PROVE  /\ thread[g].holds # s /\ thread'[g].holds = s =>
              Cardinality(References(s)') = Cardinality(References(s)) + 1
         /\ thread[g].holds = s /\ thread'[g].holds # s =>
              Cardinality(References(s)') = Cardinality(References(s)) - 1
         /\ (thread[g].holds = s <=> thread'[g].holds = s) => References(s)' = References(s)
  <1>0. \A h \in Guests \ {g} : thread'[h] = thread[h]
    BY StepOfOne
  <1>1. CASE thread[g].holds # s /\ thread'[g].holds = s
    <2>1. References(s)' = References(s) \cup {g} /\ g \notin References(s)
      BY <1>0, <1>1 DEF References
    <2>2. Cardinality(References(s) \cup {g}) = Cardinality(References(s)) + 1
      BY <2>1, SetsFinite, FS_AddElement
    <2> QED
      BY <1>1, <2>1, <2>2
  <1>2. CASE thread[g].holds = s /\ thread'[g].holds # s
    <2>1. References(s)' = References(s) \ {g} /\ g \in References(s)
      BY <1>0, <1>2 DEF References
    <2>2. Cardinality(References(s) \ {g}) = Cardinality(References(s)) - 1
      BY <2>1, SetsFinite, FS_RemoveElement
    <2> QED
      BY <1>2, <2>1, <2>2
  <1>3. CASE thread[g].holds = s <=> thread'[g].holds = s
    BY <1>0, <1>3 DEF References
  <1> QED
    BY <1>1, <1>2, <1>3

(* The entries of an object when the slot s gets it or loses it.           *)
LEMMA EntriesMove ==
  ASSUME NEW o, NEW s \in Slots, \A t \in Slots \ {s} : entry'[t].object = entry[t].object
  PROVE  /\ entry[s].object # o /\ entry'[s].object = o =>
              /\ Entries(o)' = Entries(o) \cup {s} /\ s \notin Entries(o)
              /\ Cardinality(Entries(o)') = Cardinality(Entries(o)) + 1
         /\ entry[s].object = o /\ entry'[s].object # o =>
              /\ Entries(o)' = Entries(o) \ {s} /\ s \in Entries(o)
              /\ Cardinality(Entries(o)') = Cardinality(Entries(o)) - 1
         /\ (entry[s].object = o <=> entry'[s].object = o) => Entries(o)' = Entries(o)
  <1>1. CASE entry[s].object # o /\ entry'[s].object = o
    <2>1. Entries(o)' = Entries(o) \cup {s} /\ s \notin Entries(o)
      BY <1>1 DEF Entries
    <2>2. Cardinality(Entries(o) \cup {s}) = Cardinality(Entries(o)) + 1
      BY <2>1, SetsFinite, FS_AddElement
    <2> QED
      BY <1>1, <2>1, <2>2
  <1>2. CASE entry[s].object = o /\ entry'[s].object # o
    <2>1. Entries(o)' = Entries(o) \ {s} /\ s \in Entries(o)
      BY <1>2 DEF Entries
    <2>2. Cardinality(Entries(o) \ {s}) = Cardinality(Entries(o)) - 1
      BY <2>1, SetsFinite, FS_RemoveElement
    <2> QED
      BY <1>2, <2>1, <2>2
  <1>3. CASE entry[s].object = o <=> entry'[s].object = o
    BY <1>3 DEF Entries
  <1> QED
    BY <1>1, <1>2, <1>3

LEMMA EntriesKept ==
  ASSUME SameObjects, NEW o
  PROVE  Entries(o)' = Entries(o)
  BY DEF SameObjects, Entries

(* An object in the table or in a call has a reference.                    *)
LEMMA Referenced ==
  ASSUME PointersExact, NEW o \in Objects
  PROVE  /\ xobject[o].pointers = Cardinality(Entries(o)) + Cardinality(Users(o))
         /\ \A s \in Slots : entry[s].object = o => Cardinality(Entries(o)) > 0
         /\ \A g \in Guests : thread[g].object = o => Cardinality(Users(o)) > 0
  <1>1. \A s \in Slots : entry[s].object = o => Cardinality(Entries(o)) > 0
    <2>1. ASSUME NEW s \in Slots, entry[s].object = o, Cardinality(Entries(o)) = 0
          PROVE  FALSE
      <3>1. s \in Entries(o)
        BY <2>1 DEF Entries
      <3> QED
        BY <2>1, <3>1, SetsFinite, FS_EmptySet
    <2> QED
      BY <2>1, SetsFinite
  <1>2. \A g \in Guests : thread[g].object = o => Cardinality(Users(o)) > 0
    <2>1. ASSUME NEW g \in Guests, thread[g].object = o, Cardinality(Users(o)) = 0
          PROVE  FALSE
      <3>1. g \in Users(o)
        BY <2>1 DEF Users
      <3> QED
        BY <2>1, <3>1, SetsFinite, FS_EmptySet
    <2> QED
      BY <2>1, SetsFinite
  <1> QED
    BY <1>1, <1>2 DEF PointersExact

-----------------------------------------------------------------------------
(* Pointers and lists of handles.                                          *)

Right(x, E, u) ==
  /\ x \in ObjectType /\ x.pointers = Cardinality(E) + u
  /\ ToSet(x.handles) = E /\ IsInjective(x.handles)
Exact(o) == Right(xobject[o], Entries(o), Cardinality(Users(o)))

LEMMA ExactMeans ==
  Typed /\ PointersExact /\ Listed <=> TableTyped /\ ThreadTyped /\ ObjectsTyped /\ \A o \in Objects : Exact(o)
  BY DEF Typed, PointersExact, Listed, ObjectsTyped, Exact, Right

LEMMA ReleasedRight ==
  ASSUME NEW x \in ObjectType, NEW E, IsFiniteSet(E), NEW u \in Nat,
         x.pointers - 1 = Cardinality(E) + u, ToSet(x.handles) = E, IsInjective(x.handles)
  PROVE  /\ Right(Released(x), E, u)
         /\ Released(x).name = x.name \/ (E = {} /\ Released(x).name = NoName)
  <1>1. Cardinality(E) \in Nat /\ x.pointers \in Nat
    BY FS_CardinalityType DEF ObjectType
  <1>2. CASE x.pointers = 1
    <2>1. E = {} /\ u = 0
      BY <1>1, <1>2, FS_EmptySet
    <2>2. /\ Unallocated \in ObjectType /\ Unallocated.pointers = 0 /\ Unallocated.handles = <<>>
          /\ Unallocated.name = NoName
      BY DEF Unallocated, ObjectType, NoSlot
    <2>3. ToSet(<<>>) = {} /\ IsInjective(<<>>)
      BY DEF ToSet, IsInjective
    <2>4. Released(x) = Unallocated
      BY <1>2 DEF Released
    <2> QED
      BY <2>1, <2>2, <2>3, <2>4, FS_EmptySet DEF Right
  <1>3. CASE x.pointers # 1
    <2>1. /\ Released(x) \in ObjectType /\ Released(x).pointers = x.pointers - 1
          /\ Released(x).handles = x.handles /\ Released(x).name = x.name
      BY <1>1, <1>3 DEF Released, ObjectType
    <2>2. Released(x).pointers = Cardinality(E) + u
      BY <1>1, <2>1
    <2> QED
      BY <2>1, <2>2 DEF Right
  <1> QED
    BY <1>2, <1>3

(* An object that neither the entries nor the calls nor the step touches.  *)
LEMMA ExactKept ==
  ASSUME ThreadTyped, NEW g \in Guests, Step(g), NEW o \in Objects, Exact(o), Entries(o)' = Entries(o),
         thread[g].object = o <=> thread'[g].object = o,
         xobject'[o] = xobject[o]
  PROVE  Exact(o)'
  BY UsersMove DEF Exact

LEMMA GainExact ==
  ASSUME ThreadTyped, ObjectsTyped, NEW g \in Guests, Step(g), Gain(g), NEW o \in Objects, Exact(o)
  PROVE  Exact(o)'
  <1>1. Entries(o)' = Entries(o)
    BY EntriesKept DEF Gain
  <1>2. PICK p \in Objects : thread[g].object = NoObject /\ thread'[g].object = p /\ Retain(p)
    BY DEF Gain
  <1>3. CASE o = p
    <2>1. /\ xobject'[o] \in ObjectType
          /\ xobject'[o].pointers = xobject[o].pointers + 1
          /\ xobject'[o].handles = xobject[o].handles
      <3>1. xobject[o] \in ObjectType /\ xobject[o].pointers + 1 \in Nat
        BY DEF ObjectsTyped, ObjectType
      <3>2. xobject'[o] = [xobject[o] EXCEPT !.pointers = xobject[o].pointers + 1]
        BY <1>2, <1>3 DEF Retain, ObjectsTyped
      <3> QED
        BY <3>1, <3>2 DEF ObjectType
    <2>2. Cardinality(Users(o)') = Cardinality(Users(o)) + 1
      BY <1>2, <1>3, UsersMove
    <2> QED
      BY <1>1, <2>1, <2>2, SetsFinite DEF Exact, Right
  <1>4. CASE o # p
    BY <1>1, <1>2, <1>4, ExactKept DEF Retain, ObjectsTyped
  <1> QED
    BY <1>3, <1>4

LEMMA DropExact ==
  ASSUME ThreadTyped, ObjectsTyped, NEW g \in Guests, Step(g), Drop(g), NEW o \in Objects, Exact(o)
  PROVE  Exact(o)'
  <1>1. Entries(o)' = Entries(o)
    BY EntriesKept DEF Drop
  <1>2. PICK p \in Objects : thread[g].object = p /\ thread'[g].object = NoObject /\ Release(p)
    BY DEF Drop
  <1>3. CASE o = p
    <2>1. xobject'[o] = Released(xobject[o]) /\ xobject[o] \in ObjectType
      BY <1>2, <1>3 DEF Release, ObjectsTyped
    <2>2. Cardinality(Users(o)') = Cardinality(Users(o)) - 1
      BY <1>2, <1>3, UsersMove
    <2>3. Cardinality(Users(o)') \in Nat
      <3>1. IsFiniteSet(Users(o)')
        BY FS_Subset DEF Users
      <3> QED
        BY <3>1, FS_CardinalityType
    <2>4. xobject[o].pointers - 1 = Cardinality(Entries(o)) + Cardinality(Users(o)')
      <3>1. xobject[o].pointers = Cardinality(Entries(o)) + Cardinality(Users(o))
        BY DEF Exact, Right
      <3> QED
        BY <2>2, <3>1, SetsFinite
    <2>5. Right(Released(xobject[o]), Entries(o), Cardinality(Users(o)'))
      BY <2>1, <2>3, <2>4, SetsFinite, ReleasedRight DEF Exact, Right
    <2> QED
      BY <1>1, <2>1, <2>5 DEF Exact
  <1>4. CASE o # p
    BY <1>1, <1>2, <1>4, ExactKept DEF Release, ObjectsTyped
  <1> QED
    BY <1>3, <1>4

(* Removing a handle takes one entry and one pointer.                      *)
LEMMA WithoutHandleRight ==
  ASSUME NEW x \in ObjectType, NEW s \in Slots, IsInjective(x.handles)
  PROVE  /\ WithoutHandle(x, s) \in ObjectType
         /\ WithoutHandle(x, s).pointers = x.pointers /\ WithoutHandle(x, s).name = x.name
         /\ ToSet(WithoutHandle(x, s).handles) = ToSet(x.handles) \ {s}
         /\ IsInjective(WithoutHandle(x, s).handles)
  <1>1. x.handles \in Seq(Slots)
    BY DEF ObjectType
  <1>2. /\ RemoveFirst(x.handles, s) \in Seq(Slots) /\ IsInjective(RemoveFirst(x.handles, s))
        /\ ToSet(RemoveFirst(x.handles, s)) = ToSet(x.handles) \ {s}
    BY <1>1, RemoveFirstDistinct
  <1>3. /\ WithoutHandle(x, s).handles = RemoveFirst(x.handles, s)
        /\ WithoutHandle(x, s).pointers = x.pointers /\ WithoutHandle(x, s).name = x.name
        /\ WithoutHandle(x, s) \in ObjectType
    BY <1>2 DEF WithoutHandle, ObjectType
  <1> QED
    BY <1>2, <1>3

LEMMA WithHandleRight ==
  ASSUME NEW x \in ObjectType, NEW s \in Slots, IsInjective(x.handles), s \notin ToSet(x.handles)
  PROVE  /\ WithHandle(x, s) \in ObjectType
         /\ WithHandle(x, s).pointers = x.pointers + 1 /\ WithHandle(x, s).name = x.name
         /\ ToSet(WithHandle(x, s).handles) = ToSet(x.handles) \cup {s}
         /\ IsInjective(WithHandle(x, s).handles)
  <1>1. x.handles \in Seq(Slots)
    BY DEF ObjectType
  <1>2. /\ Append(x.handles, s) \in Seq(Slots) /\ IsInjective(Append(x.handles, s))
        /\ ToSet(Append(x.handles, s)) = ToSet(x.handles) \cup {s}
    BY <1>1, AppendDistinct, AppendProperties
  <1>3. /\ WithHandle(x, s).handles = Append(x.handles, s)
        /\ WithHandle(x, s).pointers = x.pointers + 1 /\ WithHandle(x, s).name = x.name
        /\ WithHandle(x, s) \in ObjectType
    <2>1. x.pointers + 1 \in Nat
      BY DEF ObjectType
    <2> QED
      BY <1>2, <2>1 DEF WithHandle, ObjectType
  <1> QED
    BY <1>2, <1>3

LEMMA RemoveExact ==
  ASSUME ThreadTyped, ObjectsTyped, entry \in [Slots -> EntryType], NEW g \in Guests, Step(g),
         thread'[g].object = thread[g].object, NEW s \in Slots, entry[s].object \in Objects,
         RemoveHandle(s), NEW o \in Objects, Exact(o)
  PROVE  Exact(o)'
  <1>1. /\ entry'[s].object = NoObject
        /\ \A t \in Slots \ {s} : entry'[t].object = entry[t].object
    BY DEF RemoveHandle, Empty, EntryType
  <1>2. Users(o)' = Users(o)
    BY UsersMove
  <1>3. CASE o = entry[s].object
    <2> DEFINE x == WithoutHandle(xobject[o], s)
    <2>1. xobject'[o] = Released(x)
      BY <1>3 DEF RemoveHandle, ObjectsTyped
    <2>2. xobject[o] \in ObjectType /\ ToSet(xobject[o].handles) = Entries(o)
          /\ IsInjective(xobject[o].handles)
          /\ xobject[o].pointers = Cardinality(Entries(o)) + Cardinality(Users(o))
      BY DEF Exact, Right
    <2>3. /\ x \in ObjectType /\ x.pointers = xobject[o].pointers
          /\ ToSet(x.handles) = Entries(o) \ {s} /\ IsInjective(x.handles)
      BY <2>2, WithoutHandleRight
    <2>4. /\ Entries(o)' = Entries(o) \ {s}
          /\ Cardinality(Entries(o)') = Cardinality(Entries(o)) - 1
      BY <1>1, <1>3, EntriesMove
    <2> HIDE DEF x
    <2>5. IsFiniteSet(Entries(o) \ {s})
      BY SetsFinite, FS_Subset
    <2>6. x.pointers - 1 = Cardinality(Entries(o) \ {s}) + Cardinality(Users(o))
      BY <2>2, <2>3, <2>4, SetsFinite
    <2>7. Right(Released(x), Entries(o) \ {s}, Cardinality(Users(o)))
      BY <2>3, <2>5, <2>6, SetsFinite, ReleasedRight
    <2> QED
      BY <1>2, <2>1, <2>4, <2>7 DEF Exact
  <1>4. CASE o # entry[s].object
    <2>1. Entries(o)' = Entries(o)
      BY <1>1, <1>4, EntriesMove
    <2>2. xobject'[o] = xobject[o]
      BY <1>4 DEF RemoveHandle, ObjectsTyped
    <2> QED
      BY <2>1, <2>2, ExactKept
  <1> QED
    BY <1>3, <1>4

LEMMA FreeSlotEmpty ==
  ASSUME NEW s \in Slots, IsFreeSlot(s)
  PROVE  entry[s].object = NoObject
  BY DEF IsFreeSlot

LEMMA CreateExact ==
  ASSUME ThreadTyped, ObjectsTyped, entry \in [Slots -> EntryType], NEW g \in Guests, Step(g),
         CreateObject(g), thread[g].object = NoObject, NEW o \in Objects, Exact(o)
  PROVE  Exact(o)'
  <1>1. PICK p \in Objects, s \in Slots :
          /\ xobject[p] = Unallocated /\ IsFreeSlot(s)
          /\ entry' = [entry EXCEPT ![s] = [object |-> p, count |-> 1]]
          /\ xobject' = [xobject EXCEPT ![p] = WithHandle([@ EXCEPT !.pointers = 1], s)]
          /\ thread'[g] = [thread[g] EXCEPT
               !.object = p, !.holds = s,
               !.at = IF thread[g].name = NoName THEN "return" ELSE "attributes"]
    BY DEF CreateObject, ThreadTyped
  <1>a. thread'[g].object = p
    <2>1. thread[g] \in CallType
      BY DEF ThreadTyped
    <2> QED
      BY <1>1, <2>1 DEF ThreadTyped, CallType
  <1>2. /\ entry[s].object = NoObject /\ entry'[s].object = p
        /\ \A t \in Slots \ {s} : entry'[t].object = entry[t].object
    BY <1>1, FreeSlotEmpty DEF EntryType
  <1>3. CASE o = p
    <2> DEFINE x == [Unallocated EXCEPT !.pointers = 1]
    <2>1. /\ x \in ObjectType /\ x.pointers = 1 /\ x.handles = <<>>
          /\ Unallocated.pointers = 0 /\ Unallocated.handles = <<>>
      <3>1. <<>> \in Seq(Slots) /\ 1 \in Nat
        OBVIOUS
      <3> QED
        BY <3>1 DEF Unallocated, ObjectType
    <2>2. ToSet(<<>>) = {} /\ IsInjective(<<>>)
      BY DEF ToSet, IsInjective
    <2>3. Entries(o) = {} /\ Cardinality(Entries(o)) = 0 /\ Cardinality(Users(o)) = 0
      <3>1. Entries(o) = {} /\ 0 = Cardinality(Entries(o)) + Cardinality(Users(o))
        BY <1>1, <1>3, <2>1, <2>2 DEF Exact, Right
      <3> QED
        BY <3>1, SetsFinite
    <2>4. xobject'[o] = WithHandle(x, s)
      BY <1>1, <1>3 DEF ObjectsTyped
    <2> HIDE DEF x
    <2>5. /\ WithHandle(x, s) \in ObjectType /\ WithHandle(x, s).pointers = 2
          /\ ToSet(WithHandle(x, s).handles) = {s} /\ IsInjective(WithHandle(x, s).handles)
      <3>1. IsInjective(x.handles) /\ s \notin ToSet(x.handles) /\ ToSet(x.handles) = {}
        BY <2>1, <2>2
      <3>2. {} \cup {s} = {s}
        OBVIOUS
      <3>3. /\ WithHandle(x, s) \in ObjectType /\ WithHandle(x, s).pointers = x.pointers + 1
            /\ ToSet(WithHandle(x, s).handles) = ToSet(x.handles) \cup {s}
            /\ IsInjective(WithHandle(x, s).handles)
        BY <2>1, <3>1, WithHandleRight
      <3> QED
        BY <2>1, <3>1, <3>2, <3>3
    <2>6. Entries(o)' = {s} /\ Cardinality(Entries(o)') = 1
      <3>1. entry[s].object # o /\ entry'[s].object = o
        BY <1>2, <1>3
      <3>2. {} \cup {s} = {s} /\ Cardinality({s}) = 1
        BY FS_Singleton
      <3>3. Entries(o)' = Entries(o) \cup {s}
        BY <1>2, <3>1, EntriesMove
      <3> QED
        BY <2>3, <3>2, <3>3
    <2>7. Cardinality(Users(o)') = 1
      BY <1>a, <1>3, <2>3, UsersMove
    <2> QED
      BY <2>4, <2>5, <2>6, <2>7 DEF Exact, Right
  <1>4. CASE o # p
    <2>1. Entries(o)' = Entries(o)
      BY <1>2, <1>4, EntriesMove
    <2>2. xobject'[o] = xobject[o]
      BY <1>1, <1>4 DEF ObjectsTyped
    <2> QED
      BY <1>a, <1>4, <2>1, <2>2, ExactKept
  <1> QED
    BY <1>3, <1>4

LEMMA AddExact ==
  ASSUME ThreadTyped, ObjectsTyped, entry \in [Slots -> EntryType], NEW g \in Guests, Step(g),
         AddDuplicate(g), NEW o \in Objects, Exact(o)
  PROVE  Exact(o)'
  <1> DEFINE p == thread[g].object
  <1>1. PICK s \in Slots :
          /\ IsFreeSlot(s)
          /\ entry' = [entry EXCEPT ![s] = [object |-> p, count |-> 1]]
          /\ xobject' = [xobject EXCEPT ![p] = Released(WithHandle(@, s))]
    BY DEF AddDuplicate
  <1>2. p \in Objects /\ thread'[g].object = NoObject
    <2>1. thread[g].at = "add" /\ thread[g] \in CallType /\ CallOK(thread[g])
      BY DEF AddDuplicate, At, ThreadTyped
    <2>2. thread'[g] = [thread[g] EXCEPT !.object = NoObject, !.at = "check"]
      BY DEF AddDuplicate, ThreadTyped
    <2> QED
      BY <2>1, <2>2 DEF CallType, CallOK, WithObject
  <1>3. /\ entry[s].object = NoObject /\ entry'[s].object = p
        /\ \A t \in Slots \ {s} : entry'[t].object = entry[t].object
    BY <1>1, FreeSlotEmpty DEF EntryType
  <1>4. CASE o = p
    <2> DEFINE x == xobject[o]
               y == WithHandle(x, s)
    <2>1. /\ x \in ObjectType /\ x.pointers = Cardinality(Entries(o)) + Cardinality(Users(o))
          /\ ToSet(x.handles) = Entries(o) /\ IsInjective(x.handles)
      BY DEF Exact, Right
    <2>2. /\ Entries(o)' = Entries(o) \cup {s} /\ s \notin Entries(o)
          /\ Cardinality(Entries(o)') = Cardinality(Entries(o)) + 1
      BY <1>2, <1>3, <1>4, EntriesMove
    <2>3. /\ y \in ObjectType /\ y.pointers = x.pointers + 1
          /\ ToSet(y.handles) = Entries(o) \cup {s} /\ IsInjective(y.handles)
      BY <2>1, <2>2, WithHandleRight
    <2>4. xobject'[o] = Released(y)
      BY <1>1, <1>4 DEF ObjectsTyped
    <2> HIDE DEF x, y
    <2>5. Cardinality(Users(o)') = Cardinality(Users(o)) - 1
      BY <1>2, <1>4, UsersMove
    <2>6. Cardinality(Users(o)') \in Nat
      <3>1. IsFiniteSet(Users(o)')
        BY FS_Subset DEF Users
      <3> QED
        BY <3>1, FS_CardinalityType
    <2>7. y.pointers - 1 = Cardinality(Entries(o)') + Cardinality(Users(o)')
      BY <2>1, <2>2, <2>3, <2>5, SetsFinite
    <2>8. IsFiniteSet(Entries(o)')
      <3>1. IsFiniteSet(Entries(o))
        BY SetsFinite
      <3>2. IsFiniteSet(Entries(o) \cup {s})
        BY <3>1, FS_AddElement
      <3> QED
        BY <2>2, <3>2
    <2>9. Right(Released(y), Entries(o)', Cardinality(Users(o)'))
      BY <2>2, <2>3, <2>6, <2>7, <2>8, ReleasedRight
    <2> QED
      BY <2>4, <2>9 DEF Exact
  <1>5. CASE o # p
    <2>1. Entries(o)' = Entries(o)
      <3>1. entry[s].object # o /\ entry'[s].object # o
        BY <1>3, <1>5
      <3> QED
        BY <1>3, <3>1, EntriesMove
    <2>2. xobject'[o] = xobject[o]
      BY <1>1, <1>5 DEF ObjectsTyped
    <2> QED
      BY <1>2, <1>5, <2>1, <2>2, ExactKept
  <1> QED
    BY <1>4, <1>5

LEMMA NameExact ==
  ASSUME ThreadTyped, ObjectsTyped, NEW g \in Guests, Step(g), SetAttributes(g),
         NEW o \in Objects, Exact(o)
  PROVE  Exact(o)'
  <1> DEFINE p == thread[g].object
             n == thread[g].name
  <1>1. /\ thread[g] \in CallType /\ n \in Names
        /\ thread'[g] = [thread[g] EXCEPT !.at = "return"]
    BY DEF SetAttributes, At, Goto, ThreadTyped, CallOK, WithName
  <1>2. thread'[g].object = p
    BY <1>1 DEF CallType
  <1>3. Entries(o)' = Entries(o)
    BY DEF SetAttributes, Entries
  <1>4. CASE o = p
    <2>1. xobject[o] \in ObjectType /\ xobject'[o] = [xobject[o] EXCEPT !.name = n]
      BY <1>4 DEF SetAttributes, ObjectsTyped
    <2> HIDE DEF n
    <2>2. /\ xobject'[o] \in ObjectType /\ xobject'[o].pointers = xobject[o].pointers
          /\ xobject'[o].handles = xobject[o].handles
      BY <1>1, <2>1 DEF ObjectType
    <2>3. Users(o)' = Users(o)
      BY <1>2, UsersMove
    <2> QED
      BY <1>3, <2>2, <2>3 DEF Exact, Right
  <1>5. CASE o # p
    <2>1. xobject'[o] = xobject[o]
      BY <1>5 DEF SetAttributes, ObjectsTyped
    <2> QED
      BY <1>2, <1>3, <2>1, ExactKept
  <1> QED
    BY <1>4, <1>5

LEMMA ExactStep ==
  ASSUME Typed, Filled, PointersExact, Listed, NEW g \in Guests, Step(g)
  PROVE  ObjectsTyped' /\ PointersExact' /\ Listed'
  <1>0. /\ ThreadTyped /\ ObjectsTyped /\ entry \in [Slots -> EntryType]
        /\ \A o \in Objects : Exact(o)
    BY ExactMeans, EntryTyped DEF Typed
  <1>1. ASSUME NEW o \in Objects
        PROVE  Exact(o)'
    <2>1. CASE Keep(g)
      <3>1. Entries(o)' = Entries(o)
        BY <2>1, EntriesKept DEF Keep
      <3> QED
        BY <1>0, <2>1, <3>1, ExactKept DEF Keep
    <2>2. CASE RemoveBy(g)
      BY <1>0, <2>2, RemoveExact DEF RemoveBy
    <2>3. CASE CreateObject(g)
      <3>1. thread[g].object = NoObject
        BY <2>3, ObjectAt DEF CreateObject, At, WithObject
      <3> QED
        BY <1>0, <2>3, <3>1, CreateExact
    <2> QED
      BY <1>0, <2>1, <2>2, <2>3, KindOfStep, GainExact, DropExact, AddExact, NameExact
  <1>2. xobject' = [o \in Objects |-> xobject'[o]]
    BY <1>0, KindOfStep
       DEF ObjectsTyped, Keep, Gain, Drop, RemoveBy, CreateObject, AddDuplicate, SetAttributes,
           Retain, Release, RemoveHandle
  <1>3. \A o \in Objects : xobject'[o] \in ObjectType
    BY <1>1 DEF Exact, Right
  <1>4. ObjectsTyped'
    BY <1>2, <1>3 DEF ObjectsTyped
  <1> QED
    BY <1>1, <1>4 DEF Exact, Right, PointersExact, Listed

-----------------------------------------------------------------------------
(* The types of the table.                                                 *)

LEMMA RemoveHandleTyped ==
  ASSUME Typed, NEW s \in Slots, RemoveHandle(s)
  PROVE  entry' \in [Slots -> EntryType] /\ names' \in [Names -> Slots \cup {NoSlot}]
  <1>1. Empty \in EntryType
    BY DEF Empty, EntryType
  <1>2. entry' \in [Slots -> EntryType]
    BY <1>1, EntryTyped DEF RemoveHandle
  <1> QED
    BY <1>2 DEF RemoveHandle, Typed, TableTyped

LEMMA ReleaseHandleTyped ==
  ASSUME Typed, NEW s \in Slots \cup {NoSlot}, ReleaseHandle(s)
  PROVE  entry' \in [Slots -> EntryType] /\ names' \in [Names -> Slots \cup {NoSlot}]
  <1>0. entry \in [Slots -> EntryType] /\ names \in [Names -> Slots \cup {NoSlot}]
    BY DEF Typed, TableTyped
  <1>1. CASE UNCHANGED <<entry, names>>
    BY <1>0, <1>1
  <1>2. CASE Live(s) /\ entry[s].count > 1 /\ UNCHANGED names /\ entry' = [entry EXCEPT ![s].count = @ - 1]
    <2>1. s \in Slots /\ entry[s] \in EntryType /\ entry[s].count - 1 \in Nat
      BY <1>0, <1>2 DEF Live, EntryType
    <2>2. [entry[s] EXCEPT !.count = @ - 1] \in EntryType
      BY <2>1 DEF EntryType
    <2> QED
      BY <1>0, <1>2, <2>1, <2>2
  <1>3. CASE Live(s) /\ RemoveHandle(s)
    BY <1>3, RemoveHandleTyped DEF Live
  <1> QED
    BY <1>1, <1>2, <1>3 DEF ReleaseHandle

LEMMA IncrementedTyped ==
  ASSUME Typed, NEW s, entry' = IF Live(s) THEN Incremented(s) ELSE entry
  PROVE  entry' \in [Slots -> EntryType]
  <1>1. CASE Live(s)
    <2>1. s \in Slots /\ entry[s] \in EntryType
      BY <1>1, EntryTyped DEF Live
    <2>2. [entry[s] EXCEPT !.count = @ + 1] \in EntryType
      BY <2>1 DEF EntryType
    <2> QED
      BY <1>1, <2>1, <2>2, EntryTyped DEF Incremented
  <1> QED
    BY <1>1, EntryTyped

LEMMA GiveTyped ==
  ASSUME Typed, NEW g \in Guests, thread[g].call \in {"open", "create"}, NEW s, NEW holds,
         Give(g, s, holds)
  PROVE  /\ owned' \in [Slots -> Nat]
         /\ mishaps' \subseteq {"open", "create", "release", "leak", "close"}
  <1>1. owned' \in [Slots -> Nat]
    <2>1. owned \in [Slots -> Nat] /\ owned' = [owned EXCEPT ![s] = @ + 1]
      BY DEF Give, Typed, TableTyped
    <2>2. CASE s \in Slots
      <3>1. owned[s] + 1 \in Nat
        BY <2>1, <2>2
      <3> QED
        BY <2>1, <2>2, <3>1
    <2>3. CASE s \notin Slots
      <3>1. owned' = owned
        BY <2>1, <2>3
      <3> QED
        BY <2>1, <3>1
    <2> QED
      BY <2>2, <2>3
  <1>2. mishaps' = mishaps \/ mishaps' = mishaps \cup {thread[g].call}
    BY DEF Give
  <1> QED
    BY <1>1, <1>2 DEF Typed, TableTyped

LEMMA TableTypedStep ==
  ASSUME Typed, NEW g \in Guests, Step(g)
  PROVE  TableTyped'
  <1> DEFINE t == thread[g]
             EntryGoal == entry' \in [Slots -> EntryType] /\ names' \in [Names -> Slots \cup {NoSlot}]
             OwnedGoal == /\ owned' \in [Slots -> Nat]
                          /\ mishaps' \subseteq {"open", "create", "release", "leak", "close"}
                          /\ crashed' \in BOOLEAN
  <1>0. /\ CallOK(t) /\ t \in CallType /\ thread \in [Guests -> CallType]
        /\ entry \in [Slots -> EntryType] /\ names \in [Names -> Slots \cup {NoSlot}]
        /\ owned \in [Slots -> Nat] /\ crashed \in BOOLEAN
        /\ mishaps \subseteq {"open", "create", "release", "leak", "close"}
    BY StepStarts DEF Typed, ThreadTyped, TableTyped
  <1>3. ASSUME NEW s \in Slots
        PROVE  /\ [owned EXCEPT ![s] = @ - 1] \in [Slots -> Int]
               /\ owned[s] > 0 => [owned EXCEPT ![s] = @ - 1] \in [Slots -> Nat]
               /\ [owned EXCEPT ![s] = @ + 1] \in [Slots -> Nat]
    BY <1>0
  <1>4. ASSUME NEW s \in Slots, NEW o \in Objects, entry' = [entry EXCEPT ![s] = [object |-> o, count |-> 1]]
        PROVE  entry' \in [Slots -> EntryType]
    BY <1>0, <1>4 DEF EntryType
  <1>5. CASE \/ Create(g) \/ Open(g) \/ FindName(g) \/ Used(g)
             \/ \E s \in Slots : Use(g, s)
    BY <1>0, <1>5 DEF Create, Open, FindName, Used, Use, TableTyped
  <1>6. CASE Lookup(g)
    <2>1. t.call \in {"open", "create"}
      BY <1>0, <1>6 DEF Lookup, At, CallOK
    <2>2. OwnedGoal
      BY <1>0, <1>6, <2>1, GiveTyped DEF Lookup
    <2> QED
      BY <1>0, <1>6, <2>2 DEF Lookup, TableTyped
  <1>7. CASE RetainFound(g)
    <2>1. t.call \in {"open", "create"}
      BY <1>0, <1>7 DEF RetainFound, At, CallOK
    <2>2. OwnedGoal
      BY <1>0, <1>7, <2>1, GiveTyped DEF RetainFound
    <2>3. entry' \in [Slots -> EntryType]
      BY <1>7, IncrementedTyped DEF RetainFound
    <2> QED
      BY <1>0, <1>7, <2>2, <2>3 DEF RetainFound, TableTyped
  <1>8. CASE LookupAgain(g)
    BY <1>0, <1>8 DEF LookupAgain, TableTyped
  <1>9. CASE ReleaseFound(g)
    <2>1. t.primary \in Slots \cup {NoSlot}
      BY <1>0 DEF CallType
    <2>2. EntryGoal
      BY <1>9, <2>1, ReleaseHandleTyped DEF ReleaseFound
    <2> QED
      BY <1>0, <1>9, <2>2 DEF ReleaseFound, TableTyped
  <1>10. CASE ReturnFound(g)
    <2>1. t.call \in {"open", "create"}
      BY <1>0, <1>10 DEF ReturnFound, At, CallOK, Creating
    <2>2. OwnedGoal
      BY <1>0, <1>10, <2>1, GiveTyped DEF ReturnFound
    <2>3. entry' \in [Slots -> EntryType]
      BY <1>10, IncrementedTyped DEF ReturnFound
    <2> QED
      BY <1>0, <1>10, <2>2, <2>3 DEF ReturnFound, TableTyped
  <1>11. CASE CreateObject(g)
    <2>1. entry' \in [Slots -> EntryType]
      BY <1>4, <1>11 DEF CreateObject
    <2> QED
      BY <1>0, <1>11, <2>1 DEF CreateObject, TableTyped
  <1>12. CASE SetAttributes(g)
    <2>1. t.object \in Objects
      BY <1>12, ObjectAt DEF SetAttributes, At, WithObject
    <2>2. names' \in [Names -> Slots \cup {NoSlot}]
      <3>1. Primary(t.object) \in Slots \cup {NoSlot}
        BY <2>1, PrimaryTyped DEF Typed
      <3> QED
        BY <1>0, <1>12, <3>1 DEF SetAttributes
    <2> QED
      BY <1>0, <1>12, <2>2 DEF SetAttributes, TableTyped
  <1>13. CASE ReturnCreated(g)
    <2>1. t.call \in {"open", "create"}
      BY <1>0, <1>13 DEF ReturnCreated, At, CallOK, Creating
    <2>2. OwnedGoal
      BY <1>0, <1>13, <2>1, GiveTyped DEF ReturnCreated
    <2> QED
      BY <1>0, <1>13, <2>2 DEF ReturnCreated, TableTyped
  <1>14. ASSUME NEW s \in Slots, Close(g, s)
         PROVE  TableTyped'
    <2>1. EntryGoal
      BY <1>14, ReleaseHandleTyped DEF Close
    <2> QED
      BY <1>0, <1>3, <1>14, <2>1 DEF Close, TableTyped
  <1>15. ASSUME NEW s \in Slots, NEW call, Duplicate(g, s, call)
         PROVE  TableTyped'
    BY <1>0, <1>3, <1>15 DEF Duplicate, TableTyped
  <1>16. CASE AddDuplicate(g)
    <2>1. t.object \in Objects
      BY <1>16, ObjectAt DEF AddDuplicate, At, WithObject
    <2>2. entry' \in [Slots -> EntryType] /\ owned' \in [Slots -> Nat]
      BY <1>3, <1>4, <1>16, <2>1 DEF AddDuplicate
    <2> QED
      BY <1>0, <1>16, <2>2 DEF AddDuplicate, TableTyped
  <1>17. CASE CheckSource(g)
    <2>1. t.handle \in Slots
      BY <1>0, <1>17 DEF CheckSource, At, CallOK, WithSlot
    <2>2. owned' \in [Slots -> Nat]
      BY <1>0, <1>3, <1>17, <2>1 DEF CheckSource
    <2> QED
      BY <1>0, <1>17, <2>2 DEF CheckSource, TableTyped
  <1>19. CASE Reads(g)
    BY <1>0, <1>19, PrimaryRead DEF TableTyped
  <1>18. CASE RemoveSource(g)
    <2>1. t.handle \in Slots
      BY <1>0, <1>18 DEF RemoveSource, At, CallOK, WithSlot
    <2>2. EntryGoal
      BY <1>0, <1>18, <2>1, RemoveHandleTyped DEF RemoveSource
    <2> QED
      BY <1>0, <1>18, <2>2 DEF RemoveSource, TableTyped
  <1> QED
    BY <1>5, <1>6, <1>7, <1>8, <1>9, <1>10, <1>11, <1>12, <1>13, <1>14, <1>15, <1>16, <1>17, <1>18, <1>19
       DEF Step, Reads

-----------------------------------------------------------------------------
(* A slot has an object exactly if its handle has references.              *)

LEMMA FilledStep ==
  ASSUME Typed, Filled, NEW g \in Guests, Step(g)
  PROVE  Filled'
  <1>0. entry \in [Slots -> EntryType]
    BY EntryTyped
  <1>1. ASSUME NEW s \in Slots, RemoveHandle(s)
        PROVE  Filled'
    BY <1>0, <1>1 DEF RemoveHandle, Empty, Filled
  <1>2. ASSUME NEW s \in Slots \cup {NoSlot}, ReleaseHandle(s)
        PROVE  Filled'
    <2>1. CASE UNCHANGED entry
      BY <2>1 DEF Filled
    <2>2. CASE Live(s) /\ entry[s].count > 1 /\ entry' = [entry EXCEPT ![s].count = @ - 1]
      <3>1. /\ s \in Slots /\ entry'[s].object = entry[s].object
            /\ entry'[s].count > 0 /\ entry[s].count > 0
            /\ \A t \in Slots \ {s} : entry'[t] = entry[t]
        BY <1>0, <2>2 DEF Live, EntryType
      <3> QED
        BY <3>1 DEF Filled
    <2>3. CASE Live(s) /\ RemoveHandle(s)
      BY <1>1, <2>3 DEF Live
    <2> QED
      BY <1>2, <2>1, <2>2, <2>3 DEF ReleaseHandle
  <1>3. ASSUME NEW s, entry' = IF Live(s) THEN Incremented(s) ELSE entry
        PROVE  Filled'
    <2>1. CASE Live(s)
      <3>1. /\ s \in Slots /\ entry'[s].object = entry[s].object
            /\ entry'[s].count > 0 /\ entry[s].count > 0
            /\ \A t \in Slots \ {s} : entry'[t] = entry[t]
        BY <1>0, <1>3, <2>1 DEF Live, EntryType, Incremented
      <3> QED
        BY <3>1 DEF Filled
    <2> QED
      BY <1>3, <2>1 DEF Filled
  <1>4. ASSUME NEW s \in Slots, NEW o \in Objects, entry' = [entry EXCEPT ![s] = [object |-> o, count |-> 1]]
        PROVE  Filled'
    BY <1>0, <1>4 DEF Filled
  <1>5. CASE UNCHANGED entry
    BY <1>5 DEF Filled
  <1>6. CASE ReleaseFound(g)
    <2>1. thread[g].primary \in Slots \cup {NoSlot}
      BY <1>6 DEF Typed, ThreadTyped, CallType
    <2> QED
      BY <1>2, <1>6, <2>1 DEF ReleaseFound
  <1>7. ASSUME NEW s \in Slots, Close(g, s)
        PROVE  Filled'
    BY <1>2, <1>7 DEF Close
  <1>8. CASE AddDuplicate(g)
    <2>1. thread[g].object \in Objects
      BY <1>8, ObjectAt DEF AddDuplicate, At, WithObject
    <2> QED
      BY <1>4, <1>8, <2>1 DEF AddDuplicate
  <1>9. CASE RemoveSource(g)
    <2>1. thread[g].handle \in Slots
      BY <1>9 DEF RemoveSource, At, Typed, ThreadTyped, CallOK, WithSlot
    <2> QED
      BY <1>1, <1>5, <1>9, <2>1 DEF RemoveSource
  <1> QED
    BY <1>3, <1>4, <1>5, <1>6, <1>7, <1>8, <1>9
       DEF Step, Create, Open, FindName, Lookup, ReadPrimary, RetainFound, LookupAgain, ReturnFound,
           CreateObject, SetAttributes, ReturnCreated, Duplicate, CheckSource, Use, Used

-----------------------------------------------------------------------------
(* Names.                                                                  *)

(* The slots of a name: NamesAreLive for one name.                         *)
NameLives(n) ==
  names[n] # NoSlot =>
    /\ entry[names[n]].object # NoObject
    /\ xobject[entry[names[n]].object].name = n

LEMMA NamesTyped ==
  ASSUME Typed, NEW n \in Names
  PROVE  names[n] \in Slots \cup {NoSlot}
  BY DEF Typed, TableTyped

LEMMA ReleasedName ==
  ASSUME NEW x \in ObjectType
  PROVE  Released(x).name \in {x.name, NoName}
  BY DEF Released, Unallocated, ObjectType

(* What a step does to the name of an object.                              *)
LEMMA NamesOfObjects ==
  ASSUME Typed, Filled, Listed, NEW g \in Guests, Step(g), NEW o \in Objects
  PROVE  \/ xobject'[o].name \in {xobject[o].name, NoName}
         \/ SetAttributes(g) /\ thread[g].object = o
  <1>0. xobject \in [Objects -> ObjectType] /\ xobject[o] \in ObjectType
    BY DEF Typed, ObjectsTyped
  <1>1. CASE Keep(g)
    BY <1>1 DEF Keep
  <1>2. CASE Gain(g)
    BY <1>0, <1>2 DEF Gain, Retain, ObjectType
  <1>3. CASE Drop(g)
    BY <1>0, <1>3, ReleasedName DEF Drop, Release
  <1>4. CASE RemoveBy(g)
    <2>1. PICK s \in Slots : entry[s].object \in Objects /\ RemoveHandle(s)
      BY <1>4 DEF RemoveBy
    <2> DEFINE x == WithoutHandle(xobject[o], s)
    <2>2. xobject'[o] = xobject[o] \/ xobject'[o] = Released(x)
      BY <1>0, <2>1 DEF RemoveHandle
    <2>3. x \in ObjectType /\ x.name = xobject[o].name
      BY <1>0, WithoutHandleRight DEF Listed
    <2> QED
      BY <2>2, <2>3, ReleasedName
  <1>5. CASE CreateObject(g)
    <2>1. PICK p \in Objects, s \in Slots :
            /\ xobject[p] = Unallocated
            /\ xobject' = [xobject EXCEPT ![p] = WithHandle([@ EXCEPT !.pointers = 1], s)]
      BY <1>5 DEF CreateObject
    <2>2. CASE o = p
      <3>1. xobject'[o] = WithHandle([Unallocated EXCEPT !.pointers = 1], s)
        BY <1>0, <2>1, <2>2
      <3> QED
        BY <3>1 DEF WithHandle, Unallocated
    <2>3. CASE o # p
      BY <1>0, <2>1, <2>3
    <2> QED
      BY <2>2, <2>3
  <1>6. CASE AddDuplicate(g)
    <2>1. PICK s \in Slots :
            xobject' = [xobject EXCEPT ![thread[g].object] = Released(WithHandle(@, s))]
      BY <1>6 DEF AddDuplicate
    <2> DEFINE x == WithHandle(xobject[o], s)
    <2>2. xobject'[o] = xobject[o] \/ xobject'[o] = Released(x)
      BY <1>0, <2>1
    <2>3. x \in ObjectType /\ x.name = xobject[o].name
      <3>1. Append(xobject[o].handles, s) \in Seq(Slots) /\ xobject[o].pointers + 1 \in Nat
        BY <1>0, AppendProperties DEF ObjectType
      <3> QED
        BY <1>0, <3>1 DEF WithHandle, ObjectType
    <2> QED
      BY <2>2, <2>3, ReleasedName
  <1>7. CASE SetAttributes(g)
    BY <1>0, <1>7 DEF SetAttributes
  <1> QED
    BY <1>1, <1>2, <1>3, <1>4, <1>5, <1>6, <1>7, KindOfStep

(* Only the thread that made an object begins to name it.                  *)
LEMMA NamingBegins ==
  ASSUME Typed, NEW g \in Guests, Step(g), Naming(g)'
  PROVE  CreateObject(g)
  <1> DEFINE t == thread[g]
  <1>0. /\ CallOK(t) /\ t \in CallType /\ thread \in [Guests -> CallType]
        /\ thread'[g].at = "attributes"
    BY StepStarts DEF Typed, ThreadTyped, Naming
  <1>a. Idle.at = "idle" /\ \A p : [t EXCEPT !.at = p].at = p
    BY <1>0 DEF Idle, CallType
  <1>1. ASSUME Create(g) \/ Open(g)
        PROVE  FALSE
    BY <1>0, <1>1 DEF Create, Open, Enter, Idle
  <1>2. ASSUME FindName(g) \/ Lookup(g) \/ LookupAgain(g)
        PROVE  FALSE
    <2>1. \/ thread'[g] = Idle
          \/ \E n : thread'[g] = [t EXCEPT !.handle = n, !.at = "lookup"]
          \/ \E o : thread'[g] = [t EXCEPT !.object = o, !.at = "retain"]
          \/ \E o : thread'[g] = [t EXCEPT !.handle = NoSlot, !.object = o, !.at = "release"]
          \/ thread'[g] = [t EXCEPT !.holds = NoSlot, !.at = "create"]
          \/ \E p \in {"create", "again"} : thread'[g] = [t EXCEPT !.at = p]
      <3>1. CASE FindName(g)
        BY <1>0, <3>1 DEF FindName
      <3>2. CASE Lookup(g)
        BY <1>0, <3>2 DEF Lookup, Give, Goto
      <3>3. CASE LookupAgain(g)
        BY <1>0, <3>3 DEF LookupAgain
      <3> QED
        BY <1>2, <3>1, <3>2, <3>3
    <2> QED
      BY <1>0, <1>a, <2>1 DEF CallType
  <1>3. ASSUME RetainFound(g)
        PROVE  FALSE
    <2>1. thread'[g] = Idle \/ \E got : thread'[g] = [t EXCEPT !.object = NoObject, !.holds = got, !.primary = NoSlot, !.at = "again"]
      BY <1>3, FoundRetained DEF Typed
    <2>2. \A got : [t EXCEPT !.object = NoObject, !.holds = got, !.primary = NoSlot, !.at = "again"].at = "again"
      BY <1>0 DEF CallType
    <2> QED
      BY <1>0, <1>a, <2>1, <2>2
  <1>4. ASSUME ReleaseFound(g) \/ ReturnFound(g) \/ SetAttributes(g) \/ ReturnCreated(g)
        PROVE  FALSE
    <2>1. \/ thread'[g] = Idle
          \/ thread'[g] = [t EXCEPT !.holds = NoSlot, !.primary = NoSlot, !.at = "found"]
          \/ thread'[g] = [t EXCEPT !.at = "return"]
      BY <1>0, <1>4 DEF ReleaseFound, ReturnFound, SetAttributes, ReturnCreated, Give, Goto
    <2> QED
      BY <1>0, <1>a, <2>1 DEF CallType
  <1>5. ASSUME NEW s \in Slots, Close(g, s) \/ Use(g, s)
        PROVE  FALSE
    BY <1>0, <1>5 DEF Close, Use, MayAsk, At, Idle
  <1>6. ASSUME NEW s \in Slots, NEW call, Duplicate(g, s, call)
        PROVE  FALSE
    <2>1. thread'[g].at \in {"check", "add"}
      BY <1>0, <1>6 DEF Duplicate, Idle
    <2> QED
      BY <1>0, <2>1
  <1>7. ASSUME AddDuplicate(g) \/ CheckSource(g) \/ RemoveSource(g) \/ Used(g)
        PROVE  FALSE
    <2>1. \/ thread'[g] = Idle
          \/ thread'[g] = [t EXCEPT !.object = NoObject, !.at = "check"]
          \/ thread'[g] = [t EXCEPT !.at = "remove"]
      BY <1>0, <1>7 DEF AddDuplicate, CheckSource, RemoveSource, Used, Goto
    <2> QED
      BY <1>0, <1>a, <2>1 DEF CallType
  <1>8. ~Reads(g)
    BY <1>0, PrimaryRead
  <1> QED
    BY <1>1, <1>2, <1>3, <1>4, <1>5, <1>6, <1>7, <1>8 DEF Step, Reads

LEMMA UnnamedStep ==
  ASSUME Typed, Filled, PointersExact, Listed, Unnamed, NEW g \in Guests, Step(g)
  PROVE  Unnamed'
  <1>0. ThreadTyped /\ \A h \in Guests \ {g} : thread'[h] = thread[h]
    BY StepOfOne DEF Typed
  <1>1. ASSUME Naming(g)'
        PROVE  \E p \in Objects : /\ xobject[p] = Unallocated /\ thread'[g].object = p
                                  /\ xobject'[p].name = NoName
    <2>0. CreateObject(g) /\ thread[g] \in CallType /\ thread \in [Guests -> CallType]
      BY <1>0, <1>1, NamingBegins DEF ThreadTyped
    <2>1. PICK p \in Objects, s \in Slots :
            /\ xobject[p] = Unallocated
            /\ xobject' = [xobject EXCEPT ![p] = WithHandle([@ EXCEPT !.pointers = 1], s)]
            /\ thread'[g] = [thread[g] EXCEPT
                 !.object = p, !.holds = s,
                 !.at = IF thread[g].name = NoName THEN "return" ELSE "attributes"]
      BY <2>0 DEF CreateObject
    <2>2. thread'[g].object = p
      BY <2>0, <2>1 DEF CallType
    <2>3. xobject'[p] = WithHandle([Unallocated EXCEPT !.pointers = 1], s)
      BY <2>1 DEF Typed, ObjectsTyped
    <2> QED
      BY <2>1, <2>2, <2>3 DEF WithHandle, Unallocated
  <1>2. ASSUME NEW h \in Guests, Naming(h)'
        PROVE  xobject'[thread'[h].object].name = NoName
    <2>1. CASE h = g
      BY <1>1, <1>2, <2>1
    <2>2. CASE h # g
      <3>1. thread'[h] = thread[h] /\ Naming(h)
        BY <1>0, <1>2, <2>2 DEF Naming
      <3>2. thread[h].object \in Objects /\ xobject[thread[h].object].name = NoName
        BY <3>1, ObjectAt DEF Naming, WithObject, Unnamed
      <3>3. ~(SetAttributes(g) /\ thread[g].object = thread[h].object)
        BY <2>2, <3>1 DEF SetAttributes, At, Naming, Unnamed
      <3> QED
        BY <3>1, <3>2, <3>3, NamesOfObjects
    <2> QED
      BY <2>1, <2>2
  <1>3. ASSUME NEW h \in Guests \ {g}, Naming(g)', Naming(h)', thread'[h].object = thread'[g].object
        PROVE  FALSE
    <2>1. PICK p \in Objects : xobject[p] = Unallocated /\ thread'[g].object = p
      BY <1>1, <1>3
    <2>2. thread[h].object = p
      BY <1>0, <1>3, <2>1
    <2>3. xobject[p].pointers = Cardinality(Entries(p)) + Cardinality(Users(p)) /\ Cardinality(Users(p)) > 0
      BY <2>2, Referenced
    <2>4. xobject[p].pointers = 0
      BY <2>1 DEF Unallocated
    <2> QED
      BY <2>3, <2>4, SetsFinite
  <1>4. ASSUME NEW h \in Guests, NEW k \in Guests, Naming(h)', Naming(k)',
               thread'[h].object = thread'[k].object
        PROVE  h = k
    <2>1. CASE h = g \/ k = g
      BY <1>3, <1>4, <2>1
    <2>2. CASE h # g /\ k # g
      BY <1>0, <1>4, <2>2 DEF Unnamed, Naming
    <2> QED
      BY <2>1, <2>2
  <1> QED
    BY <1>2, <1>4 DEF Unnamed
(* Mishaps are never forgotten.                                            *)
LEMMA MishapsGrow ==
  ASSUME NEW g \in Guests, Step(g)
  PROVE  mishaps \subseteq mishaps'
  BY DEF Step, Create, Open, FindName, Lookup, ReadPrimary, RetainFound, LookupAgain, ReleaseFound, ReturnFound,
         CreateObject, SetAttributes, ReturnCreated, Close, Duplicate, AddDuplicate,
         CheckSource, RemoveSource, Use, Used, Give

(* A name that a step adds or keeps leads to an object that keeps it.      *)
LEMMA NameStep ==
  ASSUME Typed, Filled, PointersExact, Listed, Created, Unnamed, mishaps = {},
         NEW g \in Guests, Step(g), NEW n \in Names, NameLives(n)
  PROVE  NameLives(n)'
  <1> DEFINE t == thread[g]
             k == names[n]
             q == entry[k].object
  <1>0. /\ entry \in [Slots -> EntryType] /\ names \in [Names -> Slots \cup {NoSlot}]
        /\ xobject \in [Objects -> ObjectType] /\ t \in CallType
    BY StepStarts DEF Typed, TableTyped, ObjectsTyped
  <1>1. k # NoSlot => k \in Slots /\ q \in Objects /\ xobject[q].name = n
    BY <1>0, EntryTyped DEF NameLives
  <1>2. ASSUME names'[n] = k,
               k # NoSlot => entry'[k].object = q /\ (q \in Objects => xobject'[q].name = xobject[q].name)
        PROVE  NameLives(n)'
    BY <1>1, <1>2 DEF NameLives
  <1>3. CASE Keep(g)
    BY <1>1, <1>2, <1>3 DEF Keep, SameObjects
  <1>4. CASE Gain(g)
    <2>1. PICK p \in Objects : xobject' = [xobject EXCEPT ![p].pointers = @ + 1]
      BY <1>4 DEF Gain, Retain
    <2>2. q \in Objects => xobject'[q].name = xobject[q].name
      BY <1>0, <2>1 DEF ObjectType
    <2> QED
      BY <1>1, <1>2, <1>4, <2>2 DEF Gain, SameObjects
  <1>5. CASE Drop(g)
    <2>1. PICK p \in Objects : thread[g].object = p /\ xobject' = [xobject EXCEPT ![p] = Released(@)]
      BY <1>5 DEF Drop, Release
    <2>2. ASSUME k # NoSlot
          PROVE  xobject'[q].name = xobject[q].name
      <3>1. CASE q = p
        <4>1. xobject[q].pointers = Cardinality(Entries(q)) + Cardinality(Users(q))
              /\ Cardinality(Entries(q)) > 0 /\ Cardinality(Users(q)) > 0
          BY <1>1, <2>1, <2>2, <3>1, Referenced
        <4>2. xobject[q].pointers # 1
          BY <4>1, SetsFinite
        <4>3. xobject'[q] = [xobject[q] EXCEPT !.pointers = @ - 1]
          BY <1>0, <2>1, <3>1, <4>2 DEF Released
        <4> QED
          BY <1>0, <2>1, <3>1, <4>3 DEF ObjectType
      <3>2. CASE q # p
        BY <1>0, <1>1, <2>1, <2>2, <3>2
      <3> QED
        BY <3>1, <3>2
    <2> QED
      BY <1>1, <1>2, <1>5, <2>2 DEF Drop, SameObjects
  <1>6. CASE RemoveBy(g)
    <2>1. PICK s \in Slots : entry[s].object \in Objects /\ RemoveHandle(s)
      BY <1>6 DEF RemoveBy
    <2>2. CASE n = xobject[entry[s].object].name
      BY <2>1, <2>2 DEF RemoveHandle, NameLives
    <2>3. CASE n # xobject[entry[s].object].name
      <3>1. names'[n] = k
        BY <2>1, <2>3 DEF RemoveHandle
      <3>2. ASSUME k # NoSlot
            PROVE  k # s /\ q # entry[s].object
        BY <1>1, <2>3, <3>2
      <3>3. k # NoSlot => entry'[k] = entry[k] /\ xobject'[q] = xobject[q]
        BY <1>0, <1>1, <2>1, <3>2 DEF RemoveHandle
      <3> QED
        BY <1>2, <3>1, <3>3
    <2> QED
      BY <2>2, <2>3
  <1>7. CASE CreateObject(g)
    <2>1. PICK p \in Objects, s \in Slots :
            /\ xobject[p] = Unallocated /\ IsFreeSlot(s)
            /\ entry' = [entry EXCEPT ![s] = [object |-> p, count |-> 1]]
            /\ xobject' = [xobject EXCEPT ![p] = WithHandle([@ EXCEPT !.pointers = 1], s)]
      BY <1>7 DEF CreateObject
    <2>2. ASSUME k # NoSlot
          PROVE  k # s /\ q # p
      <3>1. xobject[p].name = NoName /\ entry[s].object = NoObject
        BY <2>1, FreeSlotEmpty DEF Unallocated
      <3> QED
        BY <1>1, <2>2, <3>1
    <2>3. k # NoSlot => entry'[k] = entry[k] /\ xobject'[q] = xobject[q]
      BY <1>0, <1>1, <2>1, <2>2
    <2>4. names' = names
      BY <1>7 DEF CreateObject
    <2> QED
      BY <1>2, <2>3, <2>4
  <1>8. CASE AddDuplicate(g)
    <2>1. PICK s \in Slots :
            /\ IsFreeSlot(s)
            /\ entry' = [entry EXCEPT ![s] = [object |-> t.object, count |-> 1]]
            /\ xobject' = [xobject EXCEPT ![t.object] = Released(WithHandle(@, s))]
      BY <1>8 DEF AddDuplicate
    <2>2. ASSUME k # NoSlot
          PROVE  entry'[k] = entry[k]
      BY <1>0, <1>1, <2>1, <2>2, FreeSlotEmpty
    <2>3. ASSUME k # NoSlot
          PROVE  xobject'[q].name = xobject[q].name
      <3>1. CASE q = t.object
        <4> DEFINE x == WithHandle(xobject[q], s)
        <4>1. xobject[q] \in ObjectType /\ q \in Objects
          BY <1>0, <1>1, <2>3
        <4>2. xobject[q].pointers = Cardinality(Entries(q)) + Cardinality(Users(q))
              /\ Cardinality(Entries(q)) > 0
          BY <1>1, <2>3, Referenced
        <4>3. xobject[q].pointers > 0
          BY <4>2, SetsFinite
        <4>4. x \in ObjectType /\ x.name = xobject[q].name /\ x.pointers = xobject[q].pointers + 1
          <5>1. Append(xobject[q].handles, s) \in Seq(Slots) /\ xobject[q].pointers + 1 \in Nat
            BY <4>1, AppendProperties DEF ObjectType
          <5> QED
            BY <4>1, <5>1 DEF WithHandle, ObjectType
        <4>5. xobject'[q] = Released(x)
          BY <1>0, <2>1, <3>1, <4>1
        <4> HIDE DEF x
        <4>6. x.pointers # 1
          BY <4>1, <4>3, <4>4 DEF ObjectType
        <4> QED
          BY <4>4, <4>5, <4>6 DEF Released, ObjectType
      <3>2. CASE q # t.object
        BY <1>0, <1>1, <2>1, <2>3, <3>2
      <3> QED
        BY <3>1, <3>2
    <2>4. names' = names
      BY <1>8 DEF AddDuplicate
    <2> QED
      BY <1>2, <2>2, <2>3, <2>4
  <1>9. CASE SetAttributes(g)
    <2> DEFINE o == t.object
               m == t.name
    <2>0. CallOK(t) /\ t.at = "attributes"
      BY <1>9 DEF SetAttributes, At, Typed, ThreadTyped
    <2>1. /\ o \in Objects /\ m \in Names /\ t.holds \in Slots /\ t.at = "attributes"
          /\ entry' = entry /\ xobject' = [xobject EXCEPT ![o].name = m]
          /\ names' = IF names[m] = NoSlot THEN [names EXCEPT ![m] = Primary(o)] ELSE names
      <3>1. o \in Objects /\ m \in Names /\ t.holds \in Slots
        BY <2>0 DEF CallOK, WithObject, WithName, WithHold
      <3> QED
        BY <1>9, <2>0, <3>1 DEF SetAttributes
    <2>2. xobject[o].name = NoName
      BY <2>1 DEF Unnamed, Naming
    <2>3. xobject'[o].name = m
      BY <1>0, <2>1 DEF ObjectType
    <2>4. ASSUME k # NoSlot
          PROVE  NameLives(n)'
      <3>1. q # o /\ names'[n] = k
        BY <1>0, <1>1, <2>1, <2>2, <2>4
      <3>2. xobject'[q] = xobject[q]
        BY <1>0, <1>1, <2>1, <2>4, <3>1
      <3> QED
        BY <1>2, <2>1, <3>1, <3>2
    <2>5. ASSUME k = NoSlot, n = m
          PROVE  NameLives(n)'
      <3>1. entry[t.holds].object = o
        BY <2>1 DEF Created
      <3>2. xobject[o].handles \in Seq(Slots) /\ ToSet(xobject[o].handles) = Entries(o)
        BY <1>0, <2>1 DEF ObjectType, Listed
      <3>3. t.holds \in Entries(o)
        BY <2>1, <3>1 DEF Entries
      <3>4. xobject[o].handles # <<>>
        <4>1. ToSet(<<>>) = {}
          BY DEF ToSet
        <4> QED
          BY <3>2, <3>3, <4>1
      <3>5. Primary(o) = Head(xobject[o].handles)
        BY <3>4 DEF Primary
      <3>6. Primary(o) \in Entries(o)
        <4>1. Head(xobject[o].handles) \in ToSet(xobject[o].handles)
          BY <3>2, <3>4, TailDistinct
        <4> QED
          BY <3>2, <3>5, <4>1
      <3>7. names'[n] = Primary(o)
        BY <1>0, <2>1, <2>5
      <3>8. entry'[Primary(o)].object = o
        BY <2>1, <3>6 DEF Entries
      <3> QED
        BY <2>1, <2>3, <2>5, <3>7, <3>8 DEF NameLives
    <2>6. ASSUME k = NoSlot, n # m
          PROVE  NameLives(n)'
      <3>1. names'[n] = k
        BY <1>0, <2>1, <2>6
      <3> QED
        BY <1>2, <2>6, <3>1
    <2> QED
      BY <2>4, <2>5, <2>6
  <1> QED
    BY <1>3, <1>4, <1>5, <1>6, <1>7, <1>8, <1>9, KindOfStep

LEMMA NamesStep ==
  ASSUME Typed, Filled, PointersExact, Listed, Created, Unnamed, NamesAreLive,
         NEW g \in Guests, Step(g)
  PROVE  NamesAreLive'
  <1> SUFFICES ASSUME mishaps' = {}
               PROVE  \A n \in Names : NameLives(n)'
    BY DEF NamesAreLive, NameLives
  <1>1. mishaps = {}
    BY MishapsGrow
  <1>2. \A n \in Names : NameLives(n)
    BY <1>1 DEF NamesAreLive, NameLives
  <1> QED
    BY <1>1, <1>2, NameStep
-----------------------------------------------------------------------------
(* Counts.  A step of g moves references between the title, the call and   *)
(* the count of a handle.                                                  *)

Balanced(s) == entry[s].count = owned[s] + Cardinality(References(s))

Takes(g, s) == thread[g].holds # s /\ thread'[g].holds = s
Loses(g, s) == thread[g].holds = s /\ thread'[g].holds # s
Holds(g, s) == thread[g].holds = s <=> thread'[g].holds = s

Moves(g, s) ==
  \/ entry'[s].count = entry[s].count /\ owned'[s] = owned[s] /\ Holds(g, s)
  \/ entry'[s].count = entry[s].count + 1 /\ owned'[s] = owned[s] + 1 /\ Holds(g, s)
  \/ entry'[s].count = entry[s].count + 1 /\ owned'[s] = owned[s] /\ Takes(g, s)
  \/ entry'[s].count = entry[s].count /\ owned'[s] = owned[s] + 1 /\ Loses(g, s)
  \/ entry'[s].count = entry[s].count /\ owned'[s] = owned[s] - 1 /\ Takes(g, s)
  \/ entry'[s].count = entry[s].count - 1 /\ owned'[s] = owned[s] /\ Loses(g, s)
  \/ entry'[s].count = entry[s].count - 1 /\ owned'[s] = owned[s] - 1 /\ Holds(g, s)

LEMMA MovesBalance ==
  ASSUME Typed, NEW g \in Guests, Step(g), NEW s \in Slots, Balanced(s), Moves(g, s)
  PROVE  Balanced(s)'
  <1>0. ThreadTyped /\ owned[s] \in Nat /\ entry[s].count \in Nat
    BY EntryTyped DEF Typed, TableTyped
  <1>1. PICK r \in Nat : r = Cardinality(References(s))
    BY SetsFinite
  <1>2. PICK q : q = Cardinality(References(s)')
    OBVIOUS
  <1>3. /\ Takes(g, s) => q = r + 1
        /\ Loses(g, s) => q = r - 1
        /\ Holds(g, s) => q = r
    BY <1>0, <1>1, <1>2, ReferencesMove DEF Takes, Loses, Holds
  <1>4. entry[s].count = owned[s] + r
    BY <1>1 DEF Balanced
  <1>5. PICK c \in Nat, o \in Nat : c = entry[s].count /\ o = owned[s]
    BY <1>0
  <1>6. entry'[s].count = owned'[s] + q
    <2>1. c = o + r
      BY <1>4, <1>5
    <2>2. \/ entry'[s].count = c /\ owned'[s] = o /\ q = r
          \/ entry'[s].count = c + 1 /\ owned'[s] = o + 1 /\ q = r
          \/ entry'[s].count = c + 1 /\ owned'[s] = o /\ q = r + 1
          \/ entry'[s].count = c /\ owned'[s] = o + 1 /\ q = r - 1
          \/ entry'[s].count = c /\ owned'[s] = o - 1 /\ q = r + 1
          \/ entry'[s].count = c - 1 /\ owned'[s] = o /\ q = r - 1
          \/ entry'[s].count = c - 1 /\ owned'[s] = o - 1 /\ q = r
      BY <1>3, <1>5 DEF Moves
    <2> QED
      BY <1>1, <1>5, <2>1, <2>2
  <1> QED
    BY <1>2, <1>6 DEF Balanced

(* Whoever holds a reference on a handle finds its object in the slot.     *)
LEMMA HeldIsLive ==
  ASSUME Typed, Filled, NEW s \in Slots, Balanced(s),
         owned[s] > 0 \/ \E g \in Guests : thread[g].holds = s
  PROVE  entry[s].object \in Objects /\ entry[s].count > 0 /\ Live(s)
  <1>1. owned[s] \in Nat
    BY DEF Typed, TableTyped
  <1>2. ASSUME NEW g \in Guests, thread[g].holds = s, Cardinality(References(s)) = 0
        PROVE  FALSE
    <2>1. g \in References(s)
      BY <1>2 DEF References
    <2> QED
      BY <1>2, <2>1, SetsFinite, FS_EmptySet
  <1>3. owned[s] > 0 \/ Cardinality(References(s)) # 0
    BY <1>2
  <1>4. entry[s].count > 0
    BY <1>1, <1>3, SetsFinite DEF Balanced
  <1> QED
    BY <1>4 DEF Filled, Live

LEMMA IncrementedCount ==
  ASSUME Typed, NEW p \in Slots, entry' = Incremented(p)
  PROVE  \A s \in Slots : entry'[s].count = IF s = p THEN entry[s].count + 1 ELSE entry[s].count
  BY EntryTyped DEF Incremented, EntryType

LEMMA RemovedCount ==
  ASSUME Typed, NEW p \in Slots, RemoveHandle(p), entry[p].count = 1
  PROVE  \A s \in Slots : entry'[s].count = IF s = p THEN entry[s].count - 1 ELSE entry[s].count
  BY EntryTyped DEF RemoveHandle, Empty, EntryType

LEMMA ReleasedCount ==
  ASSUME Typed, NEW p \in Slots, Live(p), ReleaseHandle(p)
  PROVE  \A s \in Slots : entry'[s].count = IF s = p THEN entry[s].count - 1 ELSE entry[s].count
  <1>1. CASE entry[p].count > 1 /\ entry' = [entry EXCEPT ![p].count = @ - 1]
    BY <1>1, EntryTyped DEF EntryType
  <1>2. CASE entry[p].count = 1 /\ RemoveHandle(p)
    BY <1>2, RemovedCount
  <1> QED
    BY <1>1, <1>2 DEF ReleaseHandle

LEMMA FilledCount ==
  ASSUME Typed, Filled, NEW p \in Slots, IsFreeSlot(p), NEW o,
         entry' = [entry EXCEPT ![p] = [object |-> o, count |-> 1]]
  PROVE  \A s \in Slots : entry'[s].count = IF s = p THEN entry[s].count + 1 ELSE entry[s].count
  <1>1. entry[p].count = 0
    BY EntryTyped, FreeSlotEmpty DEF Filled
  <1> QED
    BY <1>1, EntryTyped

(* What Give() does if it is no mishap.                                    *)
LEMMA GivenWell ==
  ASSUME Typed, NEW g \in Guests, NEW p, NEW holds, Give(g, p, holds), mishaps' = {}
  PROVE  /\ holds = p /\ thread'[g].holds = NoSlot
         /\ \A s \in Slots : owned'[s] = IF s = p THEN owned[s] + 1 ELSE owned[s]
  <1>1. owned \in [Slots -> Nat] /\ thread \in [Guests -> CallType]
    BY DEF Typed, TableTyped, ThreadTyped
  <1>2. holds = p
    BY DEF Give
  <1>3. thread'[g].holds = NoSlot
    BY <1>1 DEF Give, Idle
  <1>4. \A s \in Slots : owned'[s] = IF s = p THEN owned[s] + 1 ELSE owned[s]
    BY <1>1 DEF Give
  <1> QED
    BY <1>2, <1>3, <1>4

LEMMA NoSlotIsNone == NoSlot \notin Slots
  BY DEF NoSlot, Slots
(* Steps that leave the counts alone.                                      *)
LEMMA QuietMoves ==
  ASSUME UNCHANGED <<entry, owned>>, NEW g, NEW s \in Slots, Holds(g, s)
  PROVE  Moves(g, s)
  BY DEF Moves

LEMMA StepMoves ==
  ASSUME Typed, Filled, \A s \in Slots : Balanced(s), mishaps' = {},
         NEW g \in Guests, Step(g), NEW s \in Slots
  PROVE  Moves(g, s)
  <1> DEFINE t == thread[g]
  <1>0. /\ CallOK(t) /\ t \in CallType /\ thread \in [Guests -> CallType]
        /\ owned \in [Slots -> Nat] /\ NoSlot \notin Slots /\ Idle.holds = NoSlot
    BY StepStarts, NoSlotIsNone DEF Typed, ThreadTyped, TableTyped, Idle
  <1>a. /\ t.at \in WithNoHold => t.holds = NoSlot
        /\ t.at \in WithHold => t.holds \in Slots
        /\ t.at = "idle" => t.holds = NoSlot
    BY <1>0 DEF CallOK
  <1>b. \A p : [t EXCEPT !.at = p].holds = t.holds
    BY <1>0 DEF CallType
  <1> USE DEF WithNoHold, WithHold, WithObject
  <1>1. CASE Create(g) \/ Open(g)
    <2>1. UNCHANGED <<entry, owned>> /\ t.holds = NoSlot
      BY <1>a, <1>1 DEF Create, Open, MayAsk, At
    <2>2. thread'[g].holds = NoSlot
      BY <1>0, <1>1 DEF Create, Open, Enter, Idle
    <2> QED
      BY <2>1, <2>2, QuietMoves DEF Holds
  <1>2. CASE FindName(g)
    <2>1. UNCHANGED <<entry, owned>> /\ t.holds = NoSlot
      BY <1>a, <1>2 DEF FindName, At
    <2>2. \/ thread'[g] = Idle
          \/ \E n : thread'[g] = [t EXCEPT !.handle = n, !.at = "lookup"]
          \/ thread'[g] = [t EXCEPT !.at = "create"]
      BY <1>0, <1>2 DEF FindName
    <2>3. thread'[g].holds = NoSlot
      BY <1>0, <2>1, <2>2 DEF CallType
    <2> QED
      BY <2>1, <2>3, QuietMoves DEF Holds
  <1>3. CASE Lookup(g)
    <2>1. entry' = entry /\ t.holds = NoSlot /\ t.handle \in Slots
      BY <1>0, <1>a, <1>3 DEF Lookup, At, CallOK, WithSlot
    <2>2. CASE entry[t.handle].object = NoObject /\ t.call = "open"
      BY <1>0, <1>3, <2>1, <2>2 DEF Lookup, Give
    <2>3. CASE ~(entry[t.handle].object = NoObject /\ t.call = "open")
      <3>1. /\ owned' = owned
            /\ \/ \E o : thread'[g] = [t EXCEPT !.object = o, !.at = "retain"]
               \/ thread'[g] = [t EXCEPT !.at = "again"]
        BY <1>0, <1>3, <2>3 DEF Lookup, Goto
      <3>2. thread'[g].holds = NoSlot
        BY <1>0, <2>1, <3>1 DEF CallType
      <3> QED
        BY <2>1, <3>1, <3>2, QuietMoves DEF Holds
    <2> QED
      BY <2>2, <2>3
  <1>4. CASE RetainFound(g)
    <2> DEFINE p == t.primary
               got == IF Live(p) THEN p ELSE NoSlot
    <2>1. t.holds = NoSlot /\ t.handle \in Slots /\ t.object \in Objects
      BY <1>0, <1>a, <1>4 DEF RetainFound, At, CallOK, WithSlot
    <2>2. entry' = IF Live(p) THEN Incremented(p) ELSE entry
      BY <1>4 DEF RetainFound
    <2>3. Live(p) => p \in Slots
      BY DEF Live
    <2> HIDE DEF p
    <2>4. CASE t.call = "open"
      <3>1. Give(g, t.handle, got)
        BY <1>4, <2>4 DEF RetainFound, p
      <3>2. /\ got = t.handle /\ thread'[g].holds = NoSlot
            /\ owned'[s] = IF s = t.handle THEN owned[s] + 1 ELSE owned[s]
        BY <3>1, GivenWell
      <3>3. Live(p) /\ p = t.handle
        BY <1>0, <2>1, <3>2
      <3>4. entry'[s].count = IF s = p THEN entry[s].count + 1 ELSE entry[s].count
        BY <2>1, <2>2, <3>3, IncrementedCount
      <3> QED
        BY <2>1, <3>2, <3>3, <3>4 DEF Moves, Holds
    <2>5. CASE t.call = "create"
      <3>1. owned' = owned
        BY <1>4, <2>5 DEF RetainFound
      <3>2. thread'[g] = [t EXCEPT !.object = NoObject, !.holds = got, !.primary = NoSlot, !.at = "again"]
        BY <1>0, <1>4, <2>5 DEF RetainFound, p
      <3>3. thread'[g].holds = got
        BY <1>0, <3>2 DEF CallType
      <3>4. CASE Live(p)
        <4>1. entry'[s].count = IF s = p THEN entry[s].count + 1 ELSE entry[s].count
          BY <2>2, <2>3, <3>4, IncrementedCount
        <4> QED
          BY <1>0, <2>1, <3>1, <3>3, <3>4, <4>1 DEF Moves, Holds, Takes
      <3>5. CASE ~Live(p)
        BY <2>1, <2>2, <3>1, <3>3, <3>5, QuietMoves DEF Holds
      <3> QED
        BY <3>4, <3>5
    <2> QED
      BY <1>4, <2>4, <2>5 DEF RetainFound
  <1>5. CASE LookupAgain(g)
    <2>1. UNCHANGED <<entry, owned>>
      BY <1>5 DEF LookupAgain
    <2>2. \/ \E o : thread'[g] = [t EXCEPT !.handle = NoSlot, !.object = o, !.at = "release"]
          \/ /\ thread'[g] = [t EXCEPT !.holds = NoSlot, !.at = "create"]
             /\ t.holds = NoSlot
      BY <1>0, <1>5 DEF LookupAgain
    <2>3. thread'[g].holds = t.holds
      BY <1>0, <2>2 DEF CallType
    <2> QED
      BY <2>1, <2>3, QuietMoves DEF Holds
  <1>6. CASE ReleaseFound(g)
    <2> DEFINE p == t.primary
    <2>1. /\ t.object \in Objects /\ ReleaseHandle(p) /\ owned' = owned /\ t.holds = p
          /\ thread'[g] = [t EXCEPT !.holds = NoSlot, !.primary = NoSlot, !.at = "found"]
      BY <1>0, <1>6, ObjectAt DEF ReleaseFound, At
    <2>2. p \in Slots \cup {NoSlot}
      BY <1>0 DEF CallType
    <2>3. thread'[g].holds = NoSlot
      BY <1>0, <2>1 DEF CallType
    <2> HIDE DEF p
    <2>4. CASE p = NoSlot
      <3>1. entry' = entry
        BY <1>0, <2>1, <2>4 DEF ReleaseHandle, Live
      <3> QED
        BY <2>1, <2>3, <2>4, <3>1, QuietMoves DEF Holds
    <2>5. CASE p \in Slots
      <3>1. Live(p)
        BY <2>1, <2>5, HeldIsLive
      <3>2. entry'[s].count = IF s = p THEN entry[s].count - 1 ELSE entry[s].count
        BY <2>1, <2>5, <3>1, ReleasedCount
      <3> QED
        BY <1>0, <2>1, <2>3, <2>5, <3>2 DEF Moves, Holds, Loses
    <2> QED
      BY <2>2, <2>4, <2>5
  <1>7. CASE ReturnFound(g)
    <2> DEFINE p == t.primary
               again == Primary(t.object)
    <2>1. /\ t.holds = NoSlot
          /\ entry' = IF Live(p) THEN Incremented(p) ELSE entry
          /\ Give(g, again, IF Live(p) THEN p ELSE NoSlot)
      BY <1>a, <1>7 DEF ReturnFound, At
    <2>2. Live(p) => p \in Slots
      BY DEF Live
    <2> HIDE DEF p, again
    <2>3. /\ (IF Live(p) THEN p ELSE NoSlot) = again /\ thread'[g].holds = NoSlot
          /\ owned'[s] = IF s = again THEN owned[s] + 1 ELSE owned[s]
      BY <2>1, GivenWell
    <2>4. CASE Live(p)
      <3>1. entry'[s].count = IF s = p THEN entry[s].count + 1 ELSE entry[s].count
        BY <2>1, <2>2, <2>4, IncrementedCount
      <3>2. owned'[s] = IF s = p THEN owned[s] + 1 ELSE owned[s]
        BY <2>3, <2>4
      <3> QED
        BY <2>1, <2>3, <3>1, <3>2 DEF Moves, Holds
    <2>5. CASE ~Live(p)
      <3>1. again = NoSlot /\ s # again
        BY <1>0, <2>3, <2>5
      <3>2. UNCHANGED <<entry, owned[s]>>
        BY <2>1, <2>3, <2>5, <3>1
      <3> QED
        BY <2>1, <2>3, <3>2 DEF Moves, Holds
    <2> QED
      BY <2>4, <2>5
  <1>8. CASE CreateObject(g)
    <2>1. owned' = owned /\ t.holds = NoSlot
      BY <1>a, <1>8 DEF CreateObject, At
    <2>2. PICK o \in Objects, p \in Slots :
            /\ IsFreeSlot(p)
            /\ entry' = [entry EXCEPT ![p] = [object |-> o, count |-> 1]]
            /\ thread'[g] = [t EXCEPT
                 !.object = o, !.holds = p,
                 !.at = IF t.name = NoName THEN "return" ELSE "attributes"]
      BY <1>0, <1>8 DEF CreateObject
    <2>3. thread'[g].holds = p
      BY <1>0, <2>2 DEF CallType
    <2>4. entry'[s].count = IF s = p THEN entry[s].count + 1 ELSE entry[s].count
      BY <2>2, FilledCount
    <2> QED
      BY <1>0, <2>1, <2>3, <2>4 DEF Moves, Takes, Holds
  <1>9. CASE SetAttributes(g)
    <2>1. UNCHANGED <<entry, owned>> /\ thread'[g] = [t EXCEPT !.at = "return"]
      BY <1>0, <1>9 DEF SetAttributes, Goto
    <2> QED
      BY <1>b, <2>1, QuietMoves DEF Holds
  <1>10. CASE ReturnCreated(g)
    <2> DEFINE p == Primary(t.object)
    <2>1. entry' = entry /\ Give(g, p, t.holds) /\ t.holds \in Slots
      BY <1>a, <1>10 DEF ReturnCreated, At
    <2> HIDE DEF p
    <2>2. /\ t.holds = p /\ thread'[g].holds = NoSlot
          /\ owned'[s] = IF s = p THEN owned[s] + 1 ELSE owned[s]
      BY <2>1, GivenWell
    <2> QED
      BY <1>0, <2>1, <2>2 DEF Moves, Loses, Holds
  <1>11. ASSUME NEW p \in Slots, Close(g, p)
         PROVE  Moves(g, s)
    <2>1. /\ owned[p] > 0 /\ ReleaseHandle(p) /\ thread' = thread
          /\ owned' = [owned EXCEPT ![p] = @ - 1]
      BY <1>11 DEF Close
    <2>2. Live(p)
      BY <2>1, HeldIsLive
    <2>3. entry'[s].count = IF s = p THEN entry[s].count - 1 ELSE entry[s].count
      BY <2>1, <2>2, ReleasedCount
    <2> QED
      BY <1>0, <2>1, <2>3 DEF Moves, Holds
  <1>12. ASSUME NEW p \in Slots, Use(g, p)
         PROVE  Moves(g, s)
    <2>1. UNCHANGED <<entry, owned>> /\ t.holds = NoSlot
      BY <1>a, <1>12 DEF Use, MayAsk, At
    <2>2. thread'[g].holds = NoSlot
      BY <1>0, <1>12 DEF Use, Idle
    <2> QED
      BY <2>1, <2>2, QuietMoves DEF Holds
  <1>13. ASSUME NEW p \in Slots, NEW call, Duplicate(g, p, call)
         PROVE  Moves(g, s)
    <2>1. entry' = entry /\ t.holds = NoSlot /\ owned' = [owned EXCEPT ![p] = @ - 1]
      BY <1>a, <1>13 DEF Duplicate, MayAsk, At
    <2>2. thread'[g].holds = p
      BY <1>0, <1>13 DEF Duplicate, Idle
    <2> QED
      BY <1>0, <2>1, <2>2 DEF Moves, Takes, Holds
  <1>14. CASE AddDuplicate(g)
    <2>1. PICK p \in Slots :
            /\ IsFreeSlot(p)
            /\ entry' = [entry EXCEPT ![p] = [object |-> t.object, count |-> 1]]
            /\ owned' = [owned EXCEPT ![p] = @ + 1]
      BY <1>14 DEF AddDuplicate
    <2>2. thread'[g] = [t EXCEPT !.object = NoObject, !.at = "check"]
      BY <1>0, <1>14 DEF AddDuplicate
    <2>3. thread'[g].holds = t.holds
      BY <1>0, <2>2 DEF CallType
    <2>4. entry'[s].count = IF s = p THEN entry[s].count + 1 ELSE entry[s].count
      BY <2>1, FilledCount
    <2> QED
      BY <1>0, <2>1, <2>3, <2>4 DEF Moves, Holds
  <1>15. CASE CheckSource(g)
    <2> DEFINE p == t.handle
    <2>1. entry' = entry /\ t.holds = p /\ p \in Slots
      BY <1>0, <1>15 DEF CheckSource, At, CallOK, WithSlot
    <2>2. entry[p].object # NoObject
      <3>1. entry[p].object \in Objects
        BY <2>1, HeldIsLive
      <3> QED
        BY <3>1
    <2>3. \/ owned' = owned /\ thread'[g] = [t EXCEPT !.at = "remove"]
          \/ owned' = [owned EXCEPT ![p] = @ + 1] /\ thread'[g] = Idle
      BY <1>0, <1>15, <2>2 DEF CheckSource, Goto
    <2>4. CASE owned' = owned /\ thread'[g] = [t EXCEPT !.at = "remove"]
      BY <1>b, <2>1, <2>4, QuietMoves DEF Holds
    <2>5. CASE owned' = [owned EXCEPT ![p] = @ + 1] /\ thread'[g] = Idle
      BY <1>0, <2>1, <2>5 DEF Moves, Holds, Loses
    <2> QED
      BY <2>3, <2>4, <2>5
  <1>16. CASE RemoveSource(g)
    <2> DEFINE p == t.handle
    <2>1. owned' = owned /\ t.holds = p /\ p \in Slots /\ thread'[g] = Idle
      BY <1>0, <1>16 DEF RemoveSource, At, CallOK, WithSlot
    <2>2. entry[p].object # NoObject
      <3>1. entry[p].object \in Objects
        BY <2>1, HeldIsLive
      <3> QED
        BY <3>1
    <2>3. RemoveHandle(p) /\ entry[p].count = 1
      BY <1>16, <2>2 DEF RemoveSource
    <2>4. entry'[s].count = IF s = p THEN entry[s].count - 1 ELSE entry[s].count
      BY <2>1, <2>3, RemovedCount
    <2> QED
      BY <1>0, <2>1, <2>4 DEF Moves, Holds, Loses
  <1>17. CASE Used(g)
    <2>1. UNCHANGED <<entry, owned>> /\ t.holds = NoSlot /\ thread'[g] = Idle
      BY <1>0, <1>a, <1>17 DEF Used, At
    <2> QED
      BY <1>0, <2>1, QuietMoves DEF Holds
  <1>18. CASE Reads(g)
    BY <1>18, PrimaryRead, QuietMoves DEF Holds
  <1> QED
    BY <1>1, <1>2, <1>3, <1>4, <1>5, <1>6, <1>7, <1>8, <1>9, <1>10, <1>11, <1>12, <1>13, <1>14,
       <1>15, <1>16, <1>17, <1>18 DEF Step, Reads
LEMMA CountsStep ==
  ASSUME Typed, Filled, CountsExact, NEW g \in Guests, Step(g)
  PROVE  CountsExact'
  <1> SUFFICES ASSUME mishaps' = {}, NEW s \in Slots
               PROVE  Balanced(s)'
    BY DEF CountsExact, Balanced
  <1>1. mishaps = {}
    BY MishapsGrow
  <1>2. \A p \in Slots : Balanced(p)
    BY <1>1 DEF CountsExact, Balanced
  <1> QED
    BY <1>2, StepMoves, MovesBalance

(* The table crashes only at a handle that its holder no longer holds.     *)
LEMMA CrashStep ==
  ASSUME Typed, Filled, CountsExact, CrashNeedsMishap, NEW g \in Guests, Step(g)
  PROVE  CrashNeedsMishap'
  <1>0. ~crashed
    BY StepStarts DEF Typed
  <1>1. CASE RemoveSource(g)
    <2> DEFINE p == thread[g].handle
    <2>1. p \in Slots /\ thread[g].holds = p
      BY <1>1 DEF RemoveSource, At, Typed, ThreadTyped, CallOK, WithSlot
    <2>2. CASE mishaps = {}
      <3>1. Balanced(p)
        BY <2>1, <2>2 DEF CountsExact, Balanced
      <3>2. entry[p].object \in Objects
        BY <2>1, <3>1, HeldIsLive
      <3>3. entry[p].object # NoObject
        BY <3>2
      <3> QED
        BY <1>0, <1>1, <3>3 DEF RemoveSource, CrashNeedsMishap
    <2>3. CASE mishaps # {}
      BY <2>3, MishapsGrow DEF CrashNeedsMishap
    <2> QED
      BY <2>2, <2>3
  <1>2. CASE ~RemoveSource(g)
    <2>1. crashed' = crashed
      BY <1>2
         DEF Step, Create, Open, FindName, Lookup, ReadPrimary, RetainFound, LookupAgain, ReleaseFound, ReturnFound,
             CreateObject, SetAttributes, ReturnCreated, Close, Duplicate, AddDuplicate,
             CheckSource, Use, Used
    <2> QED
      BY <1>0, <2>1 DEF CrashNeedsMishap
  <1> QED
    BY <1>1, <1>2

-----------------------------------------------------------------------------
(* Objects that are being made.                                            *)

(* A slot loses its object before it gets another.                         *)
LEMMA SlotKeeps ==
  ASSUME Typed, Filled, NEW g \in Guests, Step(g), NEW s \in Slots, entry[s].object \in Objects
  PROVE  entry'[s].object \in {entry[s].object, NoObject}
  <1>0. entry \in [Slots -> EntryType]
    BY EntryTyped
  <1>1. CASE Keep(g) \/ Gain(g) \/ Drop(g)
    BY <1>1 DEF Keep, Gain, Drop, SameObjects
  <1>2. CASE RemoveBy(g)
    BY <1>0, <1>2 DEF RemoveBy, RemoveHandle, Empty
  <1>3. CASE CreateObject(g)
    BY <1>0, <1>3, FreeSlotEmpty DEF CreateObject
  <1>4. CASE AddDuplicate(g)
    <2>1. PICK t \in Slots :
            IsFreeSlot(t) /\ entry' = [entry EXCEPT ![t] = [object |-> thread[g].object, count |-> 1]]
      BY <1>4 DEF AddDuplicate
    <2> QED
      BY <1>0, <2>1, FreeSlotEmpty
  <1>5. CASE SetAttributes(g)
    BY <1>5 DEF SetAttributes
  <1> QED
    BY <1>1, <1>2, <1>3, <1>4, <1>5, KindOfStep

LEMMA MakingBegins ==
  ASSUME Typed, NEW g \in Guests, Step(g), thread'[g].at \in {"attributes", "return"}
  PROVE  CreateObject(g) \/ SetAttributes(g)
  <1> DEFINE t == thread[g]
  <1>0. /\ CallOK(t) /\ t \in CallType /\ thread \in [Guests -> CallType]
    BY StepStarts DEF Typed, ThreadTyped
  <1>1. CASE thread'[g].at = "attributes"
    BY <1>1, NamingBegins DEF Naming
  <1>2. CASE thread'[g].at = "return"
    <2>a. Idle.at = "idle" /\ \A p : [t EXCEPT !.at = p].at = p
      BY <1>0 DEF Idle, CallType
    <2>1. ASSUME Create(g) \/ Open(g)
          PROVE  FALSE
      BY <1>0, <1>2, <2>1 DEF Create, Open, Enter, Idle
    <2>2. ASSUME FindName(g) \/ Lookup(g) \/ LookupAgain(g)
          PROVE  FALSE
      <3>1. \/ thread'[g] = Idle
            \/ \E n : thread'[g] = [t EXCEPT !.handle = n, !.at = "lookup"]
            \/ \E o : thread'[g] = [t EXCEPT !.object = o, !.at = "retain"]
            \/ \E o : thread'[g] = [t EXCEPT !.handle = NoSlot, !.object = o, !.at = "release"]
            \/ thread'[g] = [t EXCEPT !.holds = NoSlot, !.at = "create"]
            \/ \E p \in {"create", "again"} : thread'[g] = [t EXCEPT !.at = p]
        <4>1. CASE FindName(g)
          BY <1>0, <4>1 DEF FindName
        <4>2. CASE Lookup(g)
          BY <1>0, <4>2 DEF Lookup, Give, Goto
        <4>3. CASE LookupAgain(g)
          BY <1>0, <4>3 DEF LookupAgain
        <4> QED
          BY <2>2, <4>1, <4>2, <4>3
      <3> QED
        BY <1>0, <1>2, <2>a, <3>1 DEF CallType
    <2>3. ASSUME RetainFound(g)
          PROVE  FALSE
      <3>1. thread'[g] = Idle \/ \E got : thread'[g] = [t EXCEPT !.object = NoObject, !.holds = got, !.primary = NoSlot, !.at = "again"]
        BY <2>3, FoundRetained DEF Typed
      <3> QED
        BY <1>0, <1>2, <2>a, <3>1 DEF CallType
    <2>4. ASSUME ReleaseFound(g) \/ ReturnFound(g) \/ ReturnCreated(g)
          PROVE  FALSE
      <3>1. \/ thread'[g] = Idle
            \/ thread'[g] = [t EXCEPT !.holds = NoSlot, !.primary = NoSlot, !.at = "found"]
        BY <1>0, <2>4 DEF ReleaseFound, ReturnFound, ReturnCreated, Give
      <3> QED
        BY <1>0, <1>2, <2>a, <3>1 DEF CallType
    <2>5. ASSUME NEW s \in Slots, Close(g, s) \/ Use(g, s)
          PROVE  FALSE
      BY <1>0, <1>2, <2>5 DEF Close, Use, MayAsk, At, Idle
    <2>6. ASSUME NEW s \in Slots, NEW call, Duplicate(g, s, call)
          PROVE  FALSE
      <3>1. thread'[g].at \in {"check", "add"}
        BY <1>0, <2>6 DEF Duplicate, Idle
      <3> QED
        BY <1>2, <3>1
    <2>7. ASSUME AddDuplicate(g) \/ CheckSource(g) \/ RemoveSource(g) \/ Used(g)
          PROVE  FALSE
      <3>1. \/ thread'[g] = Idle
            \/ thread'[g] = [t EXCEPT !.object = NoObject, !.at = "check"]
            \/ thread'[g] = [t EXCEPT !.at = "remove"]
        BY <1>0, <2>7 DEF AddDuplicate, CheckSource, RemoveSource, Used, Goto
      <3> QED
        BY <1>0, <1>2, <2>a, <3>1 DEF CallType
    <2>8. ~Reads(g)
      BY <1>2, PrimaryRead
    <2> QED
      BY <2>1, <2>2, <2>3, <2>4, <2>5, <2>6, <2>7, <2>8 DEF Step, Reads
  <1> QED
    BY <1>1, <1>2

(* The creator's reference keeps the handle, and the handle its object.    *)
LEMMA CreatedStep ==
  ASSUME Typed, Typed', Filled, Filled', CountsExact', Created, NEW g \in Guests, Step(g)
  PROVE  Created'
  <1> SUFFICES ASSUME mishaps' = {}, NEW h \in Guests, thread'[h].at \in {"attributes", "return"}
               PROVE  entry'[thread'[h].holds].object = thread'[h].object
    BY DEF Created
  <1>0. /\ mishaps = {} /\ entry \in [Slots -> EntryType] /\ thread \in [Guests -> CallType]
        /\ thread[g] \in CallType
    BY MishapsGrow, EntryTyped DEF Typed, ThreadTyped
  <1>1. CASE h # g \/ SetAttributes(g)
    <2>1. /\ thread[h].at \in {"attributes", "return"}
          /\ thread'[h].holds = thread[h].holds /\ thread'[h].object = thread[h].object
      <3>1. CASE h # g
        BY <3>1, StepOfOne DEF Typed
      <3>2. CASE h = g /\ SetAttributes(g)
        BY <1>0, <3>2 DEF SetAttributes, Goto, At, CallType
      <3> QED
        BY <1>1, <3>1, <3>2
    <2>2. thread[h].holds \in Slots /\ thread[h].object \in Objects
      BY <2>1 DEF Typed, ThreadTyped, CallOK, WithHold, WithObject
    <2> DEFINE s == thread[h].holds
    <2>3. entry[s].object = thread[h].object
      BY <1>0, <2>1 DEF Created
    <2>4. entry'[s].object \in {thread[h].object, NoObject}
      BY <2>2, <2>3, SlotKeeps
    <2>5. entry'[s].object \in Objects
      <3>1. PICK p \in Slots : p = s
        BY <2>2
      <3>2. Balanced(p)'
        BY DEF CountsExact, Balanced
      <3>3. \E k \in Guests : thread'[k].holds = p
        BY <2>1, <3>1
      <3>4. (entry[p].object \in Objects)'
        <4>1. (entry[p].count > 0)'
          <5>1. (owned[p] \in Nat)'
            BY DEF Typed, TableTyped
          <5>2. PICK k \in Guests : k \in References(p)'
            BY <3>3 DEF References
          <5>3. IsFiniteSet(References(p)') /\ Cardinality(References(p)') \in Nat
            <6>1. IsFiniteSet(References(p)')
              BY FS_Subset DEF References
            <6> QED
              BY <6>1, FS_CardinalityType
          <5>4. Cardinality(References(p)') # 0
            BY <5>2, <5>3, FS_EmptySet
          <5>5. Cardinality(References(p))' = Cardinality(References(p)')
            OBVIOUS
          <5> QED
            BY <3>2, <5>1, <5>3, <5>4, <5>5 DEF Balanced
        <4> QED
          BY <4>1 DEF Filled
      <3> QED
        BY <3>1, <3>4
    <2> QED
      BY <2>1, <2>4, <2>5
  <1>2. CASE h = g /\ CreateObject(g)
    <2>1. PICK o \in Objects, p \in Slots :
            /\ entry' = [entry EXCEPT ![p] = [object |-> o, count |-> 1]]
            /\ thread'[g] = [thread[g] EXCEPT
                 !.object = o, !.holds = p,
                 !.at = IF thread[g].name = NoName THEN "return" ELSE "attributes"]
      BY <1>0, <1>2 DEF CreateObject
    <2>2. thread'[g].holds = p /\ thread'[g].object = o
      BY <1>0, <2>1 DEF CallType
    <2> QED
      BY <1>0, <1>2, <2>1, <2>2
  <1> QED
    BY <1>1, <1>2, MakingBegins
-----------------------------------------------------------------------------
(* The inductive invariant holds.                                          *)

LEMMA InitIInv ==
  ASSUME Init
  PROVE  IInv
  <1>1. /\ \A s \in Slots : entry[s] = Empty
        /\ \A o \in Objects : xobject[o] = Unallocated
        /\ \A g \in Guests : thread[g] = Idle
        /\ NoSlot \notin Slots
    BY NoSlotIsNone DEF Init
  <1>2. /\ Empty.object = NoObject /\ Empty.count = 0
        /\ Unallocated.handles = <<>> /\ Unallocated.pointers = 0
        /\ Idle.at = "idle" /\ Idle.object = NoObject /\ Idle.holds = NoSlot
    BY DEF Empty, Unallocated, Idle
  <1>3. Typed
    <2>1. Empty \in EntryType /\ Unallocated \in ObjectType /\ Idle \in CallType
      BY DEF Empty, EntryType, Unallocated, ObjectType, Idle, CallType, Places, NoSlot
    <2>2. CallOK(Idle)
      BY <1>2, <2>1
         DEF CallOK, WithObject, WithName, WithSlot, WithHold, WithNoHold, Creating
    <2>3. TableTyped
      BY <2>1 DEF Init, TableTyped
    <2>4. ObjectsTyped /\ ThreadTyped
      BY <2>1, <2>2 DEF Init, ObjectsTyped, ThreadTyped
    <2> QED
      BY <2>3, <2>4 DEF Typed
  <1>4. Filled
    BY <1>1, <1>2 DEF Filled
  <1>5. /\ \A o \in Objects : Entries(o) = {} /\ Users(o) = {}
        /\ \A s \in Slots : References(s) = {}
    BY <1>1, <1>2 DEF Entries, Users, References
  <1>6. PointersExact /\ CountsExact
    <2>1. Cardinality({}) = 0
      BY FS_EmptySet
    <2>2. ASSUME NEW o \in Objects
          PROVE  xobject[o].pointers = Cardinality(Entries(o)) + Cardinality(Users(o))
      <3>1. Cardinality(Entries(o)) = 0 /\ Cardinality(Users(o)) = 0 /\ xobject[o].pointers = 0
        BY <1>1, <1>2, <1>5, <2>1
      <3> QED
        BY <3>1
    <2>3. ASSUME NEW s \in Slots
          PROVE  entry[s].count = owned[s] + Cardinality(References(s))
      <3>1. Cardinality(References(s)) = 0 /\ owned[s] = 0 /\ entry[s].count = 0
        BY <1>1, <1>2, <1>5, <2>1 DEF Init
      <3> QED
        BY <3>1
    <2> QED
      BY <2>2, <2>3 DEF PointersExact, CountsExact
  <1>7. Listed
    <2>1. ToSet(<<>>) = {} /\ IsInjective(<<>>)
      BY DEF ToSet, IsInjective
    <2>2. \A o \in Objects : ToSet(xobject[o].handles) = {} /\ IsInjective(xobject[o].handles)
      BY <1>1, <1>2, <2>1
    <2> QED
      BY <1>5, <2>2 DEF Listed
  <1>8. CrashNeedsMishap /\ Created /\ Unnamed
    BY <1>1, <1>2 DEF Init, CrashNeedsMishap, Created, Unnamed, Naming
  <1>9. NamesAreLive
    BY DEF Init, NamesAreLive
  <1> QED
    BY <1>3, <1>4, <1>6, <1>7, <1>8, <1>9 DEF IInv

LEMMA StepIInv ==
  ASSUME IInv, NEW g \in Guests, Step(g)
  PROVE  IInv'
  <1>0. /\ Typed /\ Filled /\ PointersExact /\ Listed
        /\ CountsExact /\ CrashNeedsMishap /\ Created /\ Unnamed /\ NamesAreLive
    BY DEF IInv
  <1>1. Typed' /\ PointersExact' /\ Listed'
    BY <1>0, TableTypedStep, ThreadTypedStep, ExactStep DEF Typed
  <1>2. Filled' /\ CountsExact' /\ CrashNeedsMishap'
    BY <1>0, FilledStep, CountsStep, CrashStep
  <1>3. Created' /\ Unnamed' /\ NamesAreLive'
    BY <1>0, <1>1, <1>2, CreatedStep, UnnamedStep, NamesStep
  <1> QED
    BY <1>1, <1>2, <1>3 DEF IInv

LEMMA StutterIInv ==
  ASSUME IInv, UNCHANGED vars
  PROVE  IInv'
  <1>0. UNCHANGED <<entry, xobject, names, thread, owned, mishaps, crashed>>
    BY DEF vars
  <1>1. Typed'
    BY <1>0 DEF IInv, Typed, TableTyped, ObjectsTyped, ThreadTyped
  <1>2. Filled' /\ PointersExact' /\ Listed'
    BY <1>0 DEF IInv, Filled, PointersExact, Listed, Entries, Users
  <1>3. CountsExact' /\ CrashNeedsMishap' /\ Created'
    BY <1>0 DEF IInv, CountsExact, CrashNeedsMishap, Created, References
  <1>4. Unnamed' /\ NamesAreLive'
    BY <1>0 DEF IInv, Unnamed, Naming, NamesAreLive
  <1> QED
    BY <1>1, <1>2, <1>3, <1>4 DEF IInv

(* The invariant that every property below follows from: types, the places *)
(* of a call, both counts of xobject.cpp and object_table.cpp, the list of *)
(* handles and the names.                                                  *)
THEOREM IInvHolds == Spec => []IInv
  <1>1. Init => IInv
    BY InitIInv
  <1>2. IInv /\ [Next]_vars => IInv'
    BY StepIInv, StutterIInv DEF Next
  <1> QED
    BY <1>1, <1>2, PTL DEF Spec

-----------------------------------------------------------------------------
(* What it shows.                                                          *)

(* Counts are natural numbers, and every slot, object and name that a call *)
(* or a table mentions is one that exists.                                 *)
THEOREM TypeCorrect == Spec => []TypeOK
  <1>1. IInv => TypeOK
    BY DEF IInv, Typed, TableTyped, ObjectsTyped, ThreadTyped, TypeOK, EntryType, ObjectType, CallType
  <1> QED
    BY <1>1, IInvHolds, PTL

(* Retain() and Release() of xobject.cpp: an object lives exactly as long  *)
(* as the table or a call refers to it, whatever the calls and the order   *)
(* of their steps, even after the handle counts have gone wrong.           *)
THEOREM ObjectsLiveWhileUsed == Spec => []PointersExact
  <1>1. IInv => PointersExact
    BY DEF IInv
  <1> QED
    BY <1>1, IInvHolds, PTL

(* AddHandle() and RemoveHandle() keep handles_ the list of the entries    *)
(* that an object has in the table, each once.                             *)
THEOREM HandlesMatchTable == Spec => []HandlesExact
  <1>1. IInv => HandlesExact
    <2> SUFFICES ASSUME IInv, NEW o \in Objects
                 PROVE  /\ {xobject[o].handles[i] : i \in DOMAIN xobject[o].handles} = Entries(o)
                        /\ Len(xobject[o].handles) = Cardinality(Entries(o))
      BY DEF HandlesExact
    <2>1. /\ xobject[o].handles \in Seq(Slots) /\ IsInjective(xobject[o].handles)
          /\ ToSet(xobject[o].handles) = Entries(o)
      BY DEF IInv, Listed, Typed, ObjectsTyped, ObjectType
    <2>2. Len(xobject[o].handles) = Cardinality(Entries(o))
      BY <2>1, DistinctLength
    <2>3. {xobject[o].handles[i] : i \in DOMAIN xobject[o].handles} = Entries(o)
      BY <2>1 DEF ToSet
    <2> QED
      BY <2>2, <2>3
  <1> QED
    BY <1>1, IInvHolds, PTL

(* Until a call has given or dropped a reference it did not hold,          *)
(* handle_ref_count is the number of references that the title and the     *)
(* calls under way hold on the handle.                                     *)
THEOREM HandleCountsAreRight == Spec => []CountsExact
  <1>1. IInv => CountsExact
    BY DEF IInv
  <1> QED
    BY <1>1, IInvHolds, PTL

(* Until then a name in name_table_ leads to a live handle of the object   *)
(* that carries the name, although RemoveHandle() drops the name with any  *)
(* handle of the object and SetAttributes() may find the name taken.       *)
THEOREM NamesLead == Spec => []NamesAreLive
  <1>1. IInv => NamesAreLive
    BY DEF IInv
  <1> QED
    BY <1>1, IInvHolds, PTL

(* RemoveHandle(), which tests the slot without the lock and then takes    *)
(* the object of it, finds none only if a call dropped a reference that    *)
(* was not its own.                                                        *)
THEOREM CrashIsMishap == Spec => []CrashNeedsMishap
  <1>1. IInv => CrashNeedsMishap
    BY DEF IInv
  <1> QED
    BY <1>1, IInvHolds, PTL
=============================================================================
