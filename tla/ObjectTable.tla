------------------------------ MODULE ObjectTable ------------------------------
(***************************************************************************)
(* The kernel object table of src/system/util/object_table.cpp with the    *)
(* reference counts of src/system/xobject.cpp, as guest threads use it:    *)
(* NtCreateEvent and its like with and without a name, opening by name,    *)
(* duplicating, closing and using a handle.                                *)
(*                                                                         *)
(* A handle is its slot number.  What happens under the global lock is one *)
(* step; the gaps between the look-ups are where the steps are cut.  All   *)
(* objects have one type, and pseudo handles are left out.                 *)
(***************************************************************************)
EXTENDS Integers, FiniteSets, SequencesExt

CONSTANTS
  Guests,      \* guest threads
  Objects,     \* addresses that an XObject may have
  NumSlots,    \* slots 1..NumSlots of the table
  Names,       \* names of objects
  NoObject, NoName,
  MaxRefs,     \* bound: references the title holds or asks for at a time
  MaxMishaps   \* bound: kinds of mishap after which no call begins

ASSUME SlotsAssumption == NumSlots \in Nat \ {0} /\ MaxRefs \in Nat /\ MaxMishaps \in Nat
ASSUME GuestsAssumption == IsFiniteSet(Guests)
ASSUME NoneAssumption == NoObject \notin Objects /\ NoName \notin Names

Slots == 1..NumSlots
NoSlot == 0    \* handle 0, never in the table

VARIABLES
  entry,      \* table_: the object in each slot and its handle_ref_count
  xobject,    \* the objects: pointer_ref_count_, handles_, name_
  names,      \* name_table_
  thread,     \* the call each guest thread is in
  owned,      \* how many references the title holds on each handle
  mishaps,    \* history: what went wrong with the counts so far
  crashed     \* RemoveHandle dereferenced a null object

vars == <<entry, xobject, names, thread, owned, mishaps, crashed>>

-----------------------------------------------------------------------------
(* Objects. *)

Places == {"idle", "find", "lookup", "retain", "retaining", "again", "release", "releasing",
           "found", "returning", "create", "attributes", "return", "add", "check", "remove", "using"}

Empty == [object |-> NoObject, count |-> 0]
Idle == [at |-> "idle", call |-> "none", name |-> NoName, handle |-> NoSlot,
         object |-> NoObject, holds |-> NoSlot, primary |-> NoSlot]
Unallocated == [pointers |-> 0, handles |-> <<>>, stale |-> NoSlot, name |-> NoName]

(* handles_[0]; the memory of a vector that lost its last element still    *)
(* holds that element.                                                     *)
Primary(o) ==
  IF xobject[o].handles = <<>> THEN xobject[o].stale ELSE Head(xobject[o].handles)

(* Release() of an object x, which deletes it with the last reference.     *)
Released(x) == IF x.pointers = 1 THEN Unallocated ELSE [x EXCEPT !.pointers = @ - 1]

(* mutation: the table's own pointer reference is forgotten.               *)
WithHandleUnretained(x, s) == [x EXCEPT !.handles = Append(@, s)]

(* AddHandle(): the slot goes to the object's handles, which gains a       *)
(* pointer reference for it.                                               *)
WithHandle(x, s) == [x EXCEPT !.handles = Append(@, s), !.pointers = @ + 1]

(* mutation: the object's list of handles is not searched.                 *)
WithoutHandleKept(x, s) == [x EXCEPT !.stale = s]

(* RemoveHandle(): the slot leaves the object's handles.                   *)
WithoutHandle(x, s) == [x EXCEPT !.handles = RemoveFirst(@, s), !.stale = s]

Retain(o) == xobject' = [xobject EXCEPT ![o].pointers = @ + 1]
Release(o) == xobject' = [xobject EXCEPT ![o] = Released(@)]

-----------------------------------------------------------------------------
(* The table. *)

(* FindFreeSlot(): the lowest slot, as last_free_entry_ stays at 1 until   *)
(* the table of 16384 slots is full.                                       *)
IsFreeSlot(s) ==
  /\ entry[s].object = NoObject
  /\ \A t \in 1..s-1 : entry[t].object # NoObject

(* The test that RetainHandle() and ReleaseHandle() begin with.            *)
Live(s) == s \in Slots /\ entry[s].object # NoObject /\ entry[s].count > 0

(* mutation: the count is left alone.                                      *)
NotIncremented(s) == entry

(* RetainHandle() of a live handle.                                        *)
Incremented(s) == [entry EXCEPT ![s].count = @ + 1]

(* mutation: the name stays behind.                                        *)
RemoveKeepingName(s) ==
  LET o == entry[s].object IN
  /\ entry' = [entry EXCEPT ![s] = Empty]
  /\ xobject' = [xobject EXCEPT ![o] = Released(WithoutHandle(@, s))]
  /\ UNCHANGED names

(* The part of RemoveHandle() under the lock.  It also drops the name of   *)
(* the object, whichever of its handles goes.                              *)
RemoveHandle(s) ==
  LET o == entry[s].object IN
  /\ entry' = [entry EXCEPT ![s] = Empty]
  /\ xobject' = [xobject EXCEPT ![o] = Released(WithoutHandle(@, s))]
  /\ names' = [n \in Names |-> IF n = xobject[o].name THEN NoSlot ELSE names[n]]

(* mutation: a handle that is not live is released too.                    *)
ReleaseDeadHandle(s) ==
  \/ /\ s \in Slots /\ entry[s].count # 1
     /\ entry' = [entry EXCEPT ![s].count = @ - 1]
     /\ UNCHANGED <<xobject, names>>
  \/ /\ Live(s) /\ entry[s].count = 1
     /\ RemoveHandle(s)

(* mutation: every release removes the handle.                             *)
ReleaseAll(s) ==
  \/ /\ ~Live(s)
     /\ UNCHANGED <<entry, xobject, names>>
  \/ Live(s) /\ RemoveHandle(s)

(* ReleaseHandle(). *)
ReleaseHandle(s) ==
  \/ /\ ~Live(s)
     /\ UNCHANGED <<entry, xobject, names>>
  \/ /\ Live(s) /\ entry[s].count > 1
     /\ entry' = [entry EXCEPT ![s].count = @ - 1]
     /\ UNCHANGED <<xobject, names>>
  \/ /\ Live(s) /\ entry[s].count = 1
     /\ RemoveHandle(s)

-----------------------------------------------------------------------------
(* Guest threads. *)

Init ==
  /\ entry = [s \in Slots |-> Empty]
  /\ xobject = [o \in Objects |-> Unallocated]
  /\ names = [n \in Names |-> NoSlot]
  /\ thread = [g \in Guests |-> Idle]
  /\ owned = [s \in Slots |-> 0]
  /\ mishaps = {}
  /\ crashed = FALSE

At(g, place) == thread[g].at = place /\ ~crashed

Goto(g, place) == thread' = [thread EXCEPT ![g].at = place]

MayAsk(g) ==
  /\ At(g, "idle")
  /\ Cardinality(mishaps) =< MaxMishaps
  /\ MapThenSumSet(LAMBDA s : owned[s], Slots)
       + Cardinality({h \in Guests : thread[h].at # "idle"}) < MaxRefs

Enter(g, call, name, handle, place) ==
  thread' = [thread EXCEPT ![g] = [Idle EXCEPT !.at = place, !.call = call,
                                               !.name = name, !.handle = handle]]

(* A call ends and gives the title a reference on handle s.  It is a       *)
(* mishap, named for the call, if it does not hold one.                    *)
Give(g, s, holds) ==
  /\ thread' = [thread EXCEPT ![g] = Idle]
  /\ owned' = [owned EXCEPT ![s] = @ + 1]
  /\ mishaps' = mishaps \cup (IF holds = s THEN {} ELSE {thread[g].call})

(* NtCreateEvent() and the like, LookupNamedObject() if there is a name.   *)
Create(g) ==
  /\ MayAsk(g)
  /\ \/ Enter(g, "create", NoName, NoSlot, "create")
     \/ \E n \in Names : Enter(g, "create", n, NoSlot, "find")
  /\ UNCHANGED <<entry, xobject, names, owned, mishaps, crashed>>

(* ObOpenObjectByName(). *)
Open(g) ==
  /\ MayAsk(g)
  /\ \E n \in Names : Enter(g, "open", n, NoSlot, "find")
  /\ UNCHANGED <<entry, xobject, names, owned, mishaps, crashed>>

(* GetObjectByName(): the name table, under name_mutex_.                   *)
FindName(g) ==
  /\ At(g, "find")
  /\ LET s == names[thread[g].name] IN
     thread' = IF s # NoSlot
               THEN [thread EXCEPT ![g].handle = s, ![g].at = "lookup"]
               ELSE IF thread[g].call = "open" THEN [thread EXCEPT ![g] = Idle]
               ELSE [thread EXCEPT ![g].at = "create"]
  /\ UNCHANGED <<entry, xobject, names, owned, mishaps, crashed>>

(* LookupObject() of the handle found, which may be another object's now.  *)
(* If there is none the call succeeds all the same.                        *)
Lookup(g) ==
  /\ At(g, "lookup")
  /\ LET s == thread[g].handle
         o == entry[s].object IN
     \/ /\ o # NoObject
        /\ Retain(o)
        /\ thread' = [thread EXCEPT ![g].object = o, ![g].at = "retain"]
        /\ UNCHANGED <<owned, mishaps>>
     \/ /\ o = NoObject /\ thread[g].call = "open"
        /\ Give(g, s, NoSlot)
        /\ UNCHANGED xobject
     \/ /\ o = NoObject /\ thread[g].call = "create"
        /\ Goto(g, "again")
        /\ UNCHANGED <<xobject, owned, mishaps>>
  /\ UNCHANGED <<entry, names, crashed>>

(* XObject::RetainHandle() and ReleaseHandle() read handles_[0] without a   *)
(* lock, before the table looks at that handle.                            *)
ReadPrimary(g, from, to) ==
  /\ At(g, from)
  /\ thread' = [thread EXCEPT ![g].primary = Primary(thread[g].object), ![g].at = to]
  /\ UNCHANGED <<entry, xobject, names, owned, mishaps, crashed>>

(* obj->RetainHandle() of GetObjectByName(), then Release() of the pointer.*)
(* An open returns the handle it found, whichever was retained.            *)
RetainFound(g) ==
  /\ At(g, "retaining")
  /\ LET o == thread[g].object
         s == thread[g].primary
         got == IF Live(s) THEN s ELSE NoSlot IN
     /\ entry' = IF Live(s) THEN Incremented(s) ELSE entry
     /\ Release(o)
     /\ \/ /\ thread[g].call = "open"
           /\ Give(g, thread[g].handle, got)
        \/ /\ thread[g].call = "create"
           /\ thread' = [thread EXCEPT ![g].object = NoObject, ![g].holds = got,
                                       ![g].primary = NoSlot, ![g].at = "again"]
           /\ UNCHANGED <<owned, mishaps>>
  /\ UNCHANGED <<names, crashed>>

(* LookupObject<T>() of LookupNamedObject().  If the handle is gone the    *)
(* caller makes a new object and a reference retained so far is lost.      *)
LookupAgain(g) ==
  /\ At(g, "again")
  /\ LET o == entry[thread[g].handle].object IN
     \/ /\ o # NoObject
        /\ Retain(o)
        /\ thread' = [thread EXCEPT ![g].handle = NoSlot, ![g].object = o, ![g].at = "release"]
        /\ UNCHANGED mishaps
     \/ /\ o = NoObject
        /\ thread' = [thread EXCEPT ![g].holds = NoSlot, ![g].at = "create"]
        /\ mishaps' = mishaps \cup (IF thread[g].holds = NoSlot THEN {} ELSE {"leak"})
        /\ UNCHANGED xobject
  /\ UNCHANGED <<entry, names, owned, crashed>>

(* obj->ReleaseHandle() of LookupNamedObject(), "the caller will do as it  *)
(* likes".                                                                 *)
ReleaseFound(g) ==
  /\ At(g, "releasing")
  /\ LET s == thread[g].primary IN
     /\ ReleaseHandle(s)
     /\ mishaps' = mishaps \cup (IF thread[g].holds = s THEN {} ELSE {"release"})
  /\ thread' = [thread EXCEPT ![g].holds = NoSlot, ![g].primary = NoSlot, ![g].at = "found"]
  /\ UNCHANGED <<owned, crashed>>

(* existing_object->RetainHandle() and the return of handle() with         *)
(* X_STATUS_OBJECT_NAME_EXISTS; nobody looks at whether it was retained.   *)
(* handle() reads handles_[0] again, in the step of the locked retain.      *)
ReturnFound(g) ==
  /\ At(g, "returning")
  /\ LET o == thread[g].object
         s == thread[g].primary IN
     /\ entry' = IF Live(s) THEN Incremented(s) ELSE entry
     /\ Release(o)
     /\ Give(g, Primary(o), IF Live(s) THEN s ELSE NoSlot)
  /\ UNCHANGED <<names, crashed>>

(* The constructor of the object with its AddHandle().                     *)
CreateObject(g) ==
  /\ At(g, "create")
  /\ \E o \in Objects, s \in Slots :
       /\ xobject[o] = Unallocated
       /\ IsFreeSlot(s)
       /\ entry' = [entry EXCEPT ![s] = [object |-> o, count |-> 1]]
       /\ xobject' = [xobject EXCEPT ![o] = WithHandle([@ EXCEPT !.pointers = 1], s)]
       /\ thread' = [thread EXCEPT
            ![g].object = o, ![g].holds = s,
            ![g].at = IF thread[g].name = NoName THEN "return" ELSE "attributes"]
  /\ UNCHANGED <<names, owned, mishaps, crashed>>

(* SetAttributes().  A name that is taken meanwhile keeps its mapping.     *)
SetAttributes(g) ==
  /\ At(g, "attributes")
  /\ LET o == thread[g].object
         n == thread[g].name IN
     /\ xobject' = [xobject EXCEPT ![o].name = n]
     /\ names' = IF names[n] = NoSlot THEN [names EXCEPT ![n] = Primary(o)] ELSE names
  /\ Goto(g, "return")
  /\ UNCHANGED <<entry, owned, mishaps, crashed>>

ReturnCreated(g) ==
  /\ At(g, "return")
  /\ LET o == thread[g].object IN
     /\ Release(o)
     /\ Give(g, Primary(o), thread[g].holds)
  /\ UNCHANGED <<entry, names, crashed>>

(* NtClose(). *)
Close(g, s) ==
  /\ At(g, "idle")
  /\ owned[s] > 0
  /\ ReleaseHandle(s)
  /\ owned' = [owned EXCEPT ![s] = @ - 1]
  /\ UNCHANGED <<thread, mishaps, crashed>>

(* NtDuplicateObject(): the look-up of DuplicateHandle().  The reference   *)
(* that the caller passes is its own for the time of the call.             *)
Duplicate(g, s, call) ==
  /\ MayAsk(g)
  /\ owned[s] > 0
  /\ owned' = [owned EXCEPT ![s] = @ - 1]
  /\ LET o == entry[s].object IN
     /\ xobject' = IF o = NoObject THEN xobject
                   ELSE [xobject EXCEPT ![o].pointers = @ + 1]
     /\ thread' = [thread EXCEPT ![g] =
                    [Idle EXCEPT !.at = IF o = NoObject THEN "check" ELSE "add",
                                 !.call = call, !.handle = s, !.object = o, !.holds = s]]
  /\ UNCHANGED <<entry, names, mishaps, crashed>>

(* Its AddHandle() and the release of the pointer.                         *)
AddDuplicate(g) ==
  /\ At(g, "add")
  /\ \E t \in Slots :
       LET o == thread[g].object IN
       /\ IsFreeSlot(t)
       /\ entry' = [entry EXCEPT ![t] = [object |-> o, count |-> 1]]
       /\ xobject' = [xobject EXCEPT ![o] = Released(WithHandle(@, t))]
       /\ owned' = [owned EXCEPT ![t] = @ + 1]
  /\ thread' = [thread EXCEPT ![g].object = NoObject, ![g].at = "check"]
  /\ UNCHANGED <<names, mishaps, crashed>>

(* DUPLICATE_CLOSE_SOURCE: the tests of RemoveHandle(), without a lock.    *)
CheckSource(g) ==
  /\ At(g, "check")
  /\ LET s == thread[g].handle IN
     \/ /\ thread[g].call = "close source" /\ entry[s].object # NoObject
        /\ Goto(g, "remove")
        /\ UNCHANGED owned
     \/ /\ thread[g].call = "close source" /\ entry[s].object = NoObject
        /\ thread' = [thread EXCEPT ![g] = Idle]
        /\ UNCHANGED owned
     \/ /\ thread[g].call = "duplicate"
        /\ thread' = [thread EXCEPT ![g] = Idle]
        /\ owned' = [owned EXCEPT ![s] = @ + 1]
  /\ UNCHANGED <<entry, xobject, names, mishaps, crashed>>

(* The rest of RemoveHandle(), whatever the count of the handle is.        *)
RemoveSource(g) ==
  /\ At(g, "remove")
  /\ LET s == thread[g].handle IN
     \/ /\ entry[s].object = NoObject
        /\ crashed' = TRUE
        /\ UNCHANGED <<entry, xobject, names, mishaps>>
     \/ /\ entry[s].object # NoObject
        /\ RemoveHandle(s)
        /\ mishaps' = mishaps \cup (IF entry[s].count = 1 THEN {} ELSE {"close"})
        /\ UNCHANGED crashed
  /\ thread' = [thread EXCEPT ![g] = Idle]
  /\ UNCHANGED owned

(* Any other call with a handle: it keeps a pointer to the object while it *)
(* runs, a wait for instance, and the handle may be closed meanwhile.      *)
Use(g, s) ==
  /\ MayAsk(g)
  /\ owned[s] > 0
  /\ entry[s].object # NoObject
  /\ Retain(entry[s].object)
  /\ thread' = [thread EXCEPT ![g] = [Idle EXCEPT !.at = "using", !.object = entry[s].object]]
  /\ UNCHANGED <<entry, names, owned, mishaps, crashed>>

Used(g) ==
  /\ At(g, "using")
  /\ Release(thread[g].object)
  /\ thread' = [thread EXCEPT ![g] = Idle]
  /\ UNCHANGED <<entry, names, owned, mishaps, crashed>>

Step(g) ==
  \/ Create(g) \/ Open(g)
  \/ ReadPrimary(g, "retain", "retaining") \/ ReadPrimary(g, "release", "releasing")
  \/ ReadPrimary(g, "found", "returning")
  \/ FindName(g) \/ Lookup(g) \/ RetainFound(g)
  \/ LookupAgain(g) \/ ReleaseFound(g) \/ ReturnFound(g)
  \/ CreateObject(g) \/ SetAttributes(g) \/ ReturnCreated(g)
  \/ \E s \in Slots : Close(g, s) \/ Use(g, s)
  \/ \E s \in Slots, call \in {"duplicate", "close source"} : Duplicate(g, s, call)
  \/ AddDuplicate(g) \/ CheckSource(g) \/ RemoveSource(g)
  \/ Used(g)

Next == \E g \in Guests : Step(g)

Spec == Init /\ [][Next]_vars

-----------------------------------------------------------------------------
(* Properties. *)

References(s) == {g \in Guests : thread[g].holds = s}
Entries(o) == {s \in Slots : entry[s].object = o}
Users(o) == {g \in Guests : thread[g].object = o}

(* Every count is one the code's integers hold, every reference to an      *)
(* object or a slot is to one that exists.                                 *)
TypeOK ==
  /\ entry \in [Slots -> [object : Objects \cup {NoObject}, count : Nat]]
  /\ xobject \in [Objects -> [pointers : Nat, handles : Seq(Slots),
                              stale : Slots \cup {NoSlot}, name : Names \cup {NoName}]]
  /\ names \in [Names -> Slots \cup {NoSlot}]
  /\ thread \in [Guests -> [at : Places,
                            call : {"none", "create", "open", "duplicate", "close source"},
                            name : Names \cup {NoName}, handle : Slots \cup {NoSlot},
                            object : Objects \cup {NoObject}, holds : Slots \cup {NoSlot},
                            primary : Slots \cup {NoSlot}]]
  /\ owned \in [Slots -> Nat]
  /\ mishaps \subseteq {"open", "create", "release", "leak", "close"}
  /\ crashed \in BOOLEAN

(* pointer_ref_count_ of an object is the number of its entries in the     *)
(* table plus the calls that hold a pointer to it (the constructor's       *)
(* reference is the creator's).  So no object is deleted under a call or   *)
(* an entry, and none outlives them.                                       *)
PointersExact ==
  \A o \in Objects : xobject[o].pointers = Cardinality(Entries(o)) + Cardinality(Users(o))

(* The handles_ of an object list exactly its entries, each once.          *)
HandlesExact ==
  \A o \in Objects :
    /\ {xobject[o].handles[i] : i \in DOMAIN xobject[o].handles} = Entries(o)
    /\ Len(xobject[o].handles) = Cardinality(Entries(o))

(* As long as nothing went wrong with them, the count of each handle is    *)
(* the number of references that the title and calls under way hold on it. *)
(* So a handle is neither removed under the title nor kept after the last  *)
(* NtClose().                                                              *)
CountsExact ==
  mishaps = {} =>
    \A s \in Slots : entry[s].count = owned[s] + Cardinality(References(s))

(* As long as the counts are right, a name leads to a handle of an object  *)
(* that has the name.                                                      *)
NamesAreLive ==
  mishaps = {} =>
    \A n \in Names : names[n] # NoSlot =>
      /\ entry[names[n]].object # NoObject
      /\ xobject[entry[names[n]].object].name = n

(* The unlocked test of RemoveHandle() is stale only if another call has   *)
(* dropped references that were not its own.                               *)
CrashNeedsMishap == crashed => mishaps # {}

(* "If the name exists and its type matches, we can return that (ref+1)    *)
(* with a success of NAME_EXISTS" (LookupNamedObject): the handle that a   *)
(* create call returns carries a reference.                                *)
ReturnedIsRetained == "create" \notin mishaps
=============================================================================
