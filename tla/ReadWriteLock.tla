---------------------------- MODULE ReadWriteLock ----------------------------
(***************************************************************************)
(* What a guest title expects of a reader/writer lock: any number of       *)
(* threads hold it shared, or one holds it exclusively.  ExReadWriteLock   *)
(* is shown to implement this.                                             *)
(***************************************************************************)
CONSTANT Threads

VARIABLES readers, writers

Init == readers = {} /\ writers = {}

EnterShared(t) ==
  /\ t \notin readers
  /\ writers = {}
  /\ readers' = readers \cup {t}
  /\ UNCHANGED writers

EnterExclusive(t) ==
  /\ readers = {}
  /\ writers = {}
  /\ writers' = {t}
  /\ UNCHANGED readers

Leave(t) ==
  /\ t \in readers \cup writers
  /\ readers' = readers \ {t}
  /\ writers' = writers \ {t}

Next == \E t \in Threads : EnterShared(t) \/ EnterExclusive(t) \/ Leave(t)

Spec == Init /\ [][Next]_<<readers, writers>>
=============================================================================
