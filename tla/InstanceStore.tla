---------------------------- MODULE InstanceStore ----------------------------
(* Provider instances and the directory that keeps one file for each.  No    *)
(* lock keeps the calls of the repository apart: a save empties the file and *)
(* then writes it, a delete looks for the instance and then removes its      *)
(* file, and other calls, or the death of the process, may come in between.  *)
EXTENDS Naturals, FiniteSets

CONSTANTS InstanceIds, \* identifiers of instances; every new instance has a fresh one
          Names,       \* names that a caller asks for
          Unsafe,      \* the ones that are empty or hold "..", a slash, a colon or a NUL
          StoreCalls   \* saves and deletes that can be under way at once

\* Identifiers are UUIDs, no marks of a file's state.
ASSUME StoreAssumption == InstanceIds \cap {"absent", "empty", "torn"} = {}

VARIABLES objects,   \* the instances in memory
          directory, \* name -> NoFile, Empty, Torn, or the instance in the file
          used,      \* identifiers given out
          doing,     \* doing[c]: the step that is left of the save or the delete c
          complete,  \* history: name -> what was saved last, and not deleted since
          raced      \* history: names whose last save was cut off or not alone

storeVars == <<objects, directory, used, doing, complete, raced>>
NoFile == [id |-> "absent"]
Empty == [id |-> "empty"]
Torn == [id |-> "torn"]
Free == [pc |-> "free"]
Statuses == {"loading", "active", "degraded", "offline"}

is_valid_name(name) == name \notin Unsafe
is_valid_transition(from, to) ==
  to \in [loading |-> {"active", "degraded", "offline"}, active |-> {"degraded", "offline"},
          degraded |-> {"active", "offline"}, offline |-> {}][from]

StoreInit == /\ objects = {} /\ used = {} /\ doing = [c \in StoreCalls |-> Free]
             /\ directory = [n \in Names |-> NoFile] /\ complete = directory /\ raced = {}

New(i, n) == /\ i \notin used /\ is_valid_name(n)
             /\ objects' = objects \cup {[id |-> i, name |-> n, status |-> "loading"]}
             /\ used' = used \cup {i}
             /\ UNCHANGED <<directory, doing, complete, raced>>
\* mark_active, mark_degraded, mark_offline; a refused one changes nothing.
Mark(o, to) == /\ is_valid_transition(o.status, to)
               /\ objects' = (objects \ {o}) \cup {[o EXCEPT !.status = to]}
               /\ UNCHANGED <<directory, used, doing, complete, raced>>
\* From every status.
mark_failed(o) == /\ objects' = (objects \ {o}) \cup {[o EXCEPT !.status = "offline"]}
                  /\ UNCHANGED <<directory, used, doing, complete, raced>>

------------------------------------------------------------------------------
instance_path(o) == o.name
On(n, pcs) == {c \in StoreCalls : doing[c].pc \in pcs /\ instance_path(doing[c].of) = n}

\* fs::write: the file is made or emptied first.
SaveOpens(c, o) ==
  LET n == instance_path(o) IN
  /\ doing[c] = Free
  /\ doing' = [doing EXCEPT ![c] = [pc |-> "write", of |-> o, linked |-> TRUE]]
  /\ directory' = [directory EXCEPT ![n] = Empty]
  /\ raced' = IF On(n, {"write", "remove"}) = {} THEN raced \ {n} ELSE raced \cup {n}
  /\ UNCHANGED <<objects, used, complete>>

\* The text goes over what another save has written since, the end of which stays
\* when it is longer; a file that was removed since gets it, and nobody sees it.
SaveWrites(c) ==
  /\ doing[c].pc = "write"
  /\ LET o == doing[c].of
         n == instance_path(o)
     IN /\ \/ ~doing[c].linked /\ UNCHANGED directory
           \/ doing[c].linked /\ directory' = [directory EXCEPT ![n] = o]
           \/ /\ doing[c].linked /\ directory[n] # Empty
              /\ directory' = [directory EXCEPT ![n] = Torn]
        /\ complete' = [complete EXCEPT ![n] = o]
  /\ doing' = [doing EXCEPT ![c] = Free]
  /\ UNCHANGED <<objects, used, raced>>

\* The disk is full: the save returns an error and leaves what it has written.
SaveFails(c) ==
  /\ doing[c].pc = "write"
  /\ LET n == instance_path(doing[c].of)
     IN /\ \/ doing[c].linked /\ directory' = [directory EXCEPT ![n] = Torn]
           \/ UNCHANGED directory
        /\ raced' = raced \cup {n}
  /\ doing' = [doing EXCEPT ![c] = Free]
  /\ UNCHANGED <<objects, used, complete>>

\* What can be read of the directory; other files are skipped.
list_all_instances == {directory[n] : n \in {x \in Names : directory[x] \notin {NoFile, Empty, Torn}}}
find_by_id(i) == {o \in list_all_instances : o.id = i}
find_by_name(n) == directory[n]  \* Empty and Torn are errors

\* Mutant: the instance in memory is taken for the one in the file.
DeleteUnread(c, i) ==
  /\ doing[c] = Free
  /\ \E o \in {x \in objects : x.id = i} :
       doing' = [doing EXCEPT ![c] = [pc |-> "remove", of |-> o, linked |-> FALSE]]
  /\ UNCHANGED <<objects, directory, used, complete, raced>>
\* delete looks for the identifier in the files; without one that holds it, it is done.
DeleteLists(c, i) ==
  /\ doing[c] = Free
  /\ \E o \in find_by_id(i) :
       doing' = [doing EXCEPT ![c] = [pc |-> "remove", of |-> o, linked |-> FALSE]]
  /\ UNCHANGED <<objects, directory, used, complete, raced>>

\* The file of that name is removed, whoever is in it by now, or refused.
DeleteRemoves(c) ==
  /\ doing[c].pc = "remove"
  /\ LET n == instance_path(doing[c].of)
         i == doing[c].of.id
     IN \/ /\ directory' = [directory EXCEPT ![n] = NoFile]
           /\ complete' = [complete EXCEPT ![n] = IF @.id = i THEN NoFile ELSE @]
           /\ doing' = [d \in StoreCalls |->
                IF d = c THEN Free
                ELSE IF d \in On(n, {"write"}) THEN [doing[d] EXCEPT !.linked = FALSE]
                ELSE doing[d]]
        \/ doing' = [doing EXCEPT ![c] = Free] /\ UNCHANGED <<directory, complete>>
  /\ UNCHANGED <<objects, used, raced>>

\* The process dies and the next one loads what it can read.
StoreRestart ==
  /\ objects' = list_all_instances /\ doing' = [c \in StoreCalls |-> Free]
  /\ raced' = raced \cup {n \in Names : On(n, {"write"}) # {}}
  /\ UNCHANGED <<directory, used, complete>>

StoreNext ==
  \/ \E i \in InstanceIds, n \in Names : New(i, n)
  \/ \E o \in objects : mark_failed(o) \/ \E to \in Statuses : Mark(o, to)
  \/ \E c \in StoreCalls : \/ \E o \in objects : SaveOpens(c, o)
                            \/ \E i \in used : DeleteLists(c, i)
                            \/ SaveWrites(c) \/ SaveFails(c) \/ DeleteRemoves(c)
  \/ StoreRestart
StoreSpec == StoreInit /\ [][StoreNext]_storeVars

------------------------------------------------------------------------------
\* Only a save that is cut off, or that runs beside another call on its name, can be
\* lost or damaged: under every other name that nobody is writing, save and delete
\* leave what was saved last and not deleted since, whatever stale copies were saved
\* or deleted by their identifiers.  Races included, an identifier is found under one
\* name at most, its own, and no path leaves the directory.
StoreAgrees ==
  /\ \A n \in Names \ raced : On(n, {"write"}) = {} => directory[n] = complete[n]
  /\ \A i \in InstanceIds : /\ Cardinality(find_by_id(i)) <= 1
                            /\ \A o \in find_by_id(i) : find_by_name(o.name) = o /\ is_valid_name(o.name)
==============================================================================
