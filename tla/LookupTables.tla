----------------------------- MODULE LookupTables ----------------------------
(***************************************************************************)
(* The lookup tables of render/tables.cpp: tables of different owners      *)
(* (shutter curve, pixel filter, Beckmann) share one device vector.  A new *)
(* table goes into the first gap that holds it, or at the end, where the   *)
(* vector is resized; kernels find a table by the offset its owner keeps.  *)
(*                                                                         *)
(* lookup_tables is a list ordered by offset without duplicates, hence     *)
(* modelled as a set.  Of the contents of the vector only whose table an   *)
(* element belongs to is kept.                                             *)
(***************************************************************************)
EXTENDS Integers, FiniteSets

CONSTANTS
  Owner,     \* the owners of a table
  DataSize,  \* DataSize[o]: the number of floats in the table of o
  ChunkSize, \* TABLE_CHUNK_SIZE
  Unset      \* what an element that nobody wrote holds

ASSUME TableAssumption ==
  /\ DataSize \in [Owner -> Nat \ {0}]
  /\ ChunkSize \in Nat \ {0}
  /\ Unset \notin Owner

Invalid == -1   \* TABLE_OFFSET_INVALID

VARIABLES
  tables,            \* lookup_tables: [offset, size] of every table
  offset,            \* offset[o]: the offset the owner o keeps
  host,              \* dscene->lookup_table on the host: whose data an element holds
  onDevice,          \* and its copy on the device
  tablesNeedUpdate   \* LookupTables::need_update

tableVars == <<tables, offset, host, onDevice, tablesNeedUpdate>>

TablesInit ==
  /\ tables = {}
  /\ offset = [o \in Owner |-> Invalid]
  /\ host = <<>>
  /\ onDevice = <<>>
  /\ tablesNeedUpdate = TRUE

RoundUpToMultiple(size, chunk) == ((size + chunk - 1) \div chunk) * chunk
TableSize(o) == RoundUpToMultiple(DataSize[o], ChunkSize)
End(t) == t.offset + t.size

(* The loop of add_table tries 0 and then the end of every table in turn,  *)
(* and takes the first place that ends before the next table.              *)
Fits_StartTaken(ts, place, size) ==   \* mutant: a table that starts there is not seen
  \A t \in ts : t.offset > place => place + size <= t.offset
Fits(ts, place, size) == \A t \in ts : t.offset >= place => place + size <= t.offset
Places(ts, size) == {p \in {0} \cup {End(t) : t \in ts} : Fits(ts, p, size)}
FirstPlace(ts, size) ==
  CHOOSE p \in Places(ts, size) : \A q \in Places(ts, size) : p <= q
AtEnd(ts, place) == \A t \in ts : t.offset < place

Resized(n) == [i \in 0 .. n - 1 |-> IF i \in DOMAIN host THEN host[i] ELSE Unset]
Copied(o, place, memory) ==
  [i \in DOMAIN memory |-> IF i \in place .. place + DataSize[o] - 1 THEN o ELSE memory[i]]

Kept(o) == {t \in tables : t.offset # offset[o]}

(* remove_table; removing twice returns early at TABLE_OFFSET_INVALID.     *)
RemoveTable(o) ==
  /\ tables' = Kept(o)
  /\ offset' = [offset EXCEPT ![o] = Invalid]
  /\ tablesNeedUpdate' = (tablesNeedUpdate \/ offset[o] # Invalid)
  /\ UNCHANGED <<host, onDevice>>

(* add_table when the rest of the list is ts.  A resize frees the copy on  *)
(* the device, when the size changes.                                      *)
InsertTable(o, ts) ==
  LET size == TableSize(o)
      place == FirstPlace(ts, size)
      memory == IF AtEnd(ts, place) THEN Resized(place + size) ELSE host
  IN /\ tables' = ts \cup {[offset |-> place, size |-> size]}
     /\ offset' = [offset EXCEPT ![o] = place]
     /\ host' = Copied(o, place, memory)
     /\ onDevice' = IF DOMAIN memory = DOMAIN host THEN onDevice ELSE <<>>
     /\ tablesNeedUpdate' = TRUE

AddTable(o) == InsertTable(o, tables)

(* What the camera and the film do: remove_table, then add_table.          *)
ReplaceTable(o) == InsertTable(o, Kept(o))

(* device_update.                                                          *)
TablesDeviceUpdate ==
  /\ onDevice' = IF tablesNeedUpdate /\ tables # {} THEN host ELSE onDevice
  /\ tablesNeedUpdate' = FALSE
  /\ UNCHANGED <<tables, offset, host>>

TablesFree_NotBeckmann ==   \* mutant: one owner keeps its table
  /\ tables' = {t \in tables : t.offset = offset["beckmann"]}
  /\ offset' = [o \in Owner |-> IF o = "beckmann" THEN offset[o] ELSE Invalid]
  /\ host' = <<>> /\ onDevice' = <<>> /\ tablesNeedUpdate' = TRUE

(* Scene::free_memory: every owner removes its table, then device_free.    *)
TablesFree ==
  /\ tables' = {t \in tables : \A o \in Owner : t.offset # offset[o]}
  /\ offset' = [o \in Owner |-> Invalid]
  /\ host' = <<>>
  /\ onDevice' = <<>>
  /\ tablesNeedUpdate' = (tablesNeedUpdate \/ \E o \in Owner : offset[o] # Invalid)

TablesNext ==
  \/ \E o \in Owner :
       \/ RemoveTable(o)
       \/ offset[o] = Invalid /\ AddTable(o)
       \/ ReplaceTable(o)
  \/ TablesDeviceUpdate
  \/ TablesFree

TablesSpec == TablesInit /\ [][TablesNext]_tableVars

-----------------------------------------------------------------------------
TablesTypeOK ==
  /\ tables \in SUBSET [offset : Nat, size : Nat \ {0}]
  /\ offset \in [Owner -> Nat \cup {Invalid}]
  /\ tablesNeedUpdate \in BOOLEAN

(* No element of the vector belongs to two tables, and every table belongs *)
(* to the owner that keeps its offset: first-fit insertion into the list,  *)
(* which nothing but its order keeps apart.                                *)
TablesDisjoint ==
  /\ \A t, u \in tables : t # u => End(t) <= u.offset \/ End(u) <= t.offset
  /\ \A o, p \in Owner : o # p /\ offset[o] # Invalid => offset[o] # offset[p]

(* Where an owner believes its table to be, the vector holds all of its    *)
(* data: no other table was copied over it, and no resize cut it off.      *)
TablesIntact ==
  \A o \in Owner : offset[o] # Invalid =>
    \A i \in offset[o] .. offset[o] + DataSize[o] - 1 :
      i \in DOMAIN host /\ host[i] = o
=============================================================================
