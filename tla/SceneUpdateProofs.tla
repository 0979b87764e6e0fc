-------------------------- MODULE SceneUpdateProofs --------------------------
(***************************************************************************)
(* The lookup tables, for any owners, table sizes and chunk size, and      *)
(* Scene::device_update, which uses them, for any graphs and edits.        *)
(*                                                                         *)
(* The first part is about the tables alone: they never overlap, no owner  *)
(* loses its table, and its data stays in place.  add_table looks at the   *)
(* tables before a gap only to find its start, and at those behind it only *)
(* for its end.  This is enough because the start of a gap is the end of a *)
(* table that overlaps no other: whatever starts before it also ends       *)
(* before it (LEMMA Below).                                                *)
(*                                                                         *)
(* The second part: an update uses the tables as LookupTables says, so     *)
(* what is proved of them holds of a scene; the kernels find all tables on *)
(* the device; and no manager tags one that is already past, so that an    *)
(* update leaves nothing to update.                                        *)
(*                                                                         *)
(* The third part is the other direction: the flags are enough.  What is  *)
(* not fresh is owed (Owed) by a manager that is tagged and still to come, *)
(* for every product that the kernels or another manager read; so nothing  *)
(* is stale when the device gets its data.                                 *)
(***************************************************************************)
EXTENDS SceneUpdate, WellFoundedInduction, TLAPS

-----------------------------------------------------------------------------
(* The lookup tables                                                       *)

(* Every owner that keeps an offset has a table there, of its size, *)
(* and every table has an owner. *)
Owned ==
  /\ \A o \in Owner : offset[o] # Invalid => [offset |-> offset[o], size |-> TableSize(o)] \in tables
  /\ \A t \in tables : \E o \in Owner : offset[o] = t.offset

(* The vector is an array that holds all tables. *)
HoldsTables ==
  \E n \in Nat : DOMAIN host = 0 .. n - 1 /\ \A t \in tables : End(t) <= n

TInv == TablesTypeOK /\ TablesDisjoint /\ Owned /\ HoldsTables /\ TablesIntact

(* What InsertTable relies on, for the tables ts that stay. *)
Disjoint(ts) ==
  \A t, u \in ts : t # u => End(t) <= u.offset \/ End(u) <= t.offset
Table == [offset : Nat, size : Nat \ {0}]

-----------------------------------------------------------------------------

(* The one product of two variables that rounding up needs. *)
LEMMA Distribute ==
  ASSUME NEW q \in Int, NEW chunk \in Int, NEW n \in Int, n < (q + 1) * chunk
  PROVE  q * chunk \in Int /\ n < q * chunk + chunk
OBVIOUS

(* Rounding up to a multiple of the chunk makes a size no smaller. *)
LEMMA Rounding ==
  ASSUME NEW size \in Nat \ {0}, NEW chunk \in Nat \ {0}
  PROVE  /\ RoundUpToMultiple(size, chunk) \in Nat \ {0}
         /\ RoundUpToMultiple(size, chunk) >= size
<1> DEFINE q == (size + chunk - 1) \div chunk
<1>1. q \in Int /\ size + chunk - 1 < (q + 1) * chunk
  OBVIOUS
<1> HIDE DEF q
<1>2. q * chunk \in Int /\ size + chunk - 1 < q * chunk + chunk
  BY <1>1, Distribute
<1>3. \A r \in Int : size + chunk - 1 < r + chunk => r \in Nat \ {0} /\ r >= size
  OBVIOUS
<1>4. q * chunk \in Nat \ {0} /\ q * chunk >= size
  BY <1>2, <1>3
<1> QED BY <1>4 DEF RoundUpToMultiple, q

(* A table has room for the data of its owner. *)
LEMMA TableSizes ==
  ASSUME NEW o \in Owner
  PROVE  TableSize(o) \in Nat \ {0} /\ DataSize[o] \in Nat \ {0} /\ DataSize[o] <= TableSize(o)
BY Rounding, TableAssumption DEF TableSize

(* A set of naturals that is not empty has a smallest element. *)
LEMMA Smallest ==
  ASSUME NEW S \in SUBSET Nat, S # {}
  PROVE  \E m \in S : \A n \in S : m <= n
<1> DEFINE R == {ss \in Nat \X Nat : ss[1] < ss[2]}
<1>1. IsWellFoundedOn(R, Nat)
  BY NatLessThanWellFounded DEF OpToRel
<1>2. PICK m \in S : \A n \in S : ~ (<<n, m>> \in R)
  BY <1>1, WFMin
<1>3. ASSUME NEW n \in S PROVE m <= n
  <2>1. m \in Nat /\ n \in Nat /\ ~ (<<n, m>> \in R)
    BY <1>2
  <2>2. ~ (n < m)
    BY <2>1
  <2> QED BY <2>1, <2>2
<1> QED BY <1>3

(* There is a place for every table: the end of the last one. *)
LEMMA PlaceExists ==
  ASSUME NEW ts \in SUBSET Table, NEW n \in Nat, \A t \in ts : End(t) <= n, NEW size \in Nat
  PROVE  Places(ts, size) # {}
<1> DEFINE Bounds == {b \in Nat : \A t \in ts : End(t) <= b}
<1>1. PICK b \in Bounds : \A c \in Bounds : b <= c
  BY Smallest
<1>2. \A t \in ts : t.offset < b
  BY <1>1 DEF End, Table
<1>3. Fits(ts, b, size)
  BY <1>1, <1>2 DEF Fits, Table
<1>4. b \in {0} \cup {End(t) : t \in ts}
  <2>1. CASE b = 0
    BY <2>1
  <2>2. CASE b > 0
    <3>1. b - 1 \in Nat /\ b - 1 \notin Bounds
      BY <1>1, <2>2
    <3>2. PICK t \in ts : ~(End(t) <= b - 1)
      BY <3>1
    <3>3. End(t) = b
      BY <1>1, <3>2 DEF End, Table
    <3> QED BY <3>3
  <2> QED BY <1>1, <2>1, <2>2
<1> QED BY <1>3, <1>4 DEF Places

(* First fit always finds a place, at the latest past all tables. *)
LEMMA PlaceFound ==
  ASSUME NEW ts \in SUBSET Table, NEW n \in Nat, \A t \in ts : End(t) <= n, NEW size \in Nat
  PROVE  FirstPlace(ts, size) \in Places(ts, size) /\ FirstPlace(ts, size) \in Nat
<1>1. Places(ts, size) \subseteq Nat
  BY DEF Places, End, Table
<1>2. \E p \in Places(ts, size) : \A q \in Places(ts, size) : p <= q
  BY <1>1, PlaceExists, Smallest
<1> QED BY <1>1, <1>2 DEF FirstPlace

(* A table that starts before the place found ends before it. *)
LEMMA Below ==
  ASSUME NEW ts \in SUBSET Table, Disjoint(ts), NEW size \in Nat,
         NEW place \in Places(ts, size), NEW t \in ts, t.offset < place
  PROVE  End(t) <= place
<1>1. CASE place = 0
  BY <1>1 DEF Table
<1>2. ASSUME NEW u \in ts, place = End(u)
      PROVE  End(t) <= place
  BY <1>2 DEF Disjoint, End, Table
<1> QED BY <1>1, <1>2 DEF Places

-----------------------------------------------------------------------------
(* remove_table takes the table of its owner, and no other. *)
LEMMA KeptTables ==
  ASSUME TInv, NEW o \in Owner
  PROVE  /\ Kept(o) \in SUBSET Table
         /\ Disjoint(Kept(o))
         /\ offset[o] = Invalid => Kept(o) = tables
         /\ \A p \in Owner \ {o} : offset[p] # Invalid =>
              [offset |-> offset[p], size |-> TableSize(p)] \in Kept(o)
         /\ \A t \in Kept(o) : \E p \in Owner \ {o} : offset[p] = t.offset
<1>1. tables \in SUBSET Table
  BY DEF TInv, TablesTypeOK, Table
<1>2. Disjoint(Kept(o))
  BY DEF TInv, TablesDisjoint, Kept, Disjoint
<1>3. offset[o] = Invalid => Kept(o) = tables
  BY <1>1 DEF Kept, Table, Invalid
<1>4. ASSUME NEW p \in Owner \ {o}, offset[p] # Invalid
      PROVE  [offset |-> offset[p], size |-> TableSize(p)] \in Kept(o)
  <2>1. offset[p] # offset[o]
    BY <1>4 DEF TInv, TablesDisjoint
  <2> QED BY <1>4, <2>1 DEF TInv, Owned, Kept
<1>5. ASSUME NEW t \in Kept(o)
      PROVE  \E p \in Owner \ {o} : offset[p] = t.offset
  BY <1>5 DEF TInv, Owned, Kept
<1> QED BY <1>1, <1>2, <1>3, <1>4, <1>5 DEF Kept

(* remove_table keeps the invariant. *)
LEMMA RemoveKeeps ==
  ASSUME TInv, NEW o \in Owner, RemoveTable(o)
  PROVE  TInv'
<1> USE DEF RemoveTable
<1>1. TablesTypeOK'
  BY DEF TInv, TablesTypeOK, Kept, Invalid
<1>2. TablesDisjoint'
  BY DEF TInv, TablesTypeOK, TablesDisjoint, Kept, End
<1>3. Owned'
  BY KeptTables DEF TInv, TablesTypeOK, Owned, TableSize
<1>4. HoldsTables'
  BY DEF TInv, HoldsTables, Kept, End
<1>5. TablesIntact'
  BY DEF TInv, TablesTypeOK, TablesIntact
<1> QED BY <1>1, <1>2, <1>3, <1>4, <1>5 DEF TInv

(* add_table keeps the invariant. *)
LEMMA InsertKeeps ==
  ASSUME TInv, NEW o \in Owner, InsertTable(o, Kept(o))
  PROVE  TInv'
<1> DEFINE ts == Kept(o)
           size == TableSize(o)
           place == FirstPlace(ts, size)
           new == [offset |-> place, size |-> size]
           memory == IF AtEnd(ts, place) THEN Resized(place + size) ELSE host
<1>1. /\ size \in Nat \ {0} /\ DataSize[o] \in Nat \ {0} /\ DataSize[o] <= size
      /\ ts \in SUBSET Table /\ Disjoint(ts)
  BY TableSizes, KeptTables
<1>2. PICK n \in Nat : DOMAIN host = 0 .. n - 1 /\ \A t \in tables : End(t) <= n
  BY DEF TInv, HoldsTables
<1>3. place \in Places(ts, size) /\ place \in Nat
  BY <1>1, <1>2, PlaceFound DEF Kept
<1>4. /\ tables' = ts \cup {new}
      /\ offset' = [offset EXCEPT ![o] = place]
      /\ host' = Copied(o, place, memory)
      /\ tablesNeedUpdate' = TRUE
  BY DEF InsertTable
<1>5. \A p \in Owner : offset'[p] = IF p = o THEN place ELSE offset[p]
  BY <1>4 DEF TInv, TablesTypeOK
<1> HIDE DEF ts, size, place
<1>6. \A t \in ts : End(t) <= place \/ place + size <= t.offset
  <2> SUFFICES ASSUME NEW t \in ts, ~(t.offset >= place)
               PROVE  End(t) <= place
    BY <1>3 DEF Places, Fits
  <2> QED BY <1>1, <1>3, Below DEF Table
<1>7. TablesTypeOK'
  <2>1. new \in [offset : Nat, size : Nat \ {0}]
    BY <1>1, <1>3
  <2>2. tables' \in SUBSET [offset : Nat, size : Nat \ {0}]
    BY <1>1, <1>4, <2>1 DEF Table
  <2>3. offset' \in [Owner -> Nat \cup {Invalid}]
    BY <1>3, <1>4 DEF TInv, TablesTypeOK
  <2> QED BY <1>4, <2>2, <2>3 DEF TablesTypeOK
<1>8. TablesDisjoint'
  <2>1. \A t, u \in tables' : t # u => End(t) <= u.offset \/ End(u) <= t.offset
    BY <1>1, <1>3, <1>4, <1>6 DEF Disjoint, End, Table
  <2>2. ASSUME NEW p \in Owner \ {o}, offset[p] # Invalid
        PROVE  offset[p] # place
    <3>1. [offset |-> offset[p], size |-> TableSize(p)] \in ts
      BY <2>2, KeptTables DEF ts
    <3> QED BY <1>1, <1>3, <1>6, <3>1, TableSizes DEF End, Table
  <2> QED BY <1>5, <2>1, <2>2 DEF TInv, TablesDisjoint
<1>9. Owned'
  <2>1. ASSUME NEW p \in Owner, offset'[p] # Invalid
        PROVE  [offset |-> offset'[p], size |-> TableSize(p)] \in tables'
    BY <1>4, <1>5, <2>1, KeptTables DEF ts, size
  <2>2. ASSUME NEW t \in tables'
        PROVE  \E p \in Owner : offset'[p] = t.offset
    BY <1>4, <1>5, <2>2, KeptTables DEF ts
  <2> QED BY <2>1, <2>2 DEF Owned, TableSize
<1>10. PICK m \in Nat : /\ DOMAIN memory = 0 .. m - 1
                        /\ \A t \in tables' : End(t) <= m
                        /\ \A i \in DOMAIN memory : i \in DOMAIN host => memory[i] = host[i]
  <2>1. CASE AtEnd(ts, place)
    <3>1. DOMAIN memory = 0 .. (place + size) - 1
      BY <2>1 DEF Resized
    <3>2. \A t \in ts : End(t) <= place
      BY <1>1, <1>3, <1>6, <2>1 DEF AtEnd, Table
    <3>3. \A t \in tables' : End(t) <= place + size
      BY <1>1, <1>3, <1>4, <3>2 DEF End, Table
    <3>4. \A i \in DOMAIN memory : i \in DOMAIN host => memory[i] = host[i]
      BY <2>1 DEF Resized
    <3> QED BY <1>1, <1>3, <3>1, <3>3, <3>4
  <2>2. CASE ~AtEnd(ts, place)
    <3>1. PICK t \in ts : place + size <= t.offset
      BY <1>1, <1>3, <1>6, <2>2 DEF AtEnd, End, Table
    <3>2. End(t) <= n /\ t \in Table
      BY <1>1, <1>2 DEF Kept, ts
    <3>3. place + size <= n
      BY <1>1, <1>2, <1>3, <3>1, <3>2 DEF End, Table
    <3> QED BY <1>2, <1>4, <2>2, <3>3 DEF End, ts, Kept
  <2> QED BY <2>1, <2>2
<1>11. /\ DOMAIN host' = 0 .. m - 1
       /\ \A i \in 0 .. m - 1 : host'[i] = IF i \in place .. place + DataSize[o] - 1
                                          THEN o ELSE memory[i]
  BY <1>4, <1>10 DEF Copied
<1>12. HoldsTables'
  BY <1>10, <1>11 DEF HoldsTables, End
<1>13. TablesIntact'
  <2> SUFFICES ASSUME NEW p \in Owner, offset'[p] # Invalid,
                      NEW i \in offset'[p] .. offset'[p] + DataSize[p] - 1
               PROVE  i \in DOMAIN host' /\ host'[i] = p
    BY DEF TablesIntact
  <2>1. CASE p = o
    <3>1. new \in tables' /\ End(new) = place + size
      BY <1>4 DEF End
    <3>2. i \in place .. place + DataSize[o] - 1 /\ place + size <= m
      BY <1>5, <1>10, <2>1, <3>1
    <3> QED BY <1>1, <1>3, <1>11, <2>1, <3>2
  <2>2. CASE p # o
    <3> DEFINE t == [offset |-> offset[p], size |-> TableSize(p)]
    <3>1. t \in ts /\ offset[p] \in Nat
      BY <1>5, <2>2, KeptTables DEF ts, TInv, TablesTypeOK
    <3>2. i \in offset[p] .. offset[p] + DataSize[p] - 1
      BY <1>5, <2>2
    <3>3. i \in DOMAIN host /\ host[i] = p
      BY <1>5, <2>2, <3>2 DEF TInv, TablesIntact
    <3>4. /\ t.offset <= i /\ i < End(t)
          /\ End(t) <= m
          /\ End(t) <= place \/ place + size <= t.offset
      BY <1>4, <1>6, <1>10, <3>1, <3>2, TableSizes DEF End
    <3>5. i \in 0 .. m - 1 /\ i \notin place .. place + DataSize[o] - 1
      BY <1>1, <1>3, <3>1, <3>2, <3>4, TableSizes DEF End
    <3> QED BY <1>10, <1>11, <3>3, <3>5
  <2> QED BY <2>1, <2>2
<1> QED BY <1>7, <1>8, <1>9, <1>12, <1>13 DEF TInv

-----------------------------------------------------------------------------

(* No tables at the start. *)
LEMMA InitTables == TablesInit => TInv
<1> SUFFICES ASSUME TablesInit PROVE TInv
  OBVIOUS
<1>1. \A o \in Owner : offset[o] = Invalid
  BY DEF TablesInit
<1>2. HoldsTables
  <2>1. DOMAIN host = 0 .. 0 - 1
    BY DEF TablesInit
  <2> QED BY <2>1 DEF HoldsTables, TablesInit
<1>3. TablesTypeOK
  BY DEF TablesTypeOK, TablesInit
<1> QED BY <1>1, <1>2, <1>3 DEF TablesInit, TInv, TablesDisjoint, Owned, TablesIntact

(* Freeing all tables keeps the invariant. *)
LEMMA FreeKeeps ==
  ASSUME TInv, TablesFree
  PROVE  TInv'
<1>1. tables' = {}
  BY DEF TablesFree, TInv, Owned
<1> QED BY <1>1 DEF TablesFree, TInv, TablesTypeOK, TablesDisjoint, Owned, HoldsTables,
                    TablesIntact, Invalid

(* Every operation on the tables keeps the invariant. *)
LEMMA TablesStepKeeps == TInv /\ [TablesNext]_tableVars => TInv'
<1> SUFFICES ASSUME TInv, [TablesNext]_tableVars PROVE TInv'
  OBVIOUS
<1>1. ASSUME NEW o \in Owner, RemoveTable(o) PROVE TInv'
  BY <1>1, RemoveKeeps
<1>2. ASSUME NEW o \in Owner, offset[o] = Invalid, AddTable(o) PROVE TInv'
  <2>1. InsertTable(o, Kept(o))
    BY <1>2, KeptTables DEF AddTable
  <2> QED BY <2>1, InsertKeeps
<1>3. ASSUME NEW o \in Owner, ReplaceTable(o) PROVE TInv'
  BY <1>3, InsertKeeps DEF ReplaceTable
<1>4. CASE TablesDeviceUpdate
  BY <1>4 DEF TablesDeviceUpdate, TInv, TablesTypeOK, TablesDisjoint, Owned, HoldsTables,
              TablesIntact, TableSize, End
<1>5. CASE TablesFree
  BY <1>5, FreeKeeps
<1>6. CASE UNCHANGED tableVars
  BY <1>6 DEF tableVars, TInv, TablesTypeOK, TablesDisjoint, Owned, HoldsTables,
              TablesIntact, TableSize, End
<1> QED BY <1>1, <1>2, <1>3, <1>4, <1>5, <1>6 DEF TablesNext

(* Whatever tables are added and removed, in whatever order: no element of *)
(* the device vector belongs to two of them.                               *)
THEOREM NoOverlap == TablesSpec => []TablesDisjoint
<1>1. TInv => TablesDisjoint
  BY DEF TInv
<1> QED BY <1>1, InitTables, TablesStepKeeps, PTL DEF TablesSpec

(* Every owner finds all of its data at the offset it keeps.               *)
THEOREM DataInPlace == TablesSpec => []TablesIntact
<1>1. TInv => TablesIntact
  BY DEF TInv
<1> QED BY <1>1, InitTables, TablesStepKeeps, PTL DEF TablesSpec

-----------------------------------------------------------------------------
(* Updates of a scene                                                      *)

(* The flags that the steps before s have cleared, and none after them raises. *)
Cleared(s) ==
  CASE s = "background" -> {"shader"}
    [] s \in {"camera", "preprocess", "object", "particles"} -> {"shader", "background"}
    [] s = "geometry" -> {"shader", "background", "particles"}
    [] s = "objectFlags" -> {"shader", "background", "particles", "geometry"}
    [] s = "images" -> {"shader", "background", "particles", "geometry", "object"}
    [] s \in {"cameraVolume", "tables", "light"} ->
         {"shader", "background", "particles", "geometry", "object", "image"}
    [] s = "integrator" ->
         {"shader", "background", "particles", "geometry", "object", "image", "light"}
    [] s = "film" ->
         {"shader", "background", "particles", "geometry", "object", "image", "light",
          "integrator"}
    [] s \in {"filmTables", "copy"} ->
         {"shader", "background", "particles", "geometry", "object", "image", "light",
          "integrator", "film"}
    [] OTHER -> {}

(* The camera's flag is cleared before the others are looked at. *)
CameraCleared(s) ==
  IF s \in {"idle", "sync", "cancelled", "deleted", "shader", "background", "camera"}
  THEN {} ELSE {"camera"}

Order == (Cleared(step) \cup CameraCleared(step)) \cap tagged = {}

(* What the device holds is what the host holds, unless a flag says so. *)
DeviceFollows ==
  /\ ~tablesNeedUpdate /\ tables # {} => onDevice = host
  /\ step = "copy" => ~tablesNeedUpdate

SInv == TInv /\ Order /\ DeviceFollows /\ TablesRemoved

-----------------------------------------------------------------------------
(* The steps of an update use the tables as LookupTables says. *)
LEMMA TablesSteps == [Next]_vars => [TablesNext]_tableVars
<1> SUFFICES ASSUME [Next]_vars PROVE [TablesNext]_tableVars
  OBVIOUS
<1> USE DEF tableVars
<1>1. {"shutter", "filter", "beckmann"} \subseteq Owner
  BY SceneAssumption
<1>2. CASE Edit
  BY <1>2 DEF Edit, EditShader, EditWorld, EditObject, RemoveObject, EditMesh, EditLight,
              EditCamera, EditBackground, EditParticles, EditIntegrator, EditFilm, Tag
<1>3. CASE DeviceUpdate
  <2>1. CASE ShaderStep
    BY <1>1, <2>1 DEF ShaderStep, TablesNext
  <2>2. CASE CameraStep
    BY <1>1, <2>2 DEF CameraStep, TablesNext
  <2>3. CASE FilmStep
    BY <1>1, <2>3 DEF FilmStep, TablesNext
  <2>4. CASE TablesStep
    BY <2>4 DEF TablesStep, TablesNext
  <2>5. CASE Begin \/ BackgroundStep \/ PreprocessStep \/ ObjectStep \/ ParticlesStep
             \/ GeometryStep \/ ObjectFlagsStep \/ ImagesStep \/ CameraVolumeStep
             \/ LightStep \/ IntegratorStep \/ CopyStep
    BY <2>5 DEF Begin, BackgroundStep, PreprocessStep, ObjectStep, ParticlesStep, GeometryStep,
                ObjectFlagsStep, ImagesStep, CameraVolumeStep, LightStep, IntegratorStep, CopyStep
  <2> QED BY <1>3, <2>1, <2>2, <2>3, <2>4, <2>5 DEF DeviceUpdate
<1>4. CASE Cancel \/ Reset \/ Sync
  BY <1>4 DEF Cancel, Reset, Sync
<1>5. CASE Delete
  BY <1>5 DEF Delete, TablesNext
<1>6. CASE UNCHANGED vars
  BY <1>6 DEF vars
<1> QED BY <1>2, <1>3, <1>4, <1>5, <1>6 DEF Next

(* No step of a scene breaks the invariant of its lookup tables. *)
LEMMA StepKeepsTables == TInv /\ [Next]_vars => TInv'
BY TablesSteps, TablesStepKeeps

-----------------------------------------------------------------------------

(* No step of an update raises a flag of a manager that is already past. *)
LEMMA OrderStep ==
  ASSUME Order, [Next]_vars
  PROVE  Order'
<1> USE DEF Order, Cleared, CameraCleared
<1>1. CASE Edit
  <2>1. step' = "idle"
    BY <1>1 DEF Edit, EditShader, EditWorld, EditObject, RemoveObject, EditMesh, EditLight,
              EditCamera, EditBackground, EditParticles, EditIntegrator, EditFilm, Tag
  <2> QED BY <2>1
<1>2. CASE Begin
  BY <1>2 DEF Begin
<1>3. CASE ShaderStep
  BY <1>3 DEF ShaderStep, Step
<1>4. CASE BackgroundStep
  BY <1>4 DEF BackgroundStep, Step, MakeIfTagged
<1>5. CASE CameraStep
  BY <1>5 DEF CameraStep, Step
<1>6. CASE PreprocessStep
  BY <1>6 DEF PreprocessStep, Step
<1>7. CASE ObjectStep
  BY <1>7 DEF ObjectStep, Step, MakeIfTagged
<1>8. CASE ParticlesStep
  BY <1>8 DEF ParticlesStep, Step, MakeIfTagged
<1>9. CASE GeometryStep
  BY <1>9 DEF GeometryStep, Step
<1>10. CASE ObjectFlagsStep
  BY <1>10 DEF ObjectFlagsStep, Step
<1>11. CASE ImagesStep
  BY <1>11 DEF ImagesStep, Step, MakeIfTagged
<1>12. CASE CameraVolumeStep
  BY <1>12 DEF CameraVolumeStep, Step
<1>13. CASE TablesStep
  BY <1>13 DEF TablesStep, Step
<1>14. CASE LightStep
  BY <1>14 DEF LightStep, Step
<1>15. CASE IntegratorStep
  BY <1>15 DEF IntegratorStep, Step, MakeIfTagged
<1>16. CASE FilmStep
  BY <1>16 DEF FilmStep, Step, MakeIfTagged
<1>17. CASE CopyStep \/ Cancel \/ Reset \/ Sync \/ Delete
  BY <1>17 DEF CopyStep, Cancel, Reset, Sync, Delete
<1>18. CASE UNCHANGED vars
  BY <1>18 DEF vars
<1> QED BY <1>1, <1>2, <1>3, <1>4, <1>5, <1>6, <1>7, <1>8, <1>9, <1>10, <1>11, <1>12, <1>13,
           <1>14, <1>15, <1>16, <1>17, <1>18 DEF Next, DeviceUpdate

-----------------------------------------------------------------------------
(* Every change of the tables raises the flag that the device update lowers. *)
LEMMA TableChangesSeen ==
  ASSUME TInv, [TablesNext]_tableVars,
         ~tablesNeedUpdate /\ tables # {} => onDevice = host
  PROVE  ~tablesNeedUpdate' /\ tables' # {} => onDevice' = host'
<1>1. ASSUME NEW o \in Owner, RemoveTable(o), ~tablesNeedUpdate', tables' # {}
      PROVE  onDevice' = host'
  <2>1. ~tablesNeedUpdate /\ tables' \subseteq tables /\ UNCHANGED <<host, onDevice>>
    BY <1>1 DEF RemoveTable, Kept
  <2> QED BY <1>1, <2>1
<1>2. ASSUME NEW o \in Owner, AddTable(o) \/ ReplaceTable(o)
      PROVE  tablesNeedUpdate'
  BY <1>2 DEF AddTable, ReplaceTable, InsertTable
<1>3. CASE TablesDeviceUpdate
  BY <1>3 DEF TablesDeviceUpdate
<1>4. CASE TablesFree
  BY <1>4 DEF TablesFree, TInv, Owned
<1>5. CASE UNCHANGED tableVars
  BY <1>5 DEF tableVars
<1> QED BY <1>1, <1>2, <1>3, <1>4, <1>5 DEF TablesNext

(* A step that changes the tables on the host sets the flag for the copy,
   and only the copy clears it. *)
LEMMA DeviceFollowsStep ==
  ASSUME TInv, DeviceFollows, [Next]_vars
  PROVE  DeviceFollows'
<1>1. ~tablesNeedUpdate' /\ tables' # {} => onDevice' = host'
  BY TablesSteps, TableChangesSeen DEF DeviceFollows
<1>2. ASSUME step' = "copy" PROVE ~tablesNeedUpdate'
  <2>1. CASE UNCHANGED vars
    BY <1>2, <2>1 DEF vars, tableVars, DeviceFollows
  <2>2. CASE TablesStep
    BY <2>2 DEF TablesStep, TablesDeviceUpdate
  <2>3. step' # "copy" \/ TablesStep \/ UNCHANGED vars
    BY DEF Next, Edit, EditShader, EditWorld, EditObject, RemoveObject, EditMesh, EditLight,
           EditCamera, EditBackground, EditParticles, EditIntegrator, EditFilm, Tag,
           DeviceUpdate, Begin, ShaderStep, BackgroundStep, CameraStep, PreprocessStep,
           ObjectStep, ParticlesStep, GeometryStep, ObjectFlagsStep, ImagesStep,
           CameraVolumeStep, LightStep, IntegratorStep, FilmStep, CopyStep, Step,
           Cancel, Reset, Sync, Delete
  <2> QED BY <1>2, <2>1, <2>2, <2>3
<1> QED BY <1>1, <1>2 DEF DeviceFollows

(* A deleted scene gets no new tables. *)
LEMMA RemovedStep ==
  ASSUME TInv, TablesRemoved, [Next]_vars
  PROVE  TablesRemoved'
<1>1. CASE Delete
  BY <1>1 DEF Delete, TablesFree, TInv, Owned, TablesRemoved
<1>2. CASE UNCHANGED vars
  BY <1>2 DEF vars, tableVars, TablesRemoved
<1>3. step' # "deleted" \/ Delete \/ UNCHANGED vars
  BY DEF Next, Edit, EditShader, EditWorld, EditObject, RemoveObject, EditMesh, EditLight,
         EditCamera, EditBackground, EditParticles, EditIntegrator, EditFilm, Tag,
         DeviceUpdate, Begin, ShaderStep, BackgroundStep, CameraStep, PreprocessStep,
         ObjectStep, ParticlesStep, GeometryStep, ObjectFlagsStep, ImagesStep,
         CameraVolumeStep, TablesStep, LightStep, IntegratorStep, FilmStep, CopyStep, Step,
         Cancel, Reset, Sync
<1> QED BY <1>1, <1>2, <1>3 DEF TablesRemoved

(* The invariant of a scene and its lookup tables holds in every reachable
   state. *)
LEMMA SceneInvariance == Spec => []SInv
<1>1. Init => SInv
  BY InitTables DEF Init, SInv, Order, Cleared, CameraCleared, DeviceFollows, TablesRemoved,
                    TablesInit
<1>2. SInv /\ [Next]_vars => SInv'
  BY StepKeepsTables, OrderStep, DeviceFollowsStep, RemovedStep DEF SInv
<1> QED BY <1>1, <1>2, PTL DEF Spec

-----------------------------------------------------------------------------
(* Tables do not overlap, whatever a scene does. *)
THEOREM SceneTablesDisjoint == Spec => []TablesDisjoint
<1>1. SInv => TablesDisjoint
  BY DEF SInv, TInv
<1> QED BY <1>1, SceneInvariance, PTL

(* When the kernels get their data, the tables they will look up are on the *)
(* device at the offsets they will use.                                     *)
THEOREM TablesReachDevice == Spec => []TablesOnDevice
<1>1. SInv => TablesOnDevice
  <2> SUFFICES ASSUME SInv, step = "copy", NEW o \in Owner, offset[o] # Invalid
               PROVE  /\ onDevice = host
                      /\ \A i \in offset[o] .. offset[o] + DataSize[o] - 1 :
                           i \in DOMAIN host /\ host[i] = o
    BY DEF TablesOnDevice
  <2>1. tables # {}
    BY DEF SInv, TInv, Owned
  <2> QED BY <2>1 DEF SInv, DeviceFollows, TInv, TablesIntact
<1> QED BY <1>1, SceneInvariance, PTL

(* The destructor's assertion holds. *)
THEOREM NoTableLeft == Spec => []TablesRemoved
<1>1. SInv => TablesRemoved
  BY DEF SInv
<1> QED BY <1>1, SceneInvariance, PTL

(* An update leaves nothing to update. *)
THEOREM UpdateSettles == Spec => []Settles
<1>1. SInv => Settles
  BY DEF SInv, Order, Cleared, CameraCleared, DeviceFollows, Settles, NeedUpdate, NeedReset,
         NeedDataUpdate
<1> QED BY <1>1, SceneInvariance, PTL

-----------------------------------------------------------------------------
(* Every product follows every edit.  A product that does not show the     *)
(* scene is owed: the step that makes it is still to come, and a flag that *)
(* makes it do so is raised.  The steps before this one are then known to  *)
(* have made theirs, so what a product needs is current when it is made.   *)
Live == step \notin {"sync", "cancelled", "deleted"}

UptoShader == {"idle", "shader"}
UptoBackground == UptoShader \cup {"background"}
UptoCamera == UptoBackground \cup {"camera"}
UptoPreprocess == UptoCamera \cup {"preprocess"}
UptoObject == UptoPreprocess \cup {"object"}
UptoParticles == UptoObject \cup {"particles"}
UptoGeometry == UptoParticles \cup {"geometry"}
UptoObjectFlags == UptoGeometry \cup {"objectFlags"}
UptoImages == UptoObjectFlags \cup {"images"}
UptoCameraVolume == UptoImages \cup {"cameraVolume"}
UptoLight == UptoCameraVolume \cup {"tables", "light"}
UptoIntegrator == UptoLight \cup {"integrator"}
UptoFilm == UptoIntegrator \cup {"film"}

Owed(p, upto, flagged) == p \in fresh \/ (step \in upto /\ flagged)

(* What compiling the shaders finds out holds of the graphs. *)
ShadersFollow ==
  /\ Owed("svm", UptoShader, "shader" \in tagged)
  /\ compiled = KindsOf(graph) \/ (step \in UptoShader /\ "shader" \in tagged)

SceneFollows ==
  /\ Owed("background", UptoBackground, "background" \in tagged)
  /\ Owed("camera", UptoCamera, "camera" \in tagged)
  /\ Owed("volumeFlags", UptoPreprocess, "geometry" \in tagged)
  /\ Owed("objects", UptoObject, "object" \in tagged)
  /\ Owed("particles", UptoParticles, "particles" \in tagged)
  /\ Owed("objectFlags", UptoObjectFlags, "object" \in tagged)
  /\ Owed("integrator", UptoIntegrator, "integrator" \in tagged)
  /\ Owed("film", UptoFilm, "film" \in tagged)

(* Images are tagged by the compilation that adds them. *)
GeometryFollows ==
  /\ Owed("mesh", UptoGeometry,
          "geometry" \in tagged /\ tagged \cap {"mesh", "meshShader"} # {})
  /\ Owed("geometry", UptoGeometry, "geometry" \in tagged)
  /\ Owed("images", UptoImages,
          \/ "image" \in tagged
          \/ step \in UptoShader /\ newImage /\ "shader" \in tagged)

(* Camera::update raises the flags of the device; those that objects raise *)
(* do not by themselves start an update.                                   *)
CameraFollows ==
  /\ Owed("cameraVolume", UptoCameraVolume,
          \/ tagged \cap {"cameraDevice", "cameraFlags"} # {}
          \/ step \in UptoCamera /\ "camera" \in tagged)
  /\ step = "idle" /\ tagged \cap {"cameraDevice", "cameraFlags"} # {} => "object" \in tagged
  /\ step \notin UptoCameraVolume => tagged \cap {"cameraDevice", "cameraFlags"} = {}

(* The light manager's flag covers what the shaders emit and what hides    *)
(* objects with emission; the film copies that to the kernels.             *)
LightsFollow ==
  /\ Owed("lights", UptoLight, "light" \in tagged)
  /\ Owed("lightBackground", UptoLight,
          /\ "light" \in tagged
          /\ "lightBackground" \in tagged \/ backgroundLight # lastBackground)
  /\ \/ /\ lit = compiled.emission
        /\ filmVisibility = (restricted /\ compiled.emission)
        /\ compiled.emission => graph.emission
     \/ step \in UptoLight /\ "light" \in tagged
  /\ kernelVisibility = filmVisibility \/ (step \in UptoFilm /\ "film" \in tagged)

Follows == ShadersFollow /\ SceneFollows /\ GeometryFollows /\ CameraFollows /\ LightsFollow

KindsOK ==
  /\ graph \in GraphKind
  /\ compiled \in [emission : BOOLEAN, volume : BOOLEAN, glossy : BOOLEAN]
  /\ backgroundLight \in BOOLEAN

(* Scene::reset tags what the new BlenderSync does not. *)
ResetTags ==
  step = "sync" =>
    {"shader", "camera", "film", "particles", "background", "integrator", "object",
     "geometry"} \subseteq tagged

FInv == KindsOK /\ ResetTags /\ (Live => Follows)

(* The two edits that do not tag all that depends on them: an integrator   *)
(* that changes the volume step rate, and a film that switches on two      *)
(* passes at once.                                                         *)
EditsTagged == TRUE \notin RateChanges /\ {"uv", "ao"} \notin PassChanges

-----------------------------------------------------------------------------
(* What an edit must tag, by what it changes. *)
Tells(changed, flags) ==
  /\ changed \cap {"shader", "image", "world", "attributes", "displacement", "volume"} # {}
       => "shader" \in flags
  /\ "integrator" \in changed => (graph'.glossy => "shader" \in tagged \cup flags)
  /\ changed \cap {"background", "world", "rate"} # {} => "background" \in flags
  /\ "camera" \in changed => "camera" \in flags
  /\ changed \cap {"object", "removal", "deform", "rebuild", "attributes", "displacement", "uv",
                  "volume"} # {} => "geometry" \in flags
  /\ changed \cap {"object", "removal", "particles", "volume"} # {} => "object" \in flags
  /\ "particles" \in changed => "particles" \in flags
  /\ changed \cap {"deform", "rebuild", "attributes", "displacement", "uv"} # {}
       => {"mesh", "meshShader"} \cap flags # {}
  /\ "image" \in changed => newImage'
  /\ changed \cap {"volume", "object", "deform", "rebuild"} # {}
       => {"cameraFlags", "object"} \subseteq flags
  /\ flags \cap {"cameraDevice", "cameraFlags"} # {} => "object" \in flags
  /\ changed \cap {"light", "backgroundLight"} # {} => "light" \in flags
  /\ changed \cap {"object", "removal", "deform", "rebuild"} # {}
       => (compiled.emission => "light" \in flags)
  /\ "backgroundLight" \in changed \/ ("world" \in changed /\ backgroundLight')
       => {"light", "lightBackground"} \subseteq flags
  /\ changed \cap {"integrator", "rate", "background", "ao"} # {} => "integrator" \in flags
  /\ changed \cap {"film", "uv", "ao"} # {} => "film" \in flags
  /\ "lightgroups" \notin changed

(* Read the other way round, DependsOn gives for each product the changes
   that can have outdated it. *)
LEMMA OutdatedBy ==
  ASSUME NEW c
  PROVE  /\ "svm" \in Outdated(c) =>
              \/ c \cap {"shader", "image", "world", "attributes", "displacement", "volume"} # {}
              \/ graph'.glossy /\ "integrator" \in c
         /\ "background" \in Outdated(c) => c \cap {"background", "world", "rate"} # {}
         /\ "camera" \in Outdated(c) => "camera" \in c
         /\ "volumeFlags" \in Outdated(c) => c \cap {"volume", "object"} # {}
         /\ "objects" \in Outdated(c) =>
              c \cap {"object", "removal", "lightgroups", "particles"} # {}
         /\ "particles" \in Outdated(c) => "particles" \in c
         /\ "mesh" \in Outdated(c) =>
              c \cap {"deform", "rebuild", "attributes", "uv", "displacement"} # {}
         /\ "geometry" \in Outdated(c) =>
              c \cap {"object", "removal", "deform", "rebuild", "attributes", "displacement",
                      "uv"} # {}
         /\ "objectFlags" \in Outdated(c) => c \cap {"object", "removal", "volume"} # {}
         /\ "images" \in Outdated(c) => "image" \in c
         /\ "cameraVolume" \in Outdated(c) =>
              c \cap {"camera", "volume", "object", "deform", "rebuild"} # {}
         /\ "lights" \in Outdated(c) =>
              \/ c \cap {"light", "lightgroups", "backgroundLight"} # {}
              \/ lit /\ c \cap {"object", "removal", "deform", "rebuild"} # {}
         /\ "lightBackground" \in Outdated(c) =>
              "backgroundLight" \in c \/ (backgroundLight' /\ "world" \in c)
         /\ "integrator" \in Outdated(c) =>
              c \cap {"integrator", "rate", "background", "ao"} # {}
         /\ "film" \in Outdated(c) => c \cap {"film", "uv", "ao", "lightgroups"} # {}
BY DEF Outdated, DependsOn, Products

(* An edit that tells those it should leaves all it changed owed.          *)
LEMMA TagKeeps ==
  ASSUME FInv, NEW changed, NEW flags, Tag(changed, flags), Tells(changed, flags),
         KindsOK', compiled'.emission = compiled.emission,
         (graph' = graph /\ compiled' = compiled) \/ "shader" \in flags,
         newImage => newImage',
         (graph' = graph /\ restricted' = restricted) \/ (compiled.emission => "light" \in flags),
         backgroundLight' = backgroundLight \/ "lightBackground" \in flags
  PROVE  FInv'
<1>1. /\ step = "idle" /\ step' = "idle"
      /\ tagged' = tagged \cup flags /\ fresh' = fresh \ Outdated(changed)
      /\ UNCHANGED <<lit, filmVisibility, kernelVisibility, lastBackground>>
  BY DEF Tag
<1>2. Follows /\ Live'
  BY <1>1 DEF FInv, Live
<1> USE <1>1, <1>2 DEF Follows, Owed, Tells
<1>3. ShadersFollow'
  <2>1. "svm" \in Outdated(changed) => "shader" \in tagged'
    BY OutdatedBy
  <2> QED BY <2>1 DEF ShadersFollow, UptoShader, KindsOf
<1>4. SceneFollows'
  <2>1. /\ "background" \in Outdated(changed) => "background" \in flags
        /\ "camera" \in Outdated(changed) => "camera" \in flags
        /\ "volumeFlags" \in Outdated(changed) => "geometry" \in flags
    BY OutdatedBy
  <2>2. /\ "objects" \in Outdated(changed) => "object" \in flags
        /\ "particles" \in Outdated(changed) => "particles" \in flags
        /\ "objectFlags" \in Outdated(changed) => "object" \in flags
    BY OutdatedBy
  <2>3. /\ "integrator" \in Outdated(changed) => "integrator" \in flags
        /\ "film" \in Outdated(changed) => "film" \in flags
    BY OutdatedBy
  <2> QED
    BY <2>1, <2>2, <2>3
       DEF SceneFollows, UptoBackground, UptoCamera, UptoPreprocess, UptoObject,
           UptoParticles, UptoGeometry, UptoObjectFlags, UptoImages, UptoCameraVolume,
           UptoLight, UptoIntegrator, UptoFilm, UptoShader
<1>5. GeometryFollows'
  <2>1. "mesh" \in Outdated(changed) =>
          "geometry" \in flags /\ {"mesh", "meshShader"} \cap flags # {}
    BY OutdatedBy
  <2>2. "geometry" \in Outdated(changed) => "geometry" \in flags
    BY OutdatedBy
  <2>3. "images" \in Outdated(changed) => newImage' /\ "shader" \in flags
    BY OutdatedBy
  <2> QED
    BY <2>1, <2>2, <2>3
       DEF GeometryFollows, UptoGeometry, UptoImages, UptoObjectFlags, UptoShader,
           UptoBackground, UptoCamera, UptoPreprocess, UptoObject, UptoParticles
<1>6. CameraFollows'
  <2>1. "cameraVolume" \in Outdated(changed) =>
          "camera" \in flags \/ "cameraFlags" \in flags
    BY OutdatedBy
  <2> QED
    BY <2>1
       DEF CameraFollows, UptoCameraVolume, UptoImages, UptoGeometry, UptoObjectFlags,
           UptoShader, UptoBackground, UptoCamera, UptoPreprocess, UptoObject, UptoParticles
<1>7. LightsFollow'
  <2>1. "idle" \in UptoLight /\ "idle" \in UptoFilm
    BY DEF UptoFilm, UptoIntegrator, UptoLight, UptoCameraVolume, UptoImages, UptoGeometry,
           UptoObjectFlags, UptoShader, UptoBackground, UptoCamera, UptoPreprocess,
           UptoObject, UptoParticles
  <2>2. "light" \in tagged \/ lit = compiled.emission
    BY DEF LightsFollow
  <2>3. "lights" \in Outdated(changed) => "light" \in tagged'
    BY <2>2, OutdatedBy
  <2>4. "lightBackground" \in Outdated(changed) => {"light", "lightBackground"} \subseteq flags
    BY OutdatedBy
  <2> QED
    BY <2>1, <2>3, <2>4 DEF LightsFollow
<1> QED
  BY <1>3, <1>4, <1>5, <1>6, <1>7 DEF FInv, ResetTags

(* A material. *)
LEMMA ShaderEdited ==
  ASSUME FInv, NEW g \in Graphs, NEW attributes \in BOOLEAN, NEW displacement \in BOOLEAN,
         NEW image \in BOOLEAN, EditShader(g, attributes, displacement, image)
  PROVE  FInv'
<1> DEFINE displaces == g.displaced # graph.displaced \/ (displacement /\ g.displaced)
           flags == TagShader(g, attributes, displaces)
           changed == {"shader"} \cup (IF g.volume # graph.volume THEN {"volume"} ELSE {})
                        \cup (IF attributes THEN {"attributes"} ELSE {})
                        \cup (IF displaces THEN {"displacement"} ELSE {})
                        \cup (IF image THEN {"image"} ELSE {})
           all == flags \cup SyncObjects(flags \cup tagged)
<1>1. /\ graph' = g /\ compiled' = [compiled EXCEPT !.volume = @ \/ g.volume]
      /\ newImage' = (newImage \/ image)
      /\ UNCHANGED <<restricted, backgroundLight>>
      /\ Tag(changed, all)
  BY DEF EditShader
<1>2. KindsOK' /\ compiled'.emission = compiled.emission
  BY <1>1, SceneAssumption DEF FInv, KindsOK, GraphKind
<1>3. /\ {"shader", "cameraFlags", "geometry", "object"} \subseteq all
      /\ compiled.emission => "light" \in all
      /\ attributes \/ displaces => "meshShader" \in all
  BY DEF TagShader, SyncObjects, TagObject, TagGeometry, IfEmissive
<1>4. /\ "shader" \in changed
      /\ changed \subseteq {"shader", "volume", "attributes", "displacement", "image"}
      /\ "attributes" \in changed => attributes
      /\ "displacement" \in changed => displaces
      /\ "image" \in changed => image
  OBVIOUS
<1> HIDE DEF changed, all
<1>5. Tells(changed, all)
  BY <1>1, <1>3, <1>4 DEF Tells
<1> QED BY <1>1, <1>2, <1>3, <1>5, TagKeeps

(* The other edits change no shader. *)
LEMMA OthersKeep ==
  ASSUME FInv, NEW changed, NEW flags, Tag(changed, flags), Tells(changed, flags),
         UNCHANGED shaderVars,
         restricted' = restricted \/ (compiled.emission => "light" \in flags),
         \/ backgroundLight' = backgroundLight
         \/ backgroundLight' \in BOOLEAN /\ "lightBackground" \in flags
  PROVE  FInv'
<1>1. KindsOK' /\ UNCHANGED <<graph, compiled, newImage>>
  BY DEF FInv, KindsOK, shaderVars
<1> QED BY <1>1, TagKeeps

(* Each edit tags what it should, the two exceptions aside.                *)
LEMMA EditKeeps ==
  ASSUME EditsTagged, FInv, Edit
  PROVE  FInv'
<1> USE DEF Tells
<1>1. ASSUME NEW light \in BOOLEAN, EditWorld(light)
      PROVE  FInv'
  <2> DEFINE changed == {"world"} \cup IF light # backgroundLight THEN {"backgroundLight"} ELSE {}
             flags == {"shader", "lightBackground"} \cup TagBackground
                        \cup IF light \/ backgroundLight THEN {"light"} ELSE {}
  <2>1. Tag(changed, flags) /\ backgroundLight' = light /\ UNCHANGED <<shaderVars, restricted>>
    BY <1>1 DEF EditWorld
  <2>2. backgroundLight \in BOOLEAN
    BY DEF FInv, KindsOK
  <2>3. /\ {"shader", "lightBackground", "background", "integrator"} \subseteq flags
        /\ light \/ backgroundLight => "light" \in flags
        /\ flags \subseteq {"shader", "lightBackground", "background", "integrator", "light"}
    BY DEF TagBackground
  <2>4. /\ changed \subseteq {"world", "backgroundLight"}
        /\ "backgroundLight" \in changed => light # backgroundLight
    OBVIOUS
  <2> HIDE DEF changed, flags
  <2>5. "backgroundLight" \in changed => "light" \in flags
    BY <2>2, <2>3, <2>4
  <2>6. Tells(changed, flags)
    BY <2>1, <2>3, <2>4, <2>5
  <2> QED BY <2>1, <2>3, <2>6, OthersKeep
<1>2. ASSUME NEW hidden \in BOOLEAN, EditObject(hidden)
      PROVE  FInv'
  <2>1. Tag({"object"}, TagObject) /\ UNCHANGED <<shaderVars, backgroundLight>>
    BY <1>2 DEF EditObject
  <2>2. {"cameraFlags", "geometry", "object"} \subseteq TagObject
        /\ (compiled.emission => "light" \in TagObject)
    BY DEF TagObject, IfEmissive
  <2>3. Tells({"object"}, TagObject)
    BY <2>2
  <2> QED BY <2>1, <2>2, <2>3, OthersKeep
<1>3. CASE RemoveObject
  <2>1. Tag({"removal"}, TagGeometryManager \cup TagObjectManager)
        /\ UNCHANGED <<shaderVars, restricted, backgroundLight>>
    BY <1>3 DEF RemoveObject
  <2>2. Tells({"removal"}, TagGeometryManager \cup TagObjectManager)
    BY DEF TagGeometryManager, TagObjectManager
  <2> QED BY <2>1, <2>2, OthersKeep
<1>4. ASSUME NEW rebuild \in BOOLEAN, EditMesh(rebuild)
      PROVE  FInv'
  <2> DEFINE flags == TagGeometry(rebuild) \cup TagObject
             part == IF rebuild THEN "rebuild" ELSE "deform"
  <2>1. Tag({part}, flags) /\ UNCHANGED <<shaderVars, restricted, backgroundLight>>
    BY <1>4 DEF EditMesh
  <2>2. /\ {"cameraFlags", "geometry", "object", "mesh"} \subseteq flags
        /\ compiled.emission => "light" \in flags
    BY DEF TagGeometry, TagObject, IfEmissive
  <2>3. part \in {"rebuild", "deform"}
    OBVIOUS
  <2> HIDE DEF flags, part
  <2>4. Tells({part}, flags)
    BY <2>2, <2>3
  <2> QED BY <2>1, <2>4, OthersKeep
<1>5. CASE EditLight
  <2>1. Tells({"light"}, {"light"})
    OBVIOUS
  <2> QED BY <1>5, <2>1, OthersKeep DEF EditLight
<1>6. CASE EditCamera
  <2>1. Tells({"camera"}, {"camera"})
    OBVIOUS
  <2> QED BY <1>6, <2>1, OthersKeep DEF EditCamera
<1>7. CASE EditBackground
  <2>1. Tells({"background"}, TagBackground)
    BY DEF TagBackground
  <2> QED BY <1>7, <2>1, OthersKeep DEF EditBackground
<1>8. CASE EditParticles
  <2>1. Tells({"particles"}, {"particles"} \cup TagObjectManager)
    BY DEF TagObjectManager
  <2> QED BY <1>8, <2>1, OthersKeep DEF EditParticles
<1>9. ASSUME NEW rate \in RateChanges, EditIntegrator(rate)
      PROVE  FInv'
  <2>1. rate = FALSE
    BY SceneAssumption DEF EditsTagged
  <2>2. Tag({"integrator"}, TagIntegrator) /\ UNCHANGED <<shaderVars, restricted, backgroundLight>>
    BY <1>9, <2>1 DEF EditIntegrator
  <2>3. graph'.glossy => "shader" \in tagged \cup TagIntegrator
    <3>1. graph' = graph /\ step = "idle"
      BY <2>2 DEF shaderVars, Tag
    <3>2. compiled = KindsOf(graph) \/ "shader" \in tagged
      BY <3>1 DEF FInv, Live, Follows, ShadersFollow
    <3> QED BY <3>1, <3>2 DEF KindsOf, TagIntegrator
  <2>4. "integrator" \in TagIntegrator /\ TagIntegrator \subseteq {"integrator", "shader"}
    BY DEF TagIntegrator
  <2>5. Tells({"integrator"}, TagIntegrator)
    BY <2>3, <2>4
  <2> QED BY <2>2, <2>5, OthersKeep
<1>10. ASSUME NEW passes \in PassChanges, EditFilm(passes)
       PROVE  FInv'
  <2> DEFINE flags == {"film"} \cup
                        IF "uv" \in passes THEN TagGeometryManager \cup {"meshShader"}
                        ELSE IF "ao" \in passes THEN TagIntegrator
                        ELSE {}
  <2>1. Tag({"film"} \cup passes, flags) /\ UNCHANGED <<shaderVars, restricted, backgroundLight>>
    BY <1>10 DEF EditFilm
  <2>2. passes \subseteq {"uv", "ao"} /\ ~ ({"uv", "ao"} \subseteq passes)
    <3>1. passes \subseteq {"uv", "ao"} /\ passes # {"uv", "ao"}
      BY SceneAssumption DEF EditsTagged
    <3> QED BY <3>1
  <2>3. /\ "film" \in flags
        /\ "uv" \in passes => {"geometry", "object", "meshShader"} \subseteq flags
        /\ "ao" \in passes => "integrator" \in flags
        /\ flags \cap {"cameraDevice", "cameraFlags"} = {}
    BY <2>2 DEF TagGeometryManager, TagIntegrator
  <2> HIDE DEF flags
  <2>4. Tells({"film"} \cup passes, flags)
    BY <2>2, <2>3
  <2> QED BY <2>1, <2>4, OthersKeep
<1> QED
  BY <1>1, <1>2, <1>3, <1>4, <1>5, <1>6, <1>7, <1>8, <1>9, <1>10, ShaderEdited DEF Edit

-----------------------------------------------------------------------------
(* A product is made once what it needs is current.                        *)
LEMMA Made ==
  ASSUME NEW p, NEW f, Needs[p] \subseteq f
  PROVE  Make(p, f) = f \cup {p}
BY DEF Make

(* What a step of the update leaves alone. *)
LEMMA StepFrame ==
  ASSUME FInv, NEW this, NEW next, Step(this, next), this \notin {"sync", "cancelled", "deleted"},
         next \notin {"sync", "cancelled", "deleted"},
         Follows => Follows', KindsOK'
  PROVE  FInv'
BY DEF FInv, Live, ResetTags, Step

(* The background is made from the compiled shaders.                       *)
LEMMA BackgroundStepKeeps ==
  ASSUME FInv, BackgroundStep
  PROVE  FInv'
<1>1. Step("background", "camera") /\ Follows
  BY DEF BackgroundStep, Step, FInv, Live
<1> USE DEF Step, Follows, Owed, UptoShader, UptoBackground, UptoCamera, UptoPreprocess, UptoObject, UptoParticles,
            UptoGeometry, UptoObjectFlags, UptoImages, UptoCameraVolume, UptoLight,
            UptoIntegrator, UptoFilm
<1>2. UNCHANGED <<compiled, newImage, lit, filmVisibility, lastBackground, kernelVisibility>>
  BY DEF BackgroundStep, OnlyProducts, UnlessShader, UnlessLight, UnlessFilm
<1>3. Needs.background \subseteq fresh
  BY <1>1 DEF Needs, ShadersFollow
<1>4. IF "background" \in tagged
      THEN fresh' = fresh \cup {"background"} /\ tagged' = tagged \ {"background"}
      ELSE UNCHANGED <<fresh, tagged>>
  BY <1>3, Made DEF BackgroundStep, MakeIfTagged
<1>8. ShadersFollow' /\ SceneFollows'
  BY <1>1, <1>2, <1>4 DEF ShadersFollow, SceneFollows, KindsOf
<1>9. GeometryFollows' /\ CameraFollows'
  BY <1>1, <1>2, <1>4 DEF GeometryFollows, CameraFollows
<1>10. LightsFollow'
  BY <1>1, <1>2, <1>4 DEF LightsFollow
<1>11. KindsOK'
  BY <1>1, <1>2, <1>4 DEF FInv, KindsOK
<1> QED BY <1>1, <1>8, <1>9, <1>10, <1>11, StepFrame

(* The object manager keeps its flag for the step of the object flags.     *)
LEMMA ObjectStepKeeps ==
  ASSUME FInv, ObjectStep
  PROVE  FInv'
<1>1. Step("object", "particles") /\ Follows
  BY DEF ObjectStep, Step, FInv, Live
<1> USE DEF Step, Follows, Owed, UptoShader, UptoBackground, UptoCamera, UptoPreprocess, UptoObject, UptoParticles,
            UptoGeometry, UptoObjectFlags, UptoImages, UptoCameraVolume, UptoLight,
            UptoIntegrator, UptoFilm
<1>2. UNCHANGED <<compiled, newImage, lit, filmVisibility, lastBackground, kernelVisibility>>
  BY DEF ObjectStep, OnlyProducts, UnlessShader, UnlessLight, UnlessFilm
<1>3. Needs.objects \subseteq fresh
  BY <1>1 DEF Needs, ShadersFollow
<1>4. IF "object" \in tagged
      THEN fresh' = fresh \cup {"objects"} /\ tagged' = tagged \ {}
      ELSE UNCHANGED <<fresh, tagged>>
  BY <1>3, Made DEF ObjectStep, MakeIfTagged
<1>8. ShadersFollow' /\ SceneFollows'
  BY <1>1, <1>2, <1>4 DEF ShadersFollow, SceneFollows, KindsOf
<1>9. GeometryFollows' /\ CameraFollows'
  BY <1>1, <1>2, <1>4 DEF GeometryFollows, CameraFollows
<1>10. LightsFollow'
  BY <1>1, <1>2, <1>4 DEF LightsFollow
<1>11. KindsOK'
  BY <1>1, <1>2, <1>4 DEF FInv, KindsOK
<1> QED BY <1>1, <1>8, <1>9, <1>10, <1>11, StepFrame

(* Particles are made of nothing else.                                     *)
LEMMA ParticlesStepKeeps ==
  ASSUME FInv, ParticlesStep
  PROVE  FInv'
<1>1. Step("particles", "geometry") /\ Follows
  BY DEF ParticlesStep, Step, FInv, Live
<1> USE DEF Step, Follows, Owed, UptoShader, UptoBackground, UptoCamera, UptoPreprocess, UptoObject, UptoParticles,
            UptoGeometry, UptoObjectFlags, UptoImages, UptoCameraVolume, UptoLight,
            UptoIntegrator, UptoFilm
<1>2. UNCHANGED <<compiled, newImage, lit, filmVisibility, lastBackground, kernelVisibility>>
  BY DEF ParticlesStep, OnlyProducts, UnlessShader, UnlessLight, UnlessFilm
<1>3. Needs.particles \subseteq fresh
  BY <1>1 DEF Needs, ShadersFollow
<1>4. IF "particles" \in tagged
      THEN fresh' = fresh \cup {"particles"} /\ tagged' = tagged \ {"particles"}
      ELSE UNCHANGED <<fresh, tagged>>
  BY <1>3, Made DEF ParticlesStep, MakeIfTagged
<1>8. ShadersFollow' /\ SceneFollows'
  BY <1>1, <1>2, <1>4 DEF ShadersFollow, SceneFollows, KindsOf
<1>9. GeometryFollows' /\ CameraFollows'
  BY <1>1, <1>2, <1>4 DEF GeometryFollows, CameraFollows
<1>10. LightsFollow'
  BY <1>1, <1>2, <1>4 DEF LightsFollow
<1>11. KindsOK'
  BY <1>1, <1>2, <1>4 DEF FInv, KindsOK
<1> QED BY <1>1, <1>8, <1>9, <1>10, <1>11, StepFrame

(* The compilation has added the images.                                   *)
LEMMA ImagesStepKeeps ==
  ASSUME FInv, ImagesStep
  PROVE  FInv'
<1>1. Step("images", "cameraVolume") /\ Follows
  BY DEF ImagesStep, Step, FInv, Live
<1> USE DEF Step, Follows, Owed, UptoShader, UptoBackground, UptoCamera, UptoPreprocess, UptoObject, UptoParticles,
            UptoGeometry, UptoObjectFlags, UptoImages, UptoCameraVolume, UptoLight,
            UptoIntegrator, UptoFilm
<1>2. UNCHANGED <<compiled, newImage, lit, filmVisibility, lastBackground, kernelVisibility>>
  BY DEF ImagesStep, OnlyProducts, UnlessShader, UnlessLight, UnlessFilm
<1>3. Needs.images \subseteq fresh
  BY <1>1 DEF Needs, ShadersFollow
<1>4. IF "image" \in tagged
      THEN fresh' = fresh \cup {"images"} /\ tagged' = tagged \ {"image"}
      ELSE UNCHANGED <<fresh, tagged>>
  BY <1>3, Made DEF ImagesStep, MakeIfTagged
<1>8. ShadersFollow' /\ SceneFollows'
  BY <1>1, <1>2, <1>4 DEF ShadersFollow, SceneFollows, KindsOf
<1>9. GeometryFollows' /\ CameraFollows'
  BY <1>1, <1>2, <1>4 DEF GeometryFollows, CameraFollows
<1>10. LightsFollow'
  BY <1>1, <1>2, <1>4 DEF LightsFollow
<1>11. KindsOK'
  BY <1>1, <1>2, <1>4 DEF FInv, KindsOK
<1> QED BY <1>1, <1>8, <1>9, <1>10, <1>11, StepFrame

(* The integrator reads the background's shader.                           *)
LEMMA IntegratorStepKeeps ==
  ASSUME FInv, IntegratorStep
  PROVE  FInv'
<1>1. Step("integrator", "film") /\ Follows
  BY DEF IntegratorStep, Step, FInv, Live
<1> USE DEF Step, Follows, Owed, UptoShader, UptoBackground, UptoCamera, UptoPreprocess, UptoObject, UptoParticles,
            UptoGeometry, UptoObjectFlags, UptoImages, UptoCameraVolume, UptoLight,
            UptoIntegrator, UptoFilm
<1>2. UNCHANGED <<compiled, newImage, lit, filmVisibility, lastBackground, kernelVisibility>>
  BY DEF IntegratorStep, OnlyProducts, UnlessShader, UnlessLight, UnlessFilm
<1>3. Needs.integrator \subseteq fresh
  BY <1>1 DEF Needs, ShadersFollow, SceneFollows
<1>4. IF "integrator" \in tagged
      THEN fresh' = fresh \cup {"integrator"} /\ tagged' = tagged \ {"integrator"}
      ELSE UNCHANGED <<fresh, tagged>>
  BY <1>3, Made DEF IntegratorStep, MakeIfTagged
<1>8. ShadersFollow' /\ SceneFollows'
  BY <1>1, <1>2, <1>4 DEF ShadersFollow, SceneFollows, KindsOf
<1>9. GeometryFollows' /\ CameraFollows'
  BY <1>1, <1>2, <1>4 DEF GeometryFollows, CameraFollows
<1>10. LightsFollow'
  BY <1>1, <1>2, <1>4 DEF LightsFollow
<1>11. KindsOK'
  BY <1>1, <1>2, <1>4 DEF FInv, KindsOK
<1> QED BY <1>1, <1>8, <1>9, <1>10, <1>11, StepFrame

(* New light groups tag the lights and the objects.                        *)
LEMMA BeginKeeps ==
  ASSUME FInv, Begin
  PROVE  FInv'
<1>1. /\ step = "idle" /\ step' = "shader" /\ Follows
      /\ tagged \subseteq tagged'
      /\ UNCHANGED <<fresh, graph, compiled, newImage, lit, restricted, filmVisibility,
                    kernelVisibility, backgroundLight, lastBackground>>
  BY DEF Begin, FInv, Live, shaderVars, lightVars
<1> USE <1>1 DEF Follows, Owed, UptoShader, UptoBackground, UptoCamera, UptoPreprocess, UptoObject, UptoParticles,
            UptoGeometry, UptoObjectFlags, UptoImages, UptoCameraVolume, UptoLight,
            UptoIntegrator, UptoFilm
<1>2. ShadersFollow' /\ SceneFollows'
  BY DEF ShadersFollow, SceneFollows
<1>3. GeometryFollows' /\ CameraFollows'
  BY DEF GeometryFollows, CameraFollows
<1>4. LightsFollow'
  BY DEF LightsFollow
<1> QED BY <1>2, <1>3, <1>4 DEF FInv, KindsOK, ResetTags

(* The shaders are compiled: what they do is known, their images are added.*)
LEMMA ShaderStepKeeps ==
  ASSUME FInv, ShaderStep
  PROVE  FInv'
<1>1. Step("shader", "background") /\ Follows
  BY DEF ShaderStep, Step, FInv, Live
<1> USE DEF Step, Follows, Owed, UptoShader, UptoBackground, UptoCamera, UptoPreprocess, UptoObject, UptoParticles,
            UptoGeometry, UptoObjectFlags, UptoImages, UptoCameraVolume, UptoLight,
            UptoIntegrator, UptoFilm
<1>2. UNCHANGED <<lit, filmVisibility, lastBackground, kernelVisibility>>
  BY DEF ShaderStep, UnlessLight, UnlessFilm
<1>3. Needs.svm \subseteq fresh
  BY DEF Needs
<1>4. IF "shader" \in tagged
      THEN /\ compiled' = KindsOf(graph) /\ newImage' = FALSE
           /\ tagged' = (tagged \ {"shader"})
                          \cup (IF graph.emission THEN {"light"} ELSE {})
                          \cup (IF newImage THEN {"image"} ELSE {})
           /\ fresh' = fresh \cup {"svm"}
      ELSE UNCHANGED <<compiled, newImage, tagged, fresh>>
  BY <1>3, Made DEF ShaderStep, UnlessShader
<1>5. KindsOf(graph).emission = graph.emission /\ graph.emission \in BOOLEAN
  BY DEF KindsOf, FInv, KindsOK, GraphKind
<1>6. KindsOf(graph) \in [emission : BOOLEAN, volume : BOOLEAN, glossy : BOOLEAN]
  BY DEF KindsOf, FInv, KindsOK, GraphKind
<1>8. ShadersFollow' /\ SceneFollows'
  BY <1>1, <1>2, <1>4, <1>5, <1>6 DEF ShadersFollow, SceneFollows
<1>9. GeometryFollows' /\ CameraFollows'
  BY <1>1, <1>2, <1>4, <1>5, <1>6 DEF GeometryFollows, CameraFollows
<1>10. LightsFollow'
  <2>1. step' \in UptoLight /\ step' \in UptoFilm
    BY <1>1
  <2>2. tagged \cap {"light", "lightBackground", "film"} \subseteq tagged'
        /\ UNCHANGED <<restricted, backgroundLight, graph>> /\ fresh \subseteq fresh'
    BY <1>1, <1>4
  <2>3. Owed("lights", UptoLight, "light" \in tagged)'
        /\ Owed("lightBackground", UptoLight,
                /\ "light" \in tagged
                /\ "lightBackground" \in tagged \/ backgroundLight # lastBackground)'
    BY <1>1, <1>2, <2>1, <2>2 DEF LightsFollow
  <2>4. kernelVisibility' = filmVisibility' \/ "film" \in tagged'
    BY <1>1, <1>2, <2>2 DEF LightsFollow
  <2>5. CASE "light" \in tagged'
    BY <2>1, <2>3, <2>4, <2>5 DEF LightsFollow
  <2>6. CASE "light" \notin tagged'
    <3>1. /\ lit = compiled.emission /\ filmVisibility = (restricted /\ compiled.emission)
          /\ compiled.emission => graph.emission
      BY <1>1, <2>2, <2>6 DEF LightsFollow
    <3>2. compiled'.emission = compiled.emission
      <4>1. CASE "shader" \in tagged
        <5>1. compiled'.emission = graph.emission /\ ~graph.emission
          BY <1>4, <1>5, <2>6, <4>1
        <5>2. compiled.emission \in BOOLEAN
          BY DEF FInv, KindsOK
        <5> QED BY <1>5, <3>1, <5>1, <5>2
      <4>2. CASE "shader" \notin tagged
        BY <1>4, <4>2
      <4> QED BY <4>1, <4>2
    <3>3. /\ lit' = compiled'.emission /\ filmVisibility' = (restricted' /\ compiled'.emission)
          /\ compiled'.emission => graph'.emission
      BY <1>2, <2>2, <3>1, <3>2
    <3> QED BY <2>1, <2>3, <2>4, <3>3 DEF LightsFollow
  <2> QED BY <2>5, <2>6
<1>11. KindsOK'
  BY <1>1, <1>2, <1>4, <1>5, <1>6 DEF FInv, KindsOK
<1> QED BY <1>1, <1>8, <1>9, <1>10, <1>11, StepFrame

(* Camera::update turns its flag into those of the device.                 *)
LEMMA CameraStepKeeps ==
  ASSUME FInv, CameraStep
  PROVE  FInv'
<1>1. Step("camera", "preprocess") /\ Follows
  BY DEF CameraStep, Step, FInv, Live
<1> USE DEF Step, Follows, Owed, UptoShader, UptoBackground, UptoCamera, UptoPreprocess, UptoObject, UptoParticles,
            UptoGeometry, UptoObjectFlags, UptoImages, UptoCameraVolume, UptoLight,
            UptoIntegrator, UptoFilm
<1>2. UNCHANGED <<compiled, newImage, lit, filmVisibility, lastBackground, kernelVisibility>>
  BY DEF CameraStep, OnlyProducts, UnlessShader, UnlessLight, UnlessFilm
<1> DEFINE flags == IF "camera" \in tagged
                    THEN (tagged \ {"camera"}) \cup {"cameraDevice", "cameraFlags"}
                    ELSE tagged
<1>3. Needs.camera \subseteq fresh
  BY DEF Needs
<1>4. tagged' = flags /\ fresh' = IF "cameraDevice" \in flags THEN fresh \cup {"camera"} ELSE fresh
  BY <1>3, Made DEF CameraStep
<1>8. ShadersFollow' /\ SceneFollows'
  BY <1>1, <1>2, <1>4 DEF ShadersFollow, SceneFollows, KindsOf
<1>9. GeometryFollows' /\ CameraFollows'
  BY <1>1, <1>2, <1>4 DEF GeometryFollows, CameraFollows
<1>10. LightsFollow'
  BY <1>1, <1>2, <1>4 DEF LightsFollow
<1>11. KindsOK'
  BY <1>1, <1>2, <1>4 DEF FInv, KindsOK
<1> QED BY <1>1, <1>8, <1>9, <1>10, <1>11, StepFrame

(* Volume flags are made from the compiled shaders.                        *)
LEMMA PreprocessStepKeeps ==
  ASSUME FInv, PreprocessStep
  PROVE  FInv'
<1>1. Step("preprocess", "object") /\ Follows
  BY DEF PreprocessStep, Step, FInv, Live
<1> USE DEF Step, Follows, Owed, UptoShader, UptoBackground, UptoCamera, UptoPreprocess, UptoObject, UptoParticles,
            UptoGeometry, UptoObjectFlags, UptoImages, UptoCameraVolume, UptoLight,
            UptoIntegrator, UptoFilm
<1>2. UNCHANGED <<compiled, newImage, lit, filmVisibility, lastBackground, kernelVisibility>>
  BY DEF PreprocessStep, OnlyProducts, UnlessShader, UnlessLight, UnlessFilm
<1>3. Needs.volumeFlags \subseteq fresh
  BY <1>1 DEF Needs, ShadersFollow
<1>4. IF tagged \cap {"geometry", "geometryFlags"} # {}
      THEN fresh' = fresh \cup {"volumeFlags"} /\ tagged' = tagged \ {"geometryFlags"}
      ELSE UNCHANGED <<fresh, tagged>>
  BY <1>3, Made DEF PreprocessStep
<1>8. ShadersFollow' /\ SceneFollows'
  BY <1>1, <1>2, <1>4 DEF ShadersFollow, SceneFollows, KindsOf
<1>9. GeometryFollows' /\ CameraFollows'
  BY <1>1, <1>2, <1>4 DEF GeometryFollows, CameraFollows
<1>10. LightsFollow'
  BY <1>1, <1>2, <1>4 DEF LightsFollow
<1>11. KindsOK'
  BY <1>1, <1>2, <1>4 DEF FInv, KindsOK
<1> QED BY <1>1, <1>8, <1>9, <1>10, <1>11, StepFrame

(* Object flags need the volumes, and clear the flag of all objects.       *)
LEMMA ObjectFlagsStepKeeps ==
  ASSUME FInv, ObjectFlagsStep
  PROVE  FInv'
<1>1. Step("objectFlags", "images") /\ Follows
  BY DEF ObjectFlagsStep, Step, FInv, Live
<1> USE DEF Step, Follows, Owed, UptoShader, UptoBackground, UptoCamera, UptoPreprocess, UptoObject, UptoParticles,
            UptoGeometry, UptoObjectFlags, UptoImages, UptoCameraVolume, UptoLight,
            UptoIntegrator, UptoFilm
<1>2. UNCHANGED <<compiled, newImage, lit, filmVisibility, lastBackground, kernelVisibility>>
  BY DEF ObjectFlagsStep, OnlyProducts, UnlessShader, UnlessLight, UnlessFilm
<1>3. Needs.objectFlags \subseteq fresh
  BY <1>1 DEF Needs, SceneFollows
<1>4. /\ tagged' = tagged \ {"object", "objectFlags"}
      /\ fresh' = IF tagged \cap {"object", "objectFlags"} # {}
                  THEN fresh \cup {"objectFlags"} ELSE fresh
  BY <1>3, Made DEF ObjectFlagsStep, ObjectFlags
<1>8. ShadersFollow' /\ SceneFollows'
  BY <1>1, <1>2, <1>4 DEF ShadersFollow, SceneFollows, KindsOf
<1>9. GeometryFollows' /\ CameraFollows'
  BY <1>1, <1>2, <1>4 DEF GeometryFollows, CameraFollows
<1>10. LightsFollow'
  BY <1>1, <1>2, <1>4 DEF LightsFollow
<1>11. KindsOK'
  BY <1>1, <1>2, <1>4 DEF FInv, KindsOK
<1> QED BY <1>1, <1>8, <1>9, <1>10, <1>11, StepFrame

(* The volumes the camera is in are found with all geometry in place.      *)
LEMMA CameraVolumeStepKeeps ==
  ASSUME FInv, CameraVolumeStep
  PROVE  FInv'
<1>1. Step("cameraVolume", "tables") /\ Follows
  BY DEF CameraVolumeStep, Step, FInv, Live
<1> USE DEF Step, Follows, Owed, UptoShader, UptoBackground, UptoCamera, UptoPreprocess, UptoObject, UptoParticles,
            UptoGeometry, UptoObjectFlags, UptoImages, UptoCameraVolume, UptoLight,
            UptoIntegrator, UptoFilm
<1>2. UNCHANGED <<compiled, newImage, lit, filmVisibility, lastBackground, kernelVisibility>>
  BY DEF CameraVolumeStep, OnlyProducts, UnlessShader, UnlessLight, UnlessFilm
<1>3. Needs.cameraVolume \subseteq fresh
  BY <1>1 DEF Needs, ShadersFollow, SceneFollows, GeometryFollows
<1>4. /\ tagged' = tagged \ {"cameraDevice", "cameraFlags"}
      /\ fresh' = IF tagged \cap {"cameraDevice", "cameraFlags"} # {}
                  THEN fresh \cup {"cameraVolume"} ELSE fresh
  BY <1>3, Made DEF CameraVolumeStep
<1>8. ShadersFollow' /\ SceneFollows'
  BY <1>1, <1>2, <1>4 DEF ShadersFollow, SceneFollows, KindsOf
<1>9. GeometryFollows' /\ CameraFollows'
  BY <1>1, <1>2, <1>4 DEF GeometryFollows, CameraFollows
<1>10. LightsFollow'
  BY <1>1, <1>2, <1>4 DEF LightsFollow
<1>11. KindsOK'
  BY <1>1, <1>2, <1>4 DEF FInv, KindsOK
<1> QED BY <1>1, <1>8, <1>9, <1>10, <1>11, StepFrame

(* The film copies the visibility that the lights have found.              *)
LEMMA FilmStepKeeps ==
  ASSUME FInv, FilmStep
  PROVE  FInv'
<1>1. Step("film", "filmTables") /\ Follows
  BY DEF FilmStep, Step, FInv, Live
<1> USE DEF Step, Follows, Owed, UptoShader, UptoBackground, UptoCamera, UptoPreprocess, UptoObject, UptoParticles,
            UptoGeometry, UptoObjectFlags, UptoImages, UptoCameraVolume, UptoLight,
            UptoIntegrator, UptoFilm
<1>2. UNCHANGED <<compiled, newImage, lit, filmVisibility, lastBackground>>
  BY DEF FilmStep, UnlessShader, UnlessLight
<1>3. Needs.film \subseteq fresh
  BY <1>1 DEF Needs, LightsFollow
<1>4. IF "film" \in tagged
      THEN /\ fresh' = fresh \cup {"film"} /\ tagged' = tagged \ {"film"}
           /\ kernelVisibility' = filmVisibility
      ELSE UNCHANGED <<fresh, tagged, kernelVisibility>>
  BY <1>3, Made DEF FilmStep, MakeIfTagged, UnlessFilm
<1>8. ShadersFollow' /\ SceneFollows'
  BY <1>1, <1>2, <1>4 DEF ShadersFollow, SceneFollows, KindsOf
<1>9. GeometryFollows' /\ CameraFollows'
  BY <1>1, <1>2, <1>4 DEF GeometryFollows, CameraFollows
<1>10. LightsFollow'
  BY <1>1, <1>2, <1>4 DEF LightsFollow
<1>11. KindsOK'
  BY <1>1, <1>2, <1>4 DEF FInv, KindsOK
<1> QED BY <1>1, <1>8, <1>9, <1>10, <1>11, StepFrame

(* The lights are made with the emission and the visibility there is.      *)
LEMMA LightStepKeeps ==
  ASSUME FInv, LightStep
  PROVE  FInv'
<1>1. Step("light", "integrator") /\ Follows
  BY DEF LightStep, Step, FInv, Live
<1> USE DEF Step, Follows, Owed, UptoShader, UptoBackground, UptoCamera, UptoPreprocess, UptoObject, UptoParticles,
            UptoGeometry, UptoObjectFlags, UptoImages, UptoCameraVolume, UptoLight,
            UptoIntegrator, UptoFilm
<1>2. UNCHANGED <<compiled, newImage, kernelVisibility>>
  BY DEF LightStep, UnlessShader, UnlessFilm
<1> DEFINE hidden == restricted /\ compiled.emission
           withBackground == "lightBackground" \in tagged \/ backgroundLight # lastBackground
<1>3. /\ Needs.lights \subseteq fresh
      /\ Needs.lightBackground \subseteq fresh \cup {"lights"}
      /\ compiled = KindsOf(graph) /\ "svm" \in fresh
  BY <1>1 DEF Needs, ShadersFollow, SceneFollows, GeometryFollows
<1>4. IF "light" \in tagged
      THEN /\ lastBackground' = backgroundLight /\ lit' = compiled.emission
           /\ filmVisibility' = hidden
           /\ fresh' = IF withBackground THEN fresh \cup {"lights", "lightBackground"}
                       ELSE fresh \cup {"lights"}
           /\ tagged' = (tagged \ {"light", "lightBackground"})
                          \cup IF hidden # filmVisibility THEN {"film"} ELSE {}
      ELSE UNCHANGED <<lit, filmVisibility, lastBackground, tagged, fresh>>
  <2>1. Make("lights", fresh) = fresh \cup {"lights"}
        /\ Make("lightBackground", fresh \cup {"lights"}) = fresh \cup {"lights", "lightBackground"}
    BY <1>3, Made
  <2> QED BY <2>1 DEF LightStep, UnlessLight
<1>5. compiled.emission = graph.emission
  BY <1>3 DEF KindsOf
<1>8. ShadersFollow' /\ SceneFollows'
  BY <1>1, <1>2, <1>3, <1>4, <1>5 DEF ShadersFollow, SceneFollows
<1>9. GeometryFollows' /\ CameraFollows'
  BY <1>1, <1>2, <1>4, <1>5 DEF GeometryFollows, CameraFollows
<1>10. LightsFollow'
  BY <1>1, <1>2, <1>4, <1>5 DEF LightsFollow
<1>11. KindsOK'
  BY <1>1, <1>2, <1>4, <1>5 DEF FInv, KindsOK
<1> QED BY <1>1, <1>8, <1>9, <1>10, <1>11, StepFrame

(* Displaced meshes find the images and objects they are displaced by.     *)
LEMMA GeometryStepKeeps ==
  ASSUME FInv, GeometryStep
  PROVE  FInv'
<1>1. Step("geometry", "objectFlags") /\ Follows
  BY DEF GeometryStep, Step, FInv, Live
<1> USE DEF Step, Follows, Owed, UptoShader, UptoBackground, UptoCamera, UptoPreprocess, UptoObject, UptoParticles,
            UptoGeometry, UptoObjectFlags, UptoImages, UptoCameraVolume, UptoLight,
            UptoIntegrator, UptoFilm
<1>2. UNCHANGED <<compiled, newImage, lit, filmVisibility, lastBackground, kernelVisibility>>
  BY DEF GeometryStep, OnlyProducts, UnlessShader, UnlessLight, UnlessFilm
<1> DEFINE images_ == IF Displacing /\ "image" \in tagged THEN fresh \cup {"images"} ELSE fresh
           flags == IF Displacing /\ tagged \cap {"object", "objectFlags"} # {}
                    THEN images_ \cup {"objectFlags"} ELSE images_
           mesh == IF MeshTagged THEN flags \cup {"mesh"} ELSE flags
<1>3. {"svm", "objects", "volumeFlags"} \subseteq fresh
      /\ ("images" \in fresh \/ "image" \in tagged)
  BY <1>1 DEF ShadersFollow, SceneFollows, GeometryFollows
<1>4. IF "geometry" \in tagged
      THEN /\ fresh' = mesh \cup {"geometry"}
           /\ tagged' = tagged \ ({"geometry", "mesh", "meshShader"}
                           \cup IF Displacing THEN {"image", "object"} ELSE {})
      ELSE UNCHANGED <<fresh, tagged>>
  <2>1. CASE "geometry" \in tagged
    <3>1. Make("images", fresh) = fresh \cup {"images"}
      BY <1>3, Made DEF Needs
    <3>2. ObjectFlags(images_) = IF tagged \cap {"object", "objectFlags"} # {}
                                 THEN images_ \cup {"objectFlags"} ELSE images_
      <4>1. Needs.objectFlags \subseteq images_
        BY <1>3 DEF Needs
      <4> QED BY <4>1, Made DEF ObjectFlags
    <3>3. MeshTagged => Make("mesh", flags) = flags \cup {"mesh"}
      <4>1. MeshTagged => Needs.mesh \subseteq flags
        BY <1>3 DEF Needs, Displacing
      <4> QED BY <4>1, Made
    <3>4. "mesh" \in mesh
      BY <2>1, <1>1 DEF GeometryFollows, MeshTagged
    <3>5. Make("geometry", mesh) = mesh \cup {"geometry"}
      <4>1. Needs.geometry \subseteq mesh
        BY <1>3, <3>4 DEF Needs
      <4> QED BY <4>1, Made
    <3> HIDE DEF images_, flags, mesh
    <3> QED BY <2>1, <3>1, <3>2, <3>3, <3>5 DEF GeometryStep, images_, flags, mesh
  <2>2. CASE "geometry" \notin tagged
    BY <2>2 DEF GeometryStep
  <2> QED BY <2>1, <2>2
<1>8. ShadersFollow' /\ SceneFollows'
  BY <1>1, <1>2, <1>3, <1>4 DEF ShadersFollow, SceneFollows, KindsOf
<1>9. GeometryFollows' /\ CameraFollows'
  BY <1>1, <1>2, <1>3, <1>4 DEF MeshTagged, GeometryFollows, CameraFollows
<1>10. LightsFollow'
  BY <1>1, <1>2, <1>3, <1>4 DEF LightsFollow
<1>11. KindsOK'
  BY <1>1, <1>2, <1>3, <1>4 DEF FInv, KindsOK
<1> QED BY <1>1, <1>8, <1>9, <1>10, <1>11, StepFrame

(* The tables, and the copy to the kernels, change no product.             *)
LEMMA TablesKeeps ==
  ASSUME FInv, TablesStep
  PROVE  FInv'
<1>1. /\ \/ step = "tables" /\ step' = "light"
         \/ step = "filmTables" /\ step' = "copy"
      /\ Follows
      /\ UNCHANGED <<fresh, tagged, graph, compiled, newImage, lit, restricted, filmVisibility,
                    kernelVisibility, backgroundLight, lastBackground>>
  BY DEF TablesStep, Step, OnlyProducts, UnlessShader, UnlessLight, UnlessFilm, FInv, Live
<1> USE <1>1 DEF Follows, Owed, UptoShader, UptoBackground, UptoCamera, UptoPreprocess, UptoObject, UptoParticles,
            UptoGeometry, UptoObjectFlags, UptoImages, UptoCameraVolume, UptoLight,
            UptoIntegrator, UptoFilm
<1>2. ShadersFollow' /\ SceneFollows'
  BY DEF ShadersFollow, SceneFollows
<1>3. GeometryFollows' /\ CameraFollows'
  BY DEF GeometryFollows, CameraFollows
<1>4. LightsFollow'
  BY DEF LightsFollow
<1> QED BY <1>2, <1>3, <1>4 DEF FInv, KindsOK, ResetTags

(* The copy to the device, which ends an update, finds every product fresh
   or its maker tagged. *)
LEMMA CopyKeeps ==
  ASSUME FInv, CopyStep
  PROVE  FInv'
<1>1. /\ step = "copy" /\ step' = "idle" /\ Follows
      /\ UNCHANGED <<fresh, tagged, graph, compiled, newImage, lit, restricted, filmVisibility,
                    kernelVisibility, backgroundLight, lastBackground>>
  BY DEF CopyStep, FInv, Live, shaderVars, lightVars
<1> USE <1>1 DEF Follows, Owed, UptoShader, UptoBackground, UptoCamera, UptoPreprocess, UptoObject, UptoParticles,
            UptoGeometry, UptoObjectFlags, UptoImages, UptoCameraVolume, UptoLight,
            UptoIntegrator, UptoFilm
<1>2. ShadersFollow' /\ SceneFollows'
  BY DEF ShadersFollow, SceneFollows
<1>3. GeometryFollows' /\ CameraFollows'
  BY DEF GeometryFollows, CameraFollows
<1>4. LightsFollow'
  BY DEF LightsFollow
<1> QED BY <1>2, <1>3, <1>4 DEF FInv, KindsOK, ResetTags

(* After a cancel only a reset follows, whose sync tags everything.        *)
LEMMA RestartKeeps ==
  ASSUME FInv, Cancel \/ Reset \/ Sync \/ Delete
  PROVE  FInv'
<1>1. CASE Cancel \/ Delete
  BY <1>1 DEF Cancel, Delete, FInv, KindsOK, ResetTags, Live, shaderVars, lightVars
<1>2. CASE Reset
  <2>1. step' = "sync" /\ UNCHANGED <<graph, compiled, backgroundLight>>
    BY <1>2 DEF Reset, shaderVars, lightVars
  <2>2. {"shader", "camera", "film", "particles", "background", "integrator", "object",
         "geometry"} \subseteq tagged'
    BY <1>2 DEF Reset, TagBackground, TagIntegrator, TagObjectManager, TagGeometryManager
  <2> QED BY <2>1, <2>2 DEF FInv, KindsOK, ResetTags, Live
<1>3. CASE Sync
  <2>1. /\ step = "sync" /\ step' = "idle" /\ newImage' = TRUE /\ fresh' = {}
        /\ graph' \in Graphs /\ backgroundLight' \in BOOLEAN
        /\ compiled' = [NoKind EXCEPT !.volume = graph'.volume]
        /\ tagged \cup TagShader(graph', TRUE, TRUE) \cup TagObject \cup TagGeometry(TRUE)
             \cup {"lightBackground", "particles", "light"} \subseteq tagged'
    BY <1>3 DEF Sync
  <2>2. {"shader", "camera", "film", "particles", "background", "integrator", "object",
         "geometry", "mesh", "meshShader", "cameraFlags", "light", "lightBackground"}
          \subseteq tagged'
    BY <2>1 DEF FInv, ResetTags, TagShader, TagObject, TagGeometry
  <2>3. KindsOK'
    BY <2>1, SceneAssumption DEF KindsOK, NoKind, GraphKind
  <2> USE <2>1, <2>2 DEF Owed, UptoShader, UptoBackground, UptoCamera, UptoPreprocess, UptoObject, UptoParticles,
            UptoGeometry, UptoObjectFlags, UptoImages, UptoCameraVolume, UptoLight,
            UptoIntegrator, UptoFilm
  <2>4. ShadersFollow' /\ SceneFollows'
    BY DEF ShadersFollow, SceneFollows
  <2>5. GeometryFollows' /\ CameraFollows' /\ LightsFollow'
    BY DEF GeometryFollows, CameraFollows, LightsFollow
  <2> QED BY <2>3, <2>4, <2>5 DEF FInv, ResetTags, Follows
<1> QED BY <1>1, <1>2, <1>3

(* Every step, of an update or of the main thread between two, keeps the
   freshness invariant. *)
LEMMA FreshStep ==
  ASSUME EditsTagged, FInv, [Next]_vars
  PROVE  FInv'
<1>1. CASE UNCHANGED vars
  BY <1>1
     DEF vars, shaderVars, lightVars, FInv, KindsOK, ResetTags, Live, Follows, Owed,
         ShadersFollow, SceneFollows, GeometryFollows, CameraFollows, LightsFollow
<1> QED
  BY <1>1, EditKeeps, BeginKeeps, ShaderStepKeeps, BackgroundStepKeeps, CameraStepKeeps,
     PreprocessStepKeeps, ObjectStepKeeps, ParticlesStepKeeps, GeometryStepKeeps,
     ObjectFlagsStepKeeps, ImagesStepKeeps, CameraVolumeStepKeeps, TablesKeeps,
     LightStepKeeps, IntegratorStepKeeps, FilmStepKeeps, CopyKeeps, RestartKeeps
     DEF Next, DeviceUpdate

(* Nothing else is ever fresh. *)
LEMMA OnlyProductsFresh ==
  ASSUME fresh \subseteq Products, [Next]_vars
  PROVE  fresh' \subseteq Products
<1> USE DEF Make, Products
<1>1. CASE Edit
  BY <1>1 DEF Edit, EditShader, EditWorld, EditObject, RemoveObject, EditMesh, EditLight,
              EditCamera, EditBackground, EditParticles, EditIntegrator, EditFilm, Tag
<1>2. CASE ShaderStep \/ BackgroundStep \/ CameraStep \/ PreprocessStep \/ ObjectStep
           \/ ParticlesStep
  BY <1>2 DEF ShaderStep, BackgroundStep, CameraStep, PreprocessStep, ObjectStep, ParticlesStep,
              MakeIfTagged
<1>3. CASE GeometryStep
  BY <1>3 DEF GeometryStep, ObjectFlags
<1>4. CASE ObjectFlagsStep \/ ImagesStep \/ CameraVolumeStep \/ IntegratorStep \/ FilmStep
  BY <1>4 DEF ObjectFlagsStep, ObjectFlags, ImagesStep, CameraVolumeStep, IntegratorStep, FilmStep,
              MakeIfTagged
<1>5. CASE LightStep
  BY <1>5 DEF LightStep
<1>6. CASE Begin \/ TablesStep \/ CopyStep \/ Cancel \/ Reset \/ Sync \/ Delete \/ UNCHANGED vars
  BY <1>6 DEF Begin, TablesStep, CopyStep, Cancel, Reset, Sync, Delete, vars
<1> QED BY <1>1, <1>2, <1>3, <1>4, <1>5, <1>6 DEF Next, DeviceUpdate

(* In every reachable state, what is not fresh is owed by a manager that is
   tagged or will be before it is its turn. *)
LEMMA FreshInvariance ==
  ASSUME EditsTagged
  PROVE  Spec => [](FInv /\ fresh \subseteq Products)
<1>1. ASSUME Init
      PROVE  FInv /\ fresh \subseteq Products
  <2>1. KindsOK
    BY <1>1, SceneAssumption DEF Init, KindsOK, NoKind
  <2>2. step = "sync" /\ tagged = Flags \ {"mesh", "meshShader"} /\ fresh = {}
    BY <1>1 DEF Init
  <2> QED BY <2>1, <2>2 DEF FInv, ResetTags, Live, Flags
<1>2. ASSUME FInv /\ fresh \subseteq Products, [Next]_vars
      PROVE  (FInv /\ fresh \subseteq Products)'
  BY <1>2, FreshStep, OnlyProductsFresh
<1> QED BY <1>1, <1>2, PTL DEF Spec

(* When Scene::device_update hands its data to the kernels, every product  *)
(* shows the scene as it is, after any number and order of edits, cancels  *)
(* and resets, for any shaders: the hand-written tag_update methods, with  *)
(* the order of the update, cover all that the device_update methods read, *)
(* except in the two cases that EditsTagged rules out.                     *)
THEOREM KernelsSeeScene ==
  ASSUME EditsTagged
  PROVE  Spec => []FreshWhenCopied
<1>1. ASSUME FInv, fresh \subseteq Products
      PROVE  FreshWhenCopied
  <2> SUFFICES ASSUME step = "copy"
               PROVE  Current
    BY DEF FreshWhenCopied
  <2> USE <1>1 DEF Owed, UptoShader, UptoBackground, UptoCamera, UptoPreprocess, UptoObject, UptoParticles,
            UptoGeometry, UptoObjectFlags, UptoImages, UptoCameraVolume, UptoLight,
            UptoIntegrator, UptoFilm
  <2>1. Follows
    BY DEF FInv, Live
  <2>2. /\ {"svm", "background", "camera", "volumeFlags", "objects", "particles"} \subseteq fresh
        /\ {"objectFlags", "integrator", "film"} \subseteq fresh
        /\ compiled = KindsOf(graph)
    BY <2>1 DEF Follows, ShadersFollow, SceneFollows
  <2>3. {"mesh", "geometry", "images", "cameraVolume", "lights", "lightBackground"} \subseteq fresh
    BY <2>1 DEF Follows, GeometryFollows, CameraFollows, LightsFollow
  <2>4. fresh = Products
    BY <2>2, <2>3 DEF Products
  <2>5. compiled.emission = graph.emission
    BY <2>2 DEF KindsOf
  <2>6. lit = compiled.emission /\ kernelVisibility = (restricted /\ compiled.emission)
    BY <2>1 DEF Follows, LightsFollow
  <2> QED BY <2>4, <2>5, <2>6 DEF Current
<1> QED BY <1>1, FreshInvariance, PTL

(* Scene::need_reset, by which BlenderSession::synchronize decides whether *)
(* to restart the viewport, overlooks no edit: whatever the kernels would  *)
(* see wrongly raises a flag that it asks for.                             *)
THEOREM StaleNoticed ==
  ASSUME EditsTagged
  PROVE  Spec => []StaleIsNoticed
<1>1. ASSUME FInv, fresh \subseteq Products
      PROVE  StaleIsNoticed
  <2> SUFFICES ASSUME step = "idle", ~NeedReset
               PROVE  Current
    BY DEF StaleIsNoticed
  <2> USE <1>1 DEF Owed
  <2>1. Follows
    BY DEF FInv, Live
  <2>2. tagged \cap {"background", "image", "object", "geometry", "light", "integrator", "shader",
                    "particles", "film", "camera"} = {}
    BY DEF NeedReset, NeedDataUpdate
  <2>3. /\ {"svm", "background", "camera", "volumeFlags", "objects", "particles"} \subseteq fresh
        /\ {"objectFlags", "integrator", "film"} \subseteq fresh
        /\ compiled = KindsOf(graph)
    BY <2>1, <2>2 DEF Follows, ShadersFollow, SceneFollows
  <2>4. {"mesh", "geometry", "images", "lights", "lightBackground"} \subseteq fresh
    BY <2>1, <2>2 DEF Follows, GeometryFollows, LightsFollow
  <2>5. "cameraVolume" \in fresh
    BY <2>1, <2>2 DEF Follows, CameraFollows
  <2>6. fresh = Products
    BY <2>3, <2>4, <2>5 DEF Products
  <2>7. compiled.emission = graph.emission
    BY <2>3 DEF KindsOf
  <2>8. lit = compiled.emission /\ kernelVisibility = (restricted /\ compiled.emission)
    BY <2>1, <2>2 DEF Follows, LightsFollow
  <2> QED BY <2>6, <2>7, <2>8 DEF Current
<1> QED BY <1>1, FreshInvariance, PTL
=============================================================================
