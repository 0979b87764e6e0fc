-------------------------- MODULE ImageManagerProofs --------------------------
(***************************************************************************)
(* The image manager for any nodes, tiles and images: users are counted    *)
(* exactly, handles name the image they were made for, what is unused is   *)
(* noticed, and what a render uses was loaded.                             *)
(*                                                                         *)
(* The count of a slot changes with the set of tiles that refer to it, one *)
(* at a time (LEMMAS RefAdded, RefRemoved).  A handle is valid because a   *)
(* slot is freed only without users, hence without tiles that refer to it. *)
(***************************************************************************)
EXTENDS ImageManager, FiniteSetTheorems, WellFoundedInduction, TLAPS

(* What a stage says of a tile's image and of its slots in the node's handle *)
(* and in the temporary one; where there is no image nothing is ever held. *)
TileOK(w, g, h, m) ==
  /\ w = NoKey => h = NoSlot /\ m = NoSlot
  /\ g \in {"none", "new", "adding"} => h = NoSlot
  /\ g \in {"none", "new", "ready", "copying", "clearing"} => m = NoSlot
  /\ g = "assigning" /\ w # NoKey => m # NoSlot
  /\ g \in {"dropping", "ready"} /\ w # NoKey => h # NoSlot

Stages == \A r \in Ref : TileOK(want[r], stage[r[1]], held[r], temp[r])

(* Handles change only in a sync, a compilation, or when the scene is deleted; *)
(* while images load, all that will be are in use. *)
Steps ==
  /\ step \notin {"sync", "compile", "delete"} => \A n \in Node : Settled(n)
  /\ step \notin {"builtin", "volumes", "update"} => pending = {}
  /\ step = "update" => \A s \in Slots : images[s].users > 0
  /\ step = "deleted" => Slots = {}

IInv == TypeOK /\ Stages /\ Steps /\ UsersCounted /\ HandlesValid /\ LoadedOnce /\ UnusedNoticed

-----------------------------------------------------------------------------

(* The places where a node refers to a slot are finitely many. *)
LEMMA RefsFinite ==
  /\ IsFiniteSet(Ref)
  /\ \A S \in SUBSET Ref : IsFiniteSet(S) /\ Cardinality(S) \in Nat
<1>1. IsFiniteSet(Ref)
  BY ImageAssumption, FS_Product DEF Ref
<1>2. \A S \in SUBSET Ref : IsFiniteSet(S)
  BY <1>1, FS_Subset
<1> QED BY <1>1, <1>2, FS_CardinalityType

(* A map of tiles to slots: one tile changes. *)
LEMMA Joined ==
  ASSUME NEW f, NEW g, NEW r \in Ref, NEW s,
         f[r] # s, g[r] = s, \A q \in Ref \ {r} : g[q] = f[q]
  PROVE  Cardinality({q \in Ref : g[q] = s}) = Cardinality({q \in Ref : f[q] = s}) + 1
<1> DEFINE F == {q \in Ref : f[q] = s}
<1>1. {q \in Ref : g[q] = s} = F \cup {r} /\ r \notin F /\ IsFiniteSet(F)
  BY RefsFinite
<1> QED BY <1>1, FS_AddElement

(* Tiles refer to a slot only if it is counted. *)
LEMMA Unused ==
  ASSUME IInv, NEW s \in Slots, images[s].users = 0
  PROVE  \A r \in Ref : held[r] # s /\ temp[r] # s
<1>1. HeldIn(s) \in SUBSET Ref /\ TempIn(s) \in SUBSET Ref
  BY DEF HeldIn, TempIn
<1>2. Cardinality(HeldIn(s)) = 0 /\ Cardinality(TempIn(s)) = 0
  BY <1>1, RefsFinite DEF IInv, UsersCounted
<1>3. HeldIn(s) = {} /\ TempIn(s) = {}
  BY <1>1, <1>2, RefsFinite, FS_EmptySet
<1> QED BY <1>3 DEF HeldIn, TempIn

(* A new image gets a slot that no image has. *)
LEMMA FreeSlotFree ==
  ASSUME IsFiniteSet(Slots), Slots \in SUBSET Nat
  PROVE  FreeSlot \in Nat \ Slots
<1> DEFINE c == Cardinality(Slots)
           Free == {s \in 0 .. c : s \notin Slots}
<1>1. c \in Nat
  BY FS_CardinalityType
<1>2. Free # {}
  <2> SUFFICES ASSUME 0 .. c \subseteq Slots PROVE FALSE
    OBVIOUS
  <2>1. IsFiniteSet(0 .. c) /\ Cardinality(0 .. c) = c + 1
    BY <1>1, FS_Interval
  <2>2. Cardinality(0 .. c) <= c
    BY FS_Subset
  <2> QED BY <1>1, <2>1, <2>2
<1>3. PICK s \in Free : \A u \in Free : s <= u
  <2> DEFINE R == {ss \in Nat \X Nat : ss[1] < ss[2]}
  <2>1. IsWellFoundedOn(R, Nat)
    BY NatLessThanWellFounded DEF OpToRel
  <2>2. Free \subseteq Nat
    BY <1>1
  <2>3. PICK s \in Free : \A u \in Free : ~ (<<u, s>> \in R)
    BY <1>2, <2>1, <2>2, WFMin
  <2>4. ASSUME NEW u \in Free PROVE s <= u
    <3>1. s \in Nat /\ u \in Nat /\ ~ (<<u, s>> \in R)
      BY <2>2, <2>3
    <3>2. ~ (u < s)
      BY <3>1
    <3> QED BY <3>1, <3>2
  <2> QED BY <2>4
<1>4. s \in 0 .. c /\ s \notin Slots /\ \A u \in 0 .. s - 1 : u \in Slots
  BY <1>1, <1>3
<1> QED BY <1>1, <1>4 DEF FreeSlot

(* A tile that comes to refer to a slot adds one to the users of that slot
   only. *)
LEMMA RefAdded ==
  ASSUME NEW f \in [Ref -> Nat \cup {NoSlot}], NEW r \in Ref, f[r] = NoSlot, NEW s \in Nat,
         NEW u \in Nat
  PROVE  Cardinality({q \in Ref : [f EXCEPT ![r] = s][q] = u})
           = Cardinality({q \in Ref : f[q] = u}) + IF u = s THEN 1 ELSE 0
<1> DEFINE g == [f EXCEPT ![r] = s]
<1>1. g[r] = s /\ \A q \in Ref \ {r} : g[q] = f[q]
  OBVIOUS
<1>2. f[r] # u
  BY ImageAssumption
<1> HIDE DEF g
<1>3. CASE u = s
  <2>1. Cardinality({q \in Ref : g[q] = s}) = Cardinality({q \in Ref : f[q] = s}) + 1
    BY <1>1, <1>2, <1>3, Joined
  <2> QED BY <1>3, <2>1 DEF g
<1>4. CASE u # s
  <2>1. {q \in Ref : g[q] = u} = {q \in Ref : f[q] = u}
    BY <1>1, <1>2, <1>4
  <2>2. Cardinality({q \in Ref : f[q] = u}) \in Nat
    BY RefsFinite
  <2> QED BY <1>4, <2>1, <2>2 DEF g
<1> QED BY <1>3, <1>4

(* A tile that ceases to refer to a slot takes one from the users of that
   slot only. *)
LEMMA RefRemoved ==
  ASSUME NEW f \in [Ref -> Nat \cup {NoSlot}], NEW r \in Ref, NEW s \in Nat, f[r] = s,
         NEW u \in Nat
  PROVE  Cardinality({q \in Ref : [f EXCEPT ![r] = NoSlot][q] = u})
           = Cardinality({q \in Ref : f[q] = u}) - IF u = s THEN 1 ELSE 0
<1> DEFINE g == [f EXCEPT ![r] = NoSlot]
<1>1. g[r] = NoSlot /\ \A q \in Ref \ {r} : g[q] = f[q]
  OBVIOUS
<1>2. g[r] # u
  BY <1>1, ImageAssumption
<1> HIDE DEF g
<1>3. CASE u = s
  <2> DEFINE F == {q \in Ref : f[q] = s}
  <2>1. {q \in Ref : g[q] = s} = F \ {r} /\ r \in F /\ IsFiniteSet(F)
    BY <1>1, <1>2, <1>3, RefsFinite
  <2>2. Cardinality(F \ {r}) = Cardinality(F) - 1
    BY <2>1, FS_RemoveElement
  <2> QED BY <1>3, <2>1, <2>2 DEF g
<1>4. CASE u # s
  <2>1. {q \in Ref : g[q] = u} = {q \in Ref : f[q] = u}
    BY <1>1, <1>2, <1>4
  <2>2. Cardinality({q \in Ref : f[q] = u}) \in Nat
    BY RefsFinite
  <2> QED BY <1>4, <2>1, <2>2 DEF g
<1> QED BY <1>3, <1>4

-----------------------------------------------------------------------------
(* What the manager's operations do to the slots. *)
LEMMA UserAdded ==
  ASSUME TypeOK, NEW s \in Slots, AddImageUser(s)
  PROVE  /\ images' \in [Slots -> Image] /\ Slots' = Slots /\ UNCHANGED needUpdate
         /\ \A u \in Slots : /\ images'[u].key = images[u].key
                             /\ images'[u].users = images[u].users + IF u = s THEN 1 ELSE 0
BY DEF TypeOK, AddImageUser, AddUser, Image, Slots

(* remove_image_user takes one user from one slot and asks for an update
   when it was the last. *)
LEMMA UserRemoved ==
  ASSUME TypeOK, NEW s \in Slots, images[s].users > 0, RemoveImageUser(s)
  PROVE  /\ images' \in [Slots -> Image] /\ Slots' = Slots
         /\ needUpdate' \in BOOLEAN /\ (needUpdate => needUpdate')
         /\ images'[s].users = 0 => needUpdate'
         /\ \A u \in Slots : /\ images'[u].key = images[u].key
                             /\ images'[u].users = images[u].users - IF u = s THEN 1 ELSE 0
<1>1. /\ images \in [Slots -> Image]
      /\ images' = [images EXCEPT ![s].users = @ - 1]
      /\ needUpdate' = (needUpdate \/ images[s].users = 1)
  BY DEF TypeOK, RemoveImageUser
<1>2. /\ images' \in [Slots -> Image] /\ Slots' = Slots
      /\ \A u \in Slots : /\ images'[u].key = images[u].key
                          /\ images'[u].users = images[u].users - IF u = s THEN 1 ELSE 0
  BY <1>1 DEF Image, Slots
<1>3. images'[s].users = 0 => images[s].users = 1
  BY <1>1 DEF Image
<1> HIDE DEF Slots
<1> QED BY <1>1, <1>2, <1>3 DEF TypeOK

(* A new slot has one user and leaves the other slots alone. *)
LEMMA SlotAdded ==
  ASSUME TypeOK, NEW k \in Key, ~HasImage(k), AddImageSlot(k)
  PROVE  /\ FreeSlot \in Nat \ Slots
         /\ images' \in [Slots' -> Image] /\ Slots' = Slots \cup {FreeSlot}
         /\ needUpdate' = TRUE
         /\ images'[FreeSlot].key = k /\ images'[FreeSlot].users = 1
         /\ \A u \in Slots : images'[u] = images[u]
<1>1. FreeSlot \in Nat \ Slots
  BY FreeSlotFree DEF TypeOK
<1>2. /\ Slots' = Slots \cup {FreeSlot}
      /\ images'[FreeSlot] = [key |-> k, users |-> 1, needLoad |-> TRUE]
      /\ \A u \in Slots : images'[u] = images[u]
      /\ needUpdate' = TRUE
  BY <1>1 DEF AddImageSlot, Slots
<1>3. images' \in [Slots' -> Image]
  <2>1. [key |-> k, users |-> 1, needLoad |-> TRUE] \in Image
    BY DEF Image
  <2>2. \A u \in Slots : images[u] \in Image
    BY DEF TypeOK
  <2>3. \A u \in Slots' : images'[u] \in Image
    BY <1>2, <2>1, <2>2
  <2>4. images' = [u \in Slots' |-> images'[u]]
    BY <1>1 DEF AddImageSlot, Slots
  <2> QED BY <2>3, <2>4
<1> QED BY <1>1, <1>2, <1>3

(* Users that the tiles of a slot account for. *)
LEMMA HasUser ==
  ASSUME IInv, NEW r \in Ref, NEW s \in {held[r], temp[r]}, s # NoSlot
  PROVE  s \in Slots /\ s \in Nat /\ images[s].users > 0 /\ images[s].key = want[r]
<1>1. s \in Slots /\ s \in Nat /\ images[s].key = want[r]
  BY DEF IInv, HandlesValid, TypeOK
<1>2. images[s].users # 0
  BY <1>1, Unused
<1>3. images[s].users \in Nat
  BY <1>1 DEF IInv, TypeOK, Image
<1> QED BY <1>1, <1>2, <1>3
-----------------------------------------------------------------------------
(* One tile of a handle changes. *)
LEMMA TileFacts ==
  ASSUME IInv, NEW r \in Ref, r \in Refs(r[1])
  PROVE  /\ r[1] \in Node /\ r[2] \in Tile /\ r = <<r[1], r[2]>>
         /\ want[r] \in Key
         /\ \A q \in Ref : q[1] = r[1] /\ q # r => q \in Others(r) \/ want[q] = NoKey
         /\ \A q \in Others(r) : q \in Ref /\ q[1] = r[1] /\ want[q] # NoKey /\ q # r
         /\ step \in {"sync", "compile", "delete"} \/ Settled(r[1])
<1>1. r[1] \in Node /\ r[2] \in Tile /\ r = <<r[1], r[2]>>
  BY DEF Ref
<1>2. want[r] # NoKey
  BY DEF Refs
<1>3. want[r] \in Key
  BY <1>2 DEF IInv, TypeOK
<1>4. \A q \in Ref : q[1] = r[1] /\ q # r => q \in Others(r) \/ want[q] = NoKey
  BY DEF Ref, Refs, Others
<1>5. \A q \in Others(r) : q \in Ref /\ q[1] = r[1] /\ want[q] # NoKey /\ q # r
  BY <1>1 DEF Ref, Refs, Others
<1>6. step \in {"sync", "compile", "delete"} \/ Settled(r[1])
  BY <1>1 DEF IInv, Steps
<1> QED BY <1>1, <1>3, <1>4, <1>5, <1>6

(* A step of one tile that fits its node's next stage keeps the stages of
   all nodes. *)
LEMMA StagesKept ==
  ASSUME IInv, NEW r \in Ref, r \in Refs(r[1]), NEW g \in Stage,
         stage' = [stage EXCEPT ![r[1]] = g], UNCHANGED want,
         \A q \in Ref \ {r} : held'[q] = held[q] /\ temp'[q] = temp[q],
         TileOK(want[r], g, held'[r], temp'[r]),
         \A q \in Others(r) : TileOK(want[q], g, held[q], temp[q])
  PROVE  Stages' /\ stage' \in [Node -> Stage]
<1>1. stage \in [Node -> Stage]
  BY DEF IInv, TypeOK
<1>2. stage' \in [Node -> Stage]
  BY <1>1, TileFacts
<1>3. ASSUME NEW q \in Ref
      PROVE  TileOK(want'[q], stage'[q[1]], held'[q], temp'[q])
  <2>1. TileOK(want[q], stage[q[1]], held[q], temp[q])
    BY DEF IInv, Stages
  <2>2. q[1] \in Node
    BY DEF Ref
  <2>3. CASE q = r
    BY <1>1, <2>2, <2>3
  <2>4. CASE q # r /\ q[1] # r[1]
    BY <1>1, <2>1, <2>2, <2>4
  <2>5. CASE q \in Others(r)
    <3>1. q # r /\ q[1] = r[1]
      BY <2>5, TileFacts
    <3> QED BY <1>1, <2>2, <2>5, <3>1
  <2>6. CASE q # r /\ want[q] = NoKey /\ q[1] = r[1]
    <3>1. held'[q] = NoSlot /\ temp'[q] = NoSlot /\ want'[q] = NoKey
      BY <2>1, <2>6 DEF TileOK
    <3> QED BY <3>1 DEF TileOK
  <2> QED BY <2>3, <2>4, <2>5, <2>6, TileFacts
<1> QED BY <1>2, <1>3 DEF Stages

(* A step of one tile happens in a sync, a compilation or a deletion, and
   leaves the rest of the state alone. *)
LEMMA Rest ==
  ASSUME IInv, NEW r \in Ref, r \in Refs(r[1]), ~Settled(r[1]), UNCHANGED <<want, stepVars>>,
         Slots \subseteq Slots', Slots' \in SUBSET Nat, images' \in [Slots' -> Image],
         needUpdate' \in BOOLEAN
  PROVE  /\ Steps'
         /\ want' \in [Ref -> Key \cup {NoKey}] /\ pending' \subseteq Slots' /\ cancelled' \in BOOLEAN
<1>1. step \in {"sync", "compile", "delete"}
  BY TileFacts
<1> QED BY <1>1 DEF IInv, Steps, TypeOK, stepVars

(* When a tile of a handle gets or loses a slot, this much is left to show. *)
LEMMA Kept ==
  ASSUME IInv, NEW r \in Ref, r \in Refs(r[1]), ~Settled(r[1]),
         UNCHANGED <<want, stepVars>>, Stages', stage' \in [Node -> Stage],
         temp' \in [Ref -> Nat \cup {NoSlot}], held' \in [Ref -> Nat \cup {NoSlot}],
         IsFiniteSet(Slots'), Slots' \in SUBSET Nat, Slots \subseteq Slots',
         images' \in [Slots' -> Image], needUpdate' \in BOOLEAN,
         UsersCounted', HandlesValid', LoadedOnce', UnusedNoticed'
  PROVE  IInv'
<1>1. /\ Steps'
      /\ want' \in [Ref -> Key \cup {NoKey}] /\ pending' \subseteq Slots' /\ cancelled' \in BOOLEAN
  BY Rest
<1> QED BY <1>1 DEF IInv, TypeOK

(* A tile of the node's handle gets a slot. *)
LEMMA TileHeld ==
  ASSUME IInv, NEW r \in Ref, r \in Refs(r[1]), held[r] = NoSlot, ~Settled(r[1]),
         NEW s \in Slots, images[s].key = want[r], AddImageUser(s),
         held' = [held EXCEPT ![r] = s], UNCHANGED <<want, temp, stepVars>>,
         Stages', stage' \in [Node -> Stage]
  PROVE  IInv'
<1>1. /\ images' \in [Slots -> Image] /\ Slots' = Slots /\ UNCHANGED needUpdate
      /\ \A u \in Slots : /\ images'[u].key = images[u].key
                          /\ images'[u].users = images[u].users + IF u = s THEN 1 ELSE 0
  BY UserAdded DEF IInv
<1>2. s \in Nat /\ s # NoSlot /\ held \in [Ref -> Nat \cup {NoSlot}]
      /\ \A u \in Slots : u \in Nat /\ images[u].users \in Nat
  BY ImageAssumption DEF IInv, TypeOK, Image
<1>3. held' \in [Ref -> Nat \cup {NoSlot}]
  BY <1>2
<1>4. UsersCounted'
  <2> SUFFICES ASSUME NEW u \in Slots
               PROVE  images'[u].users = Cardinality(HeldIn(u)') + Cardinality(TempIn(u)')
    BY <1>1 DEF UsersCounted
  <2>1. TempIn(u)' = TempIn(u)
    BY DEF TempIn
  <2>2. Cardinality(HeldIn(u)') = Cardinality(HeldIn(u)) + IF u = s THEN 1 ELSE 0
    <3>1. u \in Nat /\ s \in Nat /\ held \in [Ref -> Nat \cup {NoSlot}] /\ held[r] = NoSlot
      BY <1>2
    <3>2. Cardinality({q \in Ref : [held EXCEPT ![r] = s][q] = u})
            = Cardinality({q \in Ref : held[q] = u}) + IF u = s THEN 1 ELSE 0
      BY <3>1, RefAdded
    <3>3. HeldIn(u)' = {q \in Ref : [held EXCEPT ![r] = s][q] = u}
      BY DEF HeldIn
    <3> QED BY <3>2, <3>3 DEF HeldIn
  <2>3. Cardinality(HeldIn(u)) \in Nat /\ Cardinality(TempIn(u)) \in Nat
    BY RefsFinite DEF HeldIn, TempIn
  <2>4. images[u].users = Cardinality(HeldIn(u)) + Cardinality(TempIn(u))
    BY DEF IInv, UsersCounted
  <2> QED BY <1>1, <2>1, <2>2, <2>3, <2>4
<1>5. HandlesValid'
  <2>1. ASSUME NEW q \in Ref, NEW u \in {held'[q], temp'[q]} \ {NoSlot}
        PROVE  u \in Slots' /\ images'[u].key = want'[q]
    <3>1. CASE u \in {held[q], temp[q]}
      BY <1>1, <2>1, <3>1 DEF IInv, HandlesValid
    <3>2. CASE q = r /\ u = s
      BY <1>1, <3>2
    <3> QED BY <1>2, <2>1, <3>1, <3>2
  <2> QED BY <2>1 DEF HandlesValid
<1>6. LoadedOnce'
  BY <1>1 DEF IInv, LoadedOnce
<1>7. UnusedNoticed'
  <2>1. \A u \in Slots : images'[u].users = 0 => images[u].users = 0
    BY <1>1, <1>2
  <2> QED BY <1>1, <2>1 DEF IInv, UnusedNoticed, stepVars
<1> HIDE DEF Slots
<1> QED BY <1>1, <1>3, <1>4, <1>5, <1>6, <1>7, Kept DEF IInv, TypeOK

(* A tile of a handle loses its slot. *)
LEMMA TileLeft ==
  ASSUME IInv, NEW r \in Ref, r \in Refs(r[1]), ~Settled(r[1]),
         NEW s, s # NoSlot, RemoveImageUser(s), UNCHANGED <<want, stepVars>>,
         \/ held[r] = s /\ held' = [held EXCEPT ![r] = NoSlot] /\ temp' = temp
         \/ temp[r] = s /\ temp' = [temp EXCEPT ![r] = NoSlot] /\ held' = held,
         Stages', stage' \in [Node -> Stage]
  PROVE  IInv'
<1>1. s \in Slots /\ s \in Nat /\ images[s].users > 0
  BY HasUser
<1>2. /\ images' \in [Slots -> Image] /\ Slots' = Slots
      /\ needUpdate' \in BOOLEAN /\ (needUpdate => needUpdate')
      /\ images'[s].users = 0 => needUpdate'
      /\ \A u \in Slots : /\ images'[u].key = images[u].key
                          /\ images'[u].users = images[u].users - IF u = s THEN 1 ELSE 0
  BY <1>1, UserRemoved DEF IInv
<1>3. held \in [Ref -> Nat \cup {NoSlot}] /\ temp \in [Ref -> Nat \cup {NoSlot}]
      /\ \A u \in Slots : u \in Nat /\ images[u].users \in Nat
  BY DEF IInv, TypeOK, Image
<1>4. held' \in [Ref -> Nat \cup {NoSlot}] /\ temp' \in [Ref -> Nat \cup {NoSlot}]
  BY <1>3
<1>5. UsersCounted'
  <2> SUFFICES ASSUME NEW u \in Slots
               PROVE  images'[u].users = Cardinality(HeldIn(u)') + Cardinality(TempIn(u)')
    BY <1>2 DEF UsersCounted
  <2>1. Cardinality(HeldIn(u)') + Cardinality(TempIn(u)')
          = Cardinality(HeldIn(u)) + Cardinality(TempIn(u)) - IF u = s THEN 1 ELSE 0
    <3>1. Cardinality(HeldIn(u)) \in Nat /\ Cardinality(TempIn(u)) \in Nat
      BY RefsFinite DEF HeldIn, TempIn
    <3>2. CASE held[r] = s /\ held' = [held EXCEPT ![r] = NoSlot] /\ temp' = temp
      <4>1. TempIn(u)' = TempIn(u)
        BY <3>2 DEF TempIn
      <4>2. Cardinality(HeldIn(u)') = Cardinality(HeldIn(u)) - IF u = s THEN 1 ELSE 0
        BY <1>1, <1>3, <3>2, RefRemoved DEF HeldIn
      <4> QED BY <3>1, <4>1, <4>2
    <3>3. CASE temp[r] = s /\ temp' = [temp EXCEPT ![r] = NoSlot] /\ held' = held
      <4>1. HeldIn(u)' = HeldIn(u)
        BY <3>3 DEF HeldIn
      <4>2. Cardinality(TempIn(u)') = Cardinality(TempIn(u)) - IF u = s THEN 1 ELSE 0
        BY <1>1, <1>3, <3>3, RefRemoved DEF TempIn
      <4> QED BY <3>1, <4>1, <4>2
    <3> QED BY <3>2, <3>3
  <2>2. images[u].users = Cardinality(HeldIn(u)) + Cardinality(TempIn(u))
    BY DEF IInv, UsersCounted
  <2>3. Cardinality(HeldIn(u)) \in Nat /\ Cardinality(TempIn(u)) \in Nat
    BY RefsFinite DEF HeldIn, TempIn
  <2> QED BY <1>2, <2>1, <2>2, <2>3
<1>6. HandlesValid'
  <2>1. ASSUME NEW q \in Ref, NEW u \in {held'[q], temp'[q]} \ {NoSlot}
        PROVE  u \in Slots' /\ images'[u].key = want'[q]
    <3>1. u \in {held[q], temp[q]}
      BY <1>3, <2>1
    <3> QED BY <1>2, <2>1, <3>1 DEF IInv, HandlesValid
  <2> QED BY <2>1 DEF HandlesValid
<1>7. LoadedOnce'
  BY <1>2 DEF IInv, LoadedOnce
<1>8. UnusedNoticed'
  <2> SUFFICES ASSUME NEW u \in Slots, images'[u].users = 0
               PROVE  needUpdate' \/ step' = "deleted"
    BY <1>2 DEF UnusedNoticed
  <2>1. u = s \/ images[u].users = 0
    BY <1>2, <1>3
  <2>2. CASE u = s
    BY <1>2, <2>2
  <2>3. CASE images[u].users = 0
    BY <1>2, <2>3 DEF IInv, UnusedNoticed, stepVars
  <2> QED BY <2>1, <2>2, <2>3
<1> HIDE DEF Slots
<1> QED BY <1>2, <1>4, <1>5, <1>6, <1>7, <1>8, Kept DEF IInv, TypeOK

-----------------------------------------------------------------------------

(* add_image for a tile gives a temporary handle a user of its own. *)
LEMMA AddTileKeeps ==
  ASSUME IInv, NEW r \in Ref, AddTile(r)
  PROVE  IInv'
<1> DEFINE k == want[r]
           s == AddedSlot(k)
<1>1. /\ r \in Refs(r[1]) /\ k \in Key /\ temp[r] = NoSlot
      /\ temp' = [temp EXCEPT ![r] = s] /\ AddImageSlot(k)
      /\ UNCHANGED <<want, held, stepVars>> /\ ~Settled(r[1])
  BY TileFacts DEF AddTile, At, Settled
<1>2. /\ s \in Nat /\ s \in Slots' /\ Slots' = Slots \cup {s}
      /\ images' \in [Slots' -> Image] /\ images'[s].key = k
      /\ needUpdate' \in BOOLEAN /\ (needUpdate => needUpdate')
      /\ \A u \in Slots : /\ images'[u].key = images[u].key
                          /\ images'[u].users = images[u].users + IF u = s THEN 1 ELSE 0
      /\ s \notin Slots => images'[s].users = 1 /\ ~HasImage(k)
  <2>1. CASE HasImage(k)
    <3>1. s \in Slots /\ images[s].key = k /\ AddImageUser(s)
      BY <1>1, <2>1 DEF HasImage, SlotOf, AddedSlot, AddImageSlot
    <3> QED BY <3>1, UserAdded DEF IInv, TypeOK
  <2>2. CASE ~HasImage(k)
    <3>1. s = FreeSlot
      BY <2>2 DEF AddedSlot
    <3>2. \A u \in Slots : images[u].users \in Nat
      BY DEF IInv, TypeOK, Image
    <3> HIDE DEF s, k
    <3>3. /\ s \in Nat \ Slots
          /\ images' \in [Slots' -> Image] /\ Slots' = Slots \cup {s}
          /\ needUpdate' = TRUE
          /\ images'[s].key = k /\ images'[s].users = 1
          /\ \A u \in Slots : images'[u] = images[u]
      BY <1>1, <2>2, <3>1, SlotAdded DEF IInv
    <3>4. \A u \in Slots : images'[u].users = images[u].users + IF u = s THEN 1 ELSE 0
      BY <3>2, <3>3
    <3> QED BY <2>2, <3>3, <3>4
  <2> QED BY <2>1, <2>2
<1> HIDE DEF s, k
<1>3. temp' \in [Ref -> Nat \cup {NoSlot}] /\ temp'[r] = s /\ s # NoSlot
      /\ \A q \in Ref \ {r} : temp'[q] = temp[q]
  BY <1>1, <1>2, ImageAssumption DEF IInv, TypeOK
<1>4. Stages' /\ stage' \in [Node -> Stage]
  <2> DEFINE g == IF \A q \in Others(r) : temp[q] # NoSlot THEN "assigning" ELSE "adding"
  <2>1. stage[r[1]] = "adding" /\ g \in Stage /\ stage' = [stage EXCEPT ![r[1]] = g]
    BY DEF AddTile, At, Finish, Stage
  <2>2. ASSUME NEW q \in Ref, q[1] = r[1]
        PROVE  held[q] = NoSlot /\ (want[q] = NoKey => temp[q] = NoSlot)
    BY <2>1, <2>2 DEF IInv, Stages, TileOK
  <2>3. \A q \in Others(r) : TileOK(want[q], g, held[q], temp[q])
    BY <1>1, <2>2, TileFacts DEF TileOK
  <2>4. TileOK(want[r], g, held'[r], temp'[r])
    BY <1>1, <1>3, <2>2, TileFacts DEF TileOK, k, Refs
  <2> HIDE DEF g
  <2> QED BY <1>1, <1>3, <2>1, <2>3, <2>4, StagesKept
<1>5. IsFiniteSet(Slots') /\ Slots' \in SUBSET Nat
  BY <1>2, FS_AddElement DEF IInv, TypeOK
<1>6. UsersCounted'
  <2> SUFFICES ASSUME NEW u \in Slots'
               PROVE  images'[u].users = Cardinality(HeldIn(u)') + Cardinality(TempIn(u)')
    BY DEF UsersCounted
  <2>1. HeldIn(u)' = HeldIn(u)
    BY <1>1 DEF HeldIn
  <2>2. Cardinality(TempIn(u)') = Cardinality(TempIn(u)) + IF u = s THEN 1 ELSE 0
    <3>1. temp \in [Ref -> Nat \cup {NoSlot}] /\ u \in Nat
      BY <1>2 DEF IInv, TypeOK
    <3> QED BY <1>1, <1>2, <3>1, RefAdded DEF TempIn
  <2>3. Cardinality(HeldIn(u)) \in Nat /\ Cardinality(TempIn(u)) \in Nat
    BY RefsFinite DEF HeldIn, TempIn
  <2>4. CASE u \in Slots
    BY <1>2, <2>1, <2>2, <2>3, <2>4 DEF IInv, UsersCounted
  <2>5. CASE u \notin Slots
    <3>1. HeldIn(u) = {} /\ TempIn(u) = {}
      <4>1. u # NoSlot
        BY <1>2, ImageAssumption DEF IInv, TypeOK
      <4> QED BY <2>5, <4>1 DEF IInv, HandlesValid, HeldIn, TempIn
    <3> QED BY <1>2, <2>1, <2>2, <2>5, <3>1, FS_EmptySet
  <2> QED BY <2>4, <2>5
<1>7. HandlesValid'
  <2>1. ASSUME NEW q \in Ref, NEW u \in {held'[q], temp'[q]} \ {NoSlot}
        PROVE  u \in Slots' /\ images'[u].key = want'[q]
    <3>1. CASE u = held'[q] \/ q # r
      <4>1. u \in {held[q], temp[q]} \ {NoSlot}
        BY <1>1, <1>3, <3>1, <2>1
      <4> QED BY <1>1, <1>2, <4>1 DEF IInv, HandlesValid
    <3>2. CASE u = temp'[q] /\ q = r
      BY <1>1, <1>2, <1>3, <3>2 DEF k
    <3> QED BY <2>1, <3>1, <3>2
  <2> QED BY <2>1 DEF HandlesValid
<1>8. LoadedOnce'
  <2>1. \A u, v \in Slots : images[u].key = images[v].key => u = v
    BY DEF IInv, LoadedOnce
  <2>2. s \notin Slots => \A u \in Slots : images[u].key # k
    BY <1>2 DEF HasImage
  <2>3. ASSUME NEW u \in Slots', NEW v \in Slots', images'[u].key = images'[v].key
        PROVE  u = v
    <3>1. CASE u \in Slots /\ v \in Slots
      BY <1>2, <2>1, <2>3, <3>1
    <3>2. CASE u = s /\ s \notin Slots /\ v \in Slots
      BY <1>2, <2>2, <2>3, <3>2
    <3>3. CASE v = s /\ s \notin Slots /\ u \in Slots
      BY <1>2, <2>2, <2>3, <3>3
    <3> QED BY <1>2, <3>1, <3>2, <3>3
  <2> QED BY <2>3 DEF LoadedOnce
<1>9. UnusedNoticed'
  <2> SUFFICES ASSUME NEW u \in Slots', images'[u].users = 0
               PROVE  needUpdate' \/ step' = "deleted"
    BY DEF UnusedNoticed
  <2>1. u \in Slots /\ images[u].users = 0
    BY <1>2 DEF IInv, TypeOK, Image
  <2> QED BY <1>1, <1>2, <2>1 DEF IInv, UnusedNoticed, stepVars
<1>10. held' \in [Ref -> Nat \cup {NoSlot}]
  BY <1>1 DEF IInv, TypeOK
<1> HIDE DEF Slots
<1> QED BY <1>1, <1>2, <1>3, <1>4, <1>5, <1>6, <1>7, <1>8, <1>9, <1>10, Kept

(* The assignment of a handle copies a tile's slot with another user. *)
LEMMA AssignTileKeeps ==
  ASSUME IInv, NEW r \in Ref, AssignTile(r)
  PROVE  IInv'
<1> DEFINE g == IF \A q \in Others(r) : held[q] # NoSlot THEN "dropping" ELSE "assigning"
           s == temp[r]
<1>1. /\ r \in Refs(r[1]) /\ stage[r[1]] = "assigning" /\ ~Settled(r[1])
      /\ held[r] = NoSlot /\ AddImageUser(s) /\ held' = [held EXCEPT ![r] = s]
      /\ UNCHANGED <<want, temp, stepVars>>
      /\ g \in Stage /\ stage' = [stage EXCEPT ![r[1]] = g]
  BY DEF AssignTile, At, Settled, Finish, Stage
<1>2. \A q \in Ref : q[1] = r[1] => TileOK(want[q], "assigning", held[q], temp[q])
  BY <1>1 DEF IInv, Stages
<1>3. s # NoSlot /\ s \in Slots /\ images[s].key = want[r]
  BY <1>1, <1>2, TileFacts, HasUser DEF TileOK, Refs
<1>4. held'[r] = s /\ \A q \in Ref \ {r} : held'[q] = held[q]
  BY <1>1 DEF IInv, TypeOK
<1>5. TileOK(want[r], g, held'[r], temp'[r])
  BY <1>1, <1>3, <1>4, TileFacts DEF TileOK, Refs
<1>6. \A q \in Others(r) : TileOK(want[q], g, held[q], temp[q])
  BY <1>1, <1>2, TileFacts DEF TileOK
<1> HIDE DEF g, s
<1>7. Stages' /\ stage' \in [Node -> Stage]
  BY <1>1, <1>4, <1>5, <1>6, StagesKept
<1> QED BY <1>1, <1>3, <1>7, TileHeld

(* The copy of a node shares the slots of the original, with users of its
   own. *)
LEMMA CopyTileKeeps ==
  ASSUME IInv, NEW r \in Ref, CopyTile(r)
  PROVE  IInv'
<1> DEFINE g == IF \A q \in Others(r) : held[q] # NoSlot THEN "ready" ELSE "copying"
<1>1. /\ r \in Refs(r[1]) /\ stage[r[1]] = "copying" /\ ~Settled(r[1])
      /\ held[r] = NoSlot /\ UNCHANGED <<want, temp, stepVars>>
      /\ g \in Stage /\ stage' = [stage EXCEPT ![r[1]] = g]
  BY DEF CopyTile, At, Settled, Finish, Stage
<1>2. PICK n \in Node : LET q == <<n, r[2]>> IN
        /\ stage[n] = "ready" /\ want[q] = want[r]
        /\ AddImageUser(held[q]) /\ held' = [held EXCEPT ![r] = held[q]]
  BY DEF CopyTile
<1> DEFINE p == <<n, r[2]>>
           s == held[p]
<1>3. p \in Ref /\ p[1] = n /\ want[p] # NoKey
  BY <1>1, <1>2, TileFacts DEF Ref, Refs
<1>4. TileOK(want[p], "ready", held[p], temp[p])
  BY <1>2, <1>3 DEF IInv, Stages
<1>5. s # NoSlot
  BY <1>3, <1>4 DEF TileOK
<1> HIDE DEF p
<1>6. s \in Slots /\ images[s].key = want[p]
  BY <1>3, <1>5, HasUser
<1>7. images[s].key = want[r] /\ AddImageUser(s) /\ held' = [held EXCEPT ![r] = s]
  BY <1>2, <1>6 DEF p
<1> HIDE DEF s
<1>8. held'[r] = s /\ \A q \in Ref \ {r} : held'[q] = held[q]
  BY <1>7 DEF IInv, TypeOK
<1>9. \A q \in Ref : q[1] = r[1] => TileOK(want[q], "copying", held[q], temp[q])
  BY <1>1 DEF IInv, Stages
<1>10. TileOK(want[r], g, held'[r], temp'[r])
  BY <1>1, <1>5, <1>8, <1>9, TileFacts DEF TileOK, Refs
<1>11. \A q \in Others(r) : TileOK(want[q], g, held[q], temp[q])
  BY <1>1, <1>9, TileFacts DEF TileOK
<1> HIDE DEF g
<1>12. Stages' /\ stage' \in [Node -> Stage]
  BY <1>1, <1>8, <1>10, <1>11, StagesKept
<1> QED BY <1>1, <1>6, <1>7, <1>12, TileHeld

(* The destructor of the temporary handle gives its user back. *)
LEMMA DropTileKeeps ==
  ASSUME IInv, NEW r \in Ref, DropTile(r)
  PROVE  IInv'
<1> DEFINE g == IF \A q \in Others(r) : temp[q] = NoSlot THEN "ready" ELSE "dropping"
           s == temp[r]
<1>1. /\ r \in Refs(r[1]) /\ stage[r[1]] = "dropping" /\ ~Settled(r[1])
      /\ s # NoSlot /\ RemoveImageUser(s) /\ temp' = [temp EXCEPT ![r] = NoSlot]
      /\ UNCHANGED <<want, held, stepVars>>
      /\ g \in Stage /\ stage' = [stage EXCEPT ![r[1]] = g]
  BY DEF DropTile, At, Settled, Finish, Stage
<1>2. \A q \in Ref : q[1] = r[1] => TileOK(want[q], "dropping", held[q], temp[q])
  BY <1>1 DEF IInv, Stages
<1>3. temp'[r] = NoSlot /\ \A q \in Ref \ {r} : temp'[q] = temp[q]
  BY <1>1 DEF IInv, TypeOK
<1>4. TileOK(want[r], g, held'[r], temp'[r])
  BY <1>1, <1>2, <1>3, TileFacts DEF TileOK, Refs
<1>5. \A q \in Others(r) : TileOK(want[q], g, held[q], temp[q])
  BY <1>1, <1>2, TileFacts DEF TileOK
<1> HIDE DEF g, s
<1>6. Stages' /\ stage' \in [Node -> Stage]
  BY <1>1, <1>3, <1>4, <1>5, StagesKept
<1>7. temp[r] = s
  BY DEF s
<1> QED BY <1>1, <1>6, <1>7, TileLeft

(* A handle that is cleared gives its user back. *)
LEMMA ClearTileKeeps ==
  ASSUME IInv, NEW r \in Ref, ClearTile(r)
  PROVE  IInv'
<1> DEFINE g == IF \A q \in Others(r) : held[q] = NoSlot THEN "none" ELSE "clearing"
           s == held[r]
<1>1. /\ r \in Refs(r[1]) /\ stage[r[1]] = "clearing" /\ ~Settled(r[1])
      /\ s # NoSlot /\ RemoveImageUser(s) /\ held' = [held EXCEPT ![r] = NoSlot]
      /\ UNCHANGED <<want, temp, stepVars>>
      /\ g \in Stage /\ stage' = [stage EXCEPT ![r[1]] = g]
  BY DEF ClearTile, At, Settled, Finish, Stage
<1>2. \A q \in Ref : q[1] = r[1] => TileOK(want[q], "clearing", held[q], temp[q])
  BY <1>1 DEF IInv, Stages
<1>3. held'[r] = NoSlot /\ \A q \in Ref \ {r} : held'[q] = held[q]
  BY <1>1 DEF IInv, TypeOK
<1>4. TileOK(want[r], g, held'[r], temp'[r])
  BY <1>1, <1>2, <1>3, TileFacts DEF TileOK, Refs
<1>5. \A q \in Others(r) : TileOK(want[q], g, held[q], temp[q])
  BY <1>1, <1>2, TileFacts DEF TileOK
<1> HIDE DEF g, s
<1>6. Stages' /\ stage' \in [Node -> Stage]
  BY <1>1, <1>3, <1>4, <1>5, StagesKept
<1>7. held[r] = s
  BY DEF s
<1> QED BY <1>1, <1>6, <1>7, TileLeft

-----------------------------------------------------------------------------
(* The nodes of the synced scene, and of copies of a graph. *)
LEMMA NodeKeeps ==
  ASSUME IInv, NEW n \in Node, step \in {"sync", "compile", "delete"}, NEW g \in Stage,
         stage' = [stage EXCEPT ![n] = g], UNCHANGED <<managerVars, temp, held, stepVars>>,
         want' \in [Ref -> Key \cup {NoKey}],
         \A q \in Ref : q[1] # n => want'[q] = want[q],
         \A q \in Ref : want'[q] = want[q] \/ (held[q] = NoSlot /\ temp[q] = NoSlot),
         \A q \in Ref : q[1] = n => TileOK(want'[q], g, held[q], temp[q])
  PROVE  IInv'
<1>1. stage \in [Node -> Stage] /\ stage' \in [Node -> Stage]
  BY DEF IInv, TypeOK
<1>2. TypeOK'
  BY <1>1 DEF IInv, TypeOK, managerVars, stepVars, Slots
<1>3. Stages'
  <2> SUFFICES ASSUME NEW q \in Ref
               PROVE  TileOK(want'[q], stage'[q[1]], held[q], temp[q])
    BY DEF Stages
  <2>1. q[1] \in Node
    BY DEF Ref
  <2>2. CASE q[1] = n
    BY <1>1, <2>2
  <2>3. CASE q[1] # n
    BY <1>1, <2>1, <2>3 DEF IInv, Stages
  <2> QED BY <2>2, <2>3
<1>4. Steps'
  BY DEF IInv, Steps, managerVars, stepVars, Slots
<1>5. UsersCounted' /\ LoadedOnce' /\ UnusedNoticed'
  BY DEF IInv, UsersCounted, HeldIn, TempIn, LoadedOnce, UnusedNoticed, managerVars, stepVars, Slots
<1>6. HandlesValid'
  BY DEF IInv, HandlesValid, managerVars, Slots
<1> QED BY <1>2, <1>3, <1>4, <1>5, <1>6 DEF IInv

(* A node begins without slots, whatever images it asks for. *)
LEMMA NewNodeKeeps ==
  ASSUME IInv, NEW n \in Node, step \in {"sync", "compile", "delete"}, stage[n] = "none",
         NEW w \in [Tile -> Key \cup {NoKey}], NewNode(n, w),
         NEW g \in {"new", "adding", "copying"},
         stage' = [stage EXCEPT ![n] = g], UNCHANGED <<managerVars, temp, held, stepVars>>
  PROVE  IInv'
<1>1. \A q \in Ref : q[1] = n => held[q] = NoSlot /\ temp[q] = NoSlot
  BY DEF IInv, Stages, TileOK
<1>2. want \in [Ref -> Key \cup {NoKey}]
  BY DEF IInv, TypeOK
<1>3. /\ want' \in [Ref -> Key \cup {NoKey}]
      /\ \A q \in Ref : q[1] # n => want'[q] = want[q]
  BY <1>2 DEF NewNode, Ref
<1>4. \A q \in Ref : q[1] = n => TileOK(want'[q], g, held[q], temp[q])
  BY <1>1 DEF TileOK
<1>5. g \in Stage
  BY DEF Stage
<1>6. \A q \in Ref : want'[q] = want[q] \/ (held[q] = NoSlot /\ temp[q] = NoSlot)
  BY <1>1, <1>3
<1> QED BY <1>3, <1>4, <1>5, <1>6, NodeKeeps

(* Nodes that are created, copied, compiled or deleted hold nothing before
   their first tile is added and nothing after their last one is cleared. *)
LEMMA NodesKeep ==
  ASSUME IInv, NEW n \in Node,
         CreateNode(n) \/ DeleteNode(n) \/ CompileNode(n) \/ \E m \in Node : CopyNode(n, m)
  PROVE  IInv'
<1>0. want \in [Ref -> Key \cup {NoKey}]
  BY DEF IInv, TypeOK
<1>1. CASE CreateNode(n)
  <2>1. PICK w \in Wanted :
          /\ NewNode(n, w)
          /\ stage' = [stage EXCEPT ![n] = IF \A t \in Tile : w[t] \in Builtin \cup {NoKey}
                                           THEN "adding" ELSE "new"]
    BY <1>1 DEF CreateNode
  <2>2. w \in [Tile -> Key \cup {NoKey}]
    BY ImageAssumption
  <2> QED BY <1>1, <2>1, <2>2, NewNodeKeeps DEF CreateNode
<1>2. CASE \E m \in Node : CopyNode(n, m)
  <2>1. PICK m \in Node : CopyNode(n, m)
    BY <1>2
  <2> DEFINE w == [t \in Tile |-> want[<<n, t>>]]
  <2>2. w \in [Tile -> Key \cup {NoKey}]
    BY <1>0 DEF Ref
  <2>3. stage[m] = "none" /\ step = "compile" /\ NewNode(m, w)
        /\ UNCHANGED <<managerVars, temp, held, stepVars>>
        /\ stage' = [stage EXCEPT ![m] = IF stage[n] = "new" THEN "new" ELSE "copying"]
    BY <2>1 DEF CopyNode
  <2> HIDE DEF w
  <2> QED BY <2>2, <2>3, NewNodeKeeps
<1>3. CASE DeleteNode(n)
  <2> DEFINE g == IF stage[n] = "new" THEN "none" ELSE "clearing"
  <2>1. /\ step \in {"sync", "delete"} /\ stage[n] \in {"new", "ready"} /\ g \in Stage
        /\ stage' = [stage EXCEPT ![n] = g] /\ UNCHANGED <<managerVars, want, temp, held, stepVars>>
    BY <1>3 DEF DeleteNode, Stage
  <2>2. \A q \in Ref : q[1] = n => TileOK(want[q], stage[n], held[q], temp[q])
    BY DEF IInv, Stages
  <2>3. \A q \in Ref : q[1] = n => TileOK(want'[q], g, held[q], temp[q])
    BY <2>1, <2>2 DEF TileOK
  <2> HIDE DEF g
  <2> QED BY <1>0, <2>1, <2>3, NodeKeeps
<1>4. CASE CompileNode(n)
  <2>1. /\ step = "compile" /\ stage[n] = "new" /\ "adding" \in Stage
        /\ stage' = [stage EXCEPT ![n] = "adding"]
        /\ UNCHANGED <<managerVars, want, temp, held, stepVars>>
    BY <1>4 DEF CompileNode, Stage
  <2>2. \A q \in Ref : q[1] = n => TileOK(want[q], stage[n], held[q], temp[q])
    BY DEF IInv, Stages
  <2>3. \A q \in Ref : q[1] = n => TileOK(want'[q], "adding", held[q], temp[q])
    BY <2>1, <2>2 DEF TileOK
  <2> QED BY <1>0, <2>1, <2>3, NodeKeeps
<1> QED BY <1>1, <1>2, <1>3, <1>4

-----------------------------------------------------------------------------
(* The steps of an update keep the handles and the slots that they name. *)
LEMMA StepKeeps ==
  ASSUME IInv, UNCHANGED handleVars, TypeOK', Steps',
         Slots' \subseteq Slots, \A s \in Slots \ Slots' : images[s].users = 0,
         \A s \in Slots' : images'[s].key = images[s].key /\ images'[s].users = images[s].users,
         UnusedNoticed'
  PROVE  IInv'
<1>1. Stages' /\ UsersCounted'
  BY DEF IInv, Stages, UsersCounted, HeldIn, TempIn, handleVars
<1>2. LoadedOnce'
  BY DEF IInv, LoadedOnce
<1>3. HandlesValid'
  <2> SUFFICES ASSUME NEW r \in Ref, NEW s \in {held[r], temp[r]} \ {NoSlot}
               PROVE  s \in Slots' /\ images'[s].key = want[r]
    BY DEF HandlesValid, handleVars
  <2>1. s \in Slots /\ images[s].users > 0 /\ images[s].key = want[r]
    BY HasUser
  <2>2. s \in Slots'
    BY <2>1
  <2> QED BY <2>1, <2>2
<1> QED BY <1>1, <1>2, <1>3 DEF IInv

(* What only changes the step, or what is left to load. *)
LEMMA QuietKeeps ==
  ASSUME IInv, UNCHANGED <<managerVars, handleVars>>, Steps',
         pending' \subseteq Slots, cancelled' \in BOOLEAN,
         step = "deleted" => step' = "deleted"
  PROVE  IInv'
<1>1. TypeOK' /\ Slots' = Slots /\ UnusedNoticed'
  BY DEF IInv, TypeOK, UnusedNoticed, managerVars, handleVars, Slots
<1> QED BY <1>1, StepKeeps DEF managerVars

(* Loading an image changes none of its users. *)
LEMMA LoadImageKeeps ==
  ASSUME IInv, NEW s \in pending, LoadImage(s)
  PROVE  IInv'
<1>1. UNCHANGED <<needUpdate, handleVars, step, cancelled>> /\ pending' = pending \ {s}
  BY DEF LoadImage
<1>2. s \in Slots /\ images \in [Slots -> Image]
  BY DEF IInv, TypeOK
<1>3. /\ images' \in [Slots -> Image] /\ Slots' = Slots
      /\ \A u \in Slots : images'[u].key = images[u].key /\ images'[u].users = images[u].users
  <2>1. CASE cancelled
    BY <1>2, <2>1 DEF LoadImage, Slots
  <2>2. CASE ~cancelled
    <3>1. images' = [images EXCEPT ![s].needLoad = FALSE]
      BY <2>2 DEF LoadImage
    <3> QED BY <1>2, <3>1 DEF Image, Slots
  <2> QED BY <2>1, <2>2
<1> HIDE DEF Slots
<1>4. TypeOK'
  BY <1>1, <1>3 DEF IInv, TypeOK, handleVars
<1>5. Steps'
  BY <1>1, <1>3 DEF IInv, Steps, Settled, handleVars
<1>6. UnusedNoticed'
  BY <1>1, <1>3 DEF IInv, UnusedNoticed
<1> QED BY <1>1, <1>3, <1>4, <1>5, <1>6, StepKeeps

(* device_update frees the slots without users, which no handle names. *)
LEMMA DeviceUpdateKeeps ==
  ASSUME IInv, DeviceUpdate
  PROVE  IInv'
<1>1. /\ step = "volumes" /\ step' = "update" /\ pending = {}
      /\ UNCHANGED <<needUpdate, handleVars, cancelled, cut>>
  BY DEF DeviceUpdate
<1> DEFINE unused == {s \in Slots : images[s].users = 0}
<1>2. CASE needUpdate
  <2>1. images' = [s \in Slots \ unused |-> images[s]]
        /\ pending' = {s \in Slots \ unused : images[s].needLoad}
    BY <1>2 DEF DeviceUpdate, Without
  <2>2. Slots' = Slots \ unused /\ \A s \in Slots' : images'[s] = images[s]
    BY <2>1 DEF Slots
  <2> HIDE DEF Slots
  <2>3. \A s \in Slots' : s \in Slots /\ images[s].users \in Nat /\ images[s].users # 0
    BY <2>2 DEF IInv, TypeOK, Image
  <2>4. images' \in [Slots' -> Image] /\ IsFiniteSet(Slots') /\ pending' \subseteq Slots'
    BY <2>1, <2>2, FS_Subset DEF IInv, TypeOK
  <2>5. TypeOK'
    BY <1>1, <2>3, <2>4 DEF IInv, TypeOK, handleVars
  <2>6. \A s \in Slots' : images'[s].users > 0
    BY <2>2, <2>3
  <2>7. Steps'
    BY <1>1, <2>6 DEF IInv, Steps, Settled, handleVars
  <2>8. UnusedNoticed'
    BY <1>1, <1>2 DEF UnusedNoticed
  <2> QED BY <1>1, <2>2, <2>5, <2>7, <2>8, StepKeeps
<1>3. CASE ~needUpdate
  <2>1. UNCHANGED <<managerVars, handleVars>> /\ pending' = {} /\ Slots' = Slots
    BY <1>1, <1>3 DEF DeviceUpdate, managerVars, Slots
  <2>2. \A s \in Slots : images[s].users > 0
    BY <1>1, <1>3 DEF IInv, UnusedNoticed, TypeOK, Image
  <2>3. Steps'
    BY <1>1, <2>1, <2>2 DEF IInv, Steps, Settled, handleVars, managerVars
  <2> QED BY <1>1, <2>1, <2>3, QuietKeeps DEF IInv, TypeOK
<1> QED BY <1>2, <1>3

(* At the end of an update no slot is without users, so that clearing the
   flag forgets none. *)
LEMMA UpdateDoneKeeps ==
  ASSUME IInv, UpdateDone
  PROVE  IInv'
<1>1. /\ step = "update" /\ step' = "render" /\ pending = {} /\ needUpdate' = FALSE
      /\ UNCHANGED <<images, handleVars, pending, cancelled, cut>> /\ Slots' = Slots
  BY DEF UpdateDone, Slots
<1>2. TypeOK'
  BY <1>1 DEF IInv, TypeOK, handleVars
<1>3. Steps'
  BY <1>1 DEF IInv, Steps, Settled, handleVars
<1>4. UnusedNoticed'
  BY <1>1 DEF IInv, UnusedNoticed, Steps
<1> QED BY <1>1, <1>2, <1>3, <1>4, StepKeeps

(* device_free takes all slots, when no node holds one any more. *)
LEMMA DeviceFreeKeeps ==
  ASSUME IInv, DeviceFree
  PROVE  IInv'
<1>1. /\ step = "delete" /\ step' = "deleted" /\ \A n \in Node : stage[n] = "none"
      /\ images' = [s \in {} |-> images[s]]
      /\ UNCHANGED <<needUpdate, handleVars, pending, cancelled, cut>>
  BY DEF DeviceFree, Without
<1>2. Slots' = {} /\ pending' = {}
  BY <1>1 DEF Slots, IInv, Steps
<1>3. ASSUME NEW s \in Slots PROVE images[s].users = 0
  <2>1. \A r \in Ref : held[r] = NoSlot /\ temp[r] = NoSlot
    BY <1>1 DEF IInv, Stages, TileOK, Ref
  <2>2. s # NoSlot
    BY ImageAssumption DEF IInv, TypeOK
  <2>3. HeldIn(s) = {} /\ TempIn(s) = {}
    BY <2>1, <2>2 DEF HeldIn, TempIn
  <2>4. Cardinality(HeldIn(s)) = 0 /\ Cardinality(TempIn(s)) = 0
    BY <2>3, FS_EmptySet
  <2> QED BY <2>4 DEF IInv, UsersCounted
<1>4. TypeOK'
  BY <1>1, <1>2, FS_EmptySet DEF IInv, TypeOK, handleVars
<1>5. Steps'
  BY <1>1, <1>2 DEF Steps, Settled, handleVars
<1>6. UnusedNoticed'
  BY <1>2 DEF UnusedNoticed
<1> QED BY <1>1, <1>2, <1>3, <1>4, <1>5, <1>6, StepKeeps

(* The steps of an update and its session that touch no handle. *)
LEMMA SessionKeeps ==
  ASSUME IInv,
         \/ LoadBuiltin \/ Compile \/ Compiled \/ LoadVolumes \/ Cancel \/ NextSync \/ Delete
  PROVE  IInv'
<1>0. pending \subseteq Slots /\ cancelled \in BOOLEAN
  BY DEF IInv, TypeOK
<1>1. /\ UNCHANGED <<managerVars, handleVars>>
      /\ pending' \subseteq Slots /\ cancelled' \in BOOLEAN
      /\ step # "deleted"
  BY <1>0 DEF LoadBuiltin, Compile, Compiled, LoadVolumes, Cancel, NextSync, Delete
<1>2. Steps'
  <2>1. CASE LoadBuiltin
    BY <2>1 DEF LoadBuiltin, IInv, Steps, Settled, handleVars
  <2>2. CASE Compile
    BY <2>2 DEF Compile, IInv, Steps, Settled, handleVars
  <2>3. CASE Compiled
    BY <2>3 DEF Compiled, IInv, Steps, Settled, handleVars
  <2>4. CASE LoadVolumes
    BY <2>4 DEF LoadVolumes, IInv, Steps, Settled, handleVars
  <2>5. CASE Cancel
    BY <2>5 DEF Cancel, IInv, Steps, Settled, handleVars, managerVars, Slots
  <2>6. CASE NextSync
    BY <2>6 DEF NextSync, IInv, Steps, Settled, handleVars
  <2>7. CASE Delete
    BY <2>7 DEF Delete, IInv, Steps, Settled, handleVars
  <2> QED BY <2>1, <2>2, <2>3, <2>4, <2>5, <2>6, <2>7
<1> QED BY <1>1, <1>2, QuietKeeps

-----------------------------------------------------------------------------
(* What still has to be loaded: an image that is not keeps need_update set,*)
(* is among those the present update loads, or was cut short by a cancel.  *)
Loading ==
  /\ \A s \in Slots : images[s].needLoad => needUpdate \/ images[s].key \in cut
  /\ step = "update" =>
       \A s \in Slots : images[s].needLoad => s \in pending \/ images[s].key \in cut
  /\ step = "render" /\ ~cancelled =>
       \A s \in Slots : images[s].needLoad => images[s].key \in cut

(* The manager's operations on users leave the images as they are. *)
LEMMA UsersOnly ==
  ASSUME TypeOK, NEW s \in Slots,
         \/ images' = [images EXCEPT ![s].users = @ + 1]
         \/ images' = [images EXCEPT ![s].users = @ - 1]
  PROVE  /\ Slots' = Slots
         /\ \A u \in Slots : /\ images'[u].key = images[u].key
                             /\ images'[u].needLoad = images[u].needLoad
<1>1. images \in [Slots -> Image]
  BY DEF TypeOK
<1> QED BY <1>1 DEF Image, Slots

(* While handles change, images are added with need_update set. *)
LEMMA LoadingKept ==
  ASSUME Loading, step \notin {"update", "render"}, UNCHANGED stepVars,
         needUpdate => needUpdate',
         \/ needUpdate'
         \/ /\ Slots' = Slots
            /\ \A u \in Slots : /\ images'[u].key = images[u].key
                                /\ images'[u].needLoad = images[u].needLoad
  PROVE  Loading'
BY DEF Loading, stepVars

(* A tile of a handle changes: the slot it names exists. *)
LEMMA HandleLoading ==
  ASSUME IInv, Loading, HandleStep
  PROVE  Loading'
<1>1. PICK r \in Ref : AddTile(r) \/ AssignTile(r) \/ DropTile(r) \/ CopyTile(r) \/ ClearTile(r)
  BY DEF HandleStep
<1>2. r \in Refs(r[1]) /\ ~Settled(r[1]) /\ UNCHANGED stepVars
  BY <1>1 DEF AddTile, AssignTile, DropTile, CopyTile, ClearTile, At, Settled
<1>3. step \notin {"update", "render"} /\ want[r] \in Key
  BY <1>2, TileFacts
<1>4. ASSUME NEW s \in Slots, AddImageUser(s)
      PROVE  Loading'
  BY <1>2, <1>3, <1>4, UsersOnly, LoadingKept DEF AddImageUser, AddUser, IInv
<1>5. ASSUME NEW s \in Slots, RemoveImageUser(s)
      PROVE  Loading'
  BY <1>2, <1>3, <1>5, UsersOnly, LoadingKept DEF RemoveImageUser, IInv
<1>6. CASE AddTile(r)
  <2>1. CASE HasImage(want[r])
    <3>1. SlotOf(want[r]) \in Slots
      BY <2>1 DEF HasImage, SlotOf
    <3> QED BY <1>4, <1>6, <2>1, <3>1 DEF AddTile, AddImageSlot
  <2>2. CASE ~HasImage(want[r])
    <3>1. needUpdate' = TRUE
      BY <1>6, <2>2 DEF AddTile, AddImageSlot
    <3> QED BY <1>2, <1>3, <3>1, LoadingKept
  <2> QED BY <2>1, <2>2
<1>7. CASE AssignTile(r)
  <2>1. temp[r] # NoSlot
    BY <1>2, <1>7 DEF IInv, Stages, TileOK, AssignTile, At, Refs
  <2> QED BY <1>4, <1>7, <2>1, HasUser DEF AssignTile
<1>8. CASE CopyTile(r)
  <2>1. PICK n \in Node :
          /\ stage[n] = "ready" /\ want[<<n, r[2]>>] = want[r]
          /\ AddImageUser(held[<<n, r[2]>>])
    BY <1>8 DEF CopyTile
  <2>2. <<n, r[2]>> \in Ref /\ want[<<n, r[2]>>] # NoKey
    BY <1>2, <2>1, TileFacts DEF Ref, Refs
  <2>3. held[<<n, r[2]>>] # NoSlot
    BY <2>1, <2>2 DEF IInv, Stages, TileOK, Ref
  <2> QED BY <1>4, <2>1, <2>2, <2>3, HasUser
<1>9. CASE DropTile(r)
  BY <1>5, <1>9, HasUser DEF DropTile
<1>10. CASE ClearTile(r)
  BY <1>5, <1>10, HasUser DEF ClearTile
<1> QED BY <1>1, <1>6, <1>7, <1>8, <1>9, <1>10

(* The update loads all that is not loaded, or notes what a cancel skips.  *)
LEMMA LoadingStep ==
  ASSUME IInv, Loading, [Next]_vars
  PROVE  Loading'
<1> USE DEF Loading
<1>1. ASSUME UNCHANGED <<images, cut>>, needUpdate => needUpdate',
             step' # "update" \/ UNCHANGED <<step, pending>>,
             step' # "render" \/ cancelled' \/ UNCHANGED <<step, cancelled>>
      PROVE  Loading'
  <2>1. Slots' = Slots
    BY <1>1 DEF Slots
  <2> QED BY <1>1, <2>1
<1>2. ASSUME NEW n \in Node,
             CreateNode(n) \/ DeleteNode(n) \/ CompileNode(n) \/ \E m \in Node : CopyNode(n, m)
      PROVE  Loading'
  BY <1>1, <1>2 DEF CreateNode, DeleteNode, CompileNode, CopyNode, managerVars, stepVars
<1>3. CASE LoadBuiltin \/ Compile \/ LoadVolumes \/ NextSync \/ Delete
  BY <1>1, <1>3 DEF LoadBuiltin, Compile, LoadVolumes, NextSync, Delete, managerVars
<1>4. CASE Compiled
  BY <1>1, <1>4 DEF Compiled, managerVars
<1>5. CASE Cancel
  BY <1>1, <1>5 DEF Cancel, managerVars
<1>6. ASSUME NEW s \in pending, LoadImage(s)
      PROVE  Loading'
  <2>1. /\ s \in Slots /\ images \in [Slots -> Image] /\ step # "render"
        /\ pending' = pending \ {s} /\ UNCHANGED <<needUpdate, step, cancelled>>
    BY <1>6 DEF IInv, TypeOK, Steps, LoadImage
  <2>2. CASE cancelled
    <3>1. UNCHANGED images /\ Slots' = Slots /\ cut' = cut \cup {images[s].key}
      BY <1>6, <2>2 DEF LoadImage, Slots
    <3> QED BY <2>1, <3>1
  <2>3. CASE ~cancelled
    <3>1. images' = [images EXCEPT ![s].needLoad = FALSE] /\ UNCHANGED cut
      BY <1>6, <2>3 DEF LoadImage
    <3>2. /\ Slots' = Slots /\ images'[s].needLoad = FALSE
          /\ \A u \in Slots \ {s} : images'[u] = images[u]
      BY <2>1, <3>1 DEF Image, Slots
    <3> QED BY <2>1, <3>1, <3>2
  <2> QED BY <2>2, <2>3
<1>7. CASE DeviceUpdate
  <2> DEFINE unused == {s \in Slots : images[s].users = 0}
  <2>1. step' = "update" /\ UNCHANGED <<needUpdate, cut>>
    BY <1>7 DEF DeviceUpdate
  <2>2. CASE needUpdate
    <3>1. images' = [s \in Slots \ unused |-> images[s]]
          /\ pending' = {s \in Slots \ unused : images[s].needLoad}
      BY <1>7, <2>2 DEF DeviceUpdate, Without
    <3>2. Slots' = Slots \ unused /\ \A s \in Slots' : images'[s] = images[s]
      BY <3>1 DEF Slots
    <3> QED BY <2>1, <2>2, <3>1, <3>2
  <2>3. CASE ~needUpdate
    <3>1. UNCHANGED images /\ Slots' = Slots
      BY <1>7, <2>3 DEF DeviceUpdate, Slots
    <3> QED BY <2>1, <2>3, <3>1
  <2> QED BY <2>2, <2>3
<1>8. CASE UpdateDone
  <2>1. /\ step = "update" /\ pending = {} /\ step' = "render" /\ UNCHANGED <<images, cut>>
        /\ Slots' = Slots
    BY <1>8 DEF UpdateDone, Slots
  <2> QED BY <2>1
<1>9. CASE DeviceFree
  BY <1>9 DEF DeviceFree, Without, Slots
<1>10. CASE UNCHANGED vars
  BY <1>1, <1>10 DEF vars, managerVars, stepVars
<1> QED
  BY <1>2, <1>3, <1>4, <1>5, <1>6, <1>7, <1>8, <1>9, <1>10, HandleLoading
     DEF Next, BlenderStep, SessionStep

-----------------------------------------------------------------------------

(* At the start there are no nodes and no images. *)
LEMMA InitIInv == Init => IInv
<1> SUFFICES ASSUME Init PROVE IInv
  OBVIOUS
<1>1. Slots = {} /\ images \in [Slots -> Image]
  BY DEF Init, Slots
<1>2. TypeOK
  BY <1>1, FS_EmptySet DEF Init, TypeOK, Stage
<1>3. Stages /\ Steps /\ HandlesValid
  BY <1>1 DEF Init, Stages, TileOK, Steps, HandlesValid, Ref
<1>4. UsersCounted /\ LoadedOnce /\ UnusedNoticed
  BY <1>1 DEF UsersCounted, LoadedOnce, UnusedNoticed
<1> QED BY <1>2, <1>3, <1>4 DEF IInv

(* Every step of nodes, parallel tasks and the manager keeps the invariant. *)
LEMMA NextIInv == IInv /\ [Next]_vars => IInv'
<1> SUFFICES ASSUME IInv, [Next]_vars PROVE IInv'
  OBVIOUS
<1>1. CASE HandleStep
  BY <1>1, AddTileKeeps, AssignTileKeeps, DropTileKeeps, CopyTileKeeps, ClearTileKeeps DEF HandleStep
<1>2. CASE BlenderStep
  BY <1>2, NodesKeep, SessionKeeps, DeviceFreeKeeps DEF BlenderStep
<1>3. CASE SessionStep
  BY <1>3, NodesKeep, SessionKeeps, DeviceUpdateKeeps, UpdateDoneKeeps, LoadImageKeeps DEF SessionStep
<1>4. CASE UNCHANGED vars
  <2>1. UNCHANGED <<managerVars, handleVars, stepVars>>
    BY <1>4 DEF vars
  <2>2. Steps' /\ pending' \subseteq Slots /\ cancelled' \in BOOLEAN
    BY <2>1 DEF IInv, Steps, Settled, TypeOK, managerVars, handleVars, stepVars, Slots
  <2> QED BY <2>1, <2>2, QuietKeeps DEF stepVars
<1> QED BY <1>1, <1>2, <1>3, <1>4 DEF Next

(* The invariant holds in every reachable state. *)
LEMMA Invariance == Spec => []IInv
BY InitIInv, NextIInv, PTL DEF Spec

(* A slot's count of users is the number of tiles of handles that name it, *)
(* with any number of tasks compiling nodes at once (image.cpp, add_image_user *)
(* and remove_image_user). *)
THEOREM UsersAreCounted == Spec => []UsersCounted
<1>1. IInv => UsersCounted
  BY DEF IInv
<1> QED BY <1>1, Invariance, PTL

(* No handle outlives its image: device_update and device_free free a slot *)
(* only when no handle names it, and no slot changes its image. *)
THEOREM HandlesStayValid == Spec => []HandlesValid
<1>1. IInv => HandlesValid
  BY DEF IInv
<1> QED BY <1>1, Invariance, PTL

(* add_image_slot never makes a second slot of the same image. *)
THEOREM OneSlotPerImage == Spec => []LoadedOnce
<1>1. IInv => LoadedOnce
  BY DEF IInv
<1> QED BY <1>1, Invariance, PTL

(* Between updates an image without users keeps need_update set, so the next *)
(* device_update frees it. *)
THEOREM UnusedAreFreed == Spec => []UnusedNoticed
<1>1. IInv => UnusedNoticed
  BY DEF IInv
<1> QED BY <1>1, Invariance, PTL

(* When a render starts, every image that a node uses was loaded by this   *)
(* update or by one before it, whether tasks added it during the           *)
(* compilation or Blender did in the sync, unless a cancel has skipped it  *)
(* (device_load_image returns early, and need_update is cleared all the    *)
(* same).                                                                  *)
THEOREM LoadedAtRender == Spec => []LoadedWhenRendering
<1>1. Init => Loading
  BY DEF Init, Loading, Slots
<1>2. IInv /\ Loading /\ [Next]_vars => Loading'
  BY LoadingStep
<1>3. Loading => LoadedWhenRendering
  BY DEF Loading, LoadedWhenRendering
<1> QED BY <1>1, <1>2, <1>3, Invariance, PTL DEF Spec
=============================================================================
