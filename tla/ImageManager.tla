----------------------------- MODULE ImageManager -----------------------------
(***************************************************************************)
(* The image manager (render/image.cpp): shader nodes and volume attributes*)
(* hold image handles; a handle names one slot of the manager per tile, and*)
(* nodes that want the same image share its slot.  A slot counts its users;*)
(* unused images are freed and new ones are loaded together, in the device *)
(* update, if need_update says so.                                         *)
(*                                                                         *)
(* Shaders are compiled by parallel tasks, which add the images of files;  *)
(* the images of Blender (builtin) are added while the scene is synced.    *)
(* add_image_slot, add_image_user and remove_image_user are atomic under   *)
(* images_mutex; handle = add_image(...) is not: it makes a temporary      *)
(* handle, adds a user for every tile, and drops the temporary.            *)
(*                                                                         *)
(* images has the slots in use; the size of the vector is not kept, nor is *)
(* the order of a handle's tiles.                                          *)
(***************************************************************************)
EXTENDS Integers, FiniteSets

CONSTANTS
  Node,      \* nodes of shader graphs, and voxel attributes
  Tile,      \* tiles of one handle
  Key,       \* what an image is told apart by: its loader and its params
  Builtin,   \* the keys of images in Blender's memory
  Wanted,    \* the images a node may want, by tile
  NoKey, NoSlot

ASSUME ImageAssumption ==
  /\ Builtin \subseteq Key
  /\ NoKey \notin Key
  /\ Wanted \subseteq [Tile -> Key \cup {NoKey}]
  /\ NoSlot \notin Nat
  /\ IsFiniteSet(Node) /\ IsFiniteSet(Tile)

Ref == Node \X Tile    \* a tile of a node: what may use an image
Image == [key : Key, users : Nat, needLoad : BOOLEAN]
Stage == {"none", "new", "adding", "assigning", "dropping", "copying", "ready", "clearing"}

VARIABLES
  images,      \* images[slot], for the slots in use
  needUpdate,  \* ImageManager::need_update
  stage,       \* stage[n]: what happens to the handle of the node
  want,        \* want[r]: the image of a tile
  temp,        \* temp[r]: its slot in the handle that add_image returns
  held,        \* held[r]: its slot in the node's handle
  step,        \* what the session and Blender are doing
  pending,     \* the slots that tasks of a device update still have to load
  cancelled,   \* progress.get_cancel()
  cut          \* history: the keys of images whose load a cancel has skipped

managerVars == <<images, needUpdate>>
handleVars == <<stage, want, temp, held>>
stepVars == <<step, pending, cancelled, cut>>
vars == <<managerVars, handleVars, stepVars>>

Refs(n) == {r \in {n} \X Tile : want[r] # NoKey}
IsBuiltin(n) == \A r \in Refs(n) : want[r] \in Builtin
Settled(n) == stage[n] \in {"none", "new", "ready"}

-----------------------------------------------------------------------------
(* The slots.                                                              *)
Slots == DOMAIN images
HasImage_InUse(k) ==   \* mutant: an image without users is not found again
  \E s \in Slots : images[s].key = k /\ images[s].users > 0
HasImage(k) == \E s \in Slots : images[s].key = k
SlotOf(k) == CHOOSE s \in Slots : images[s].key = k
FreeSlot ==
  CHOOSE s \in 0 .. Cardinality(Slots) : s \notin Slots /\ \A u \in 0 .. s - 1 : u \in Slots
Without(slots) == [s \in Slots \ slots |-> images[s]]

AddUser(s) == images' = [images EXCEPT ![s].users = @ + 1]
AddImageUser(s) == AddUser(s) /\ UNCHANGED needUpdate

AddedSlot(k) == IF HasImage(k) THEN SlotOf(k) ELSE FreeSlot

(* add_image_slot *)
AddImageSlot(k) ==
  IF HasImage(k)
  THEN AddImageUser(SlotOf(k))
  ELSE /\ images' = [s \in Slots \cup {FreeSlot} |->
                       IF s = FreeSlot THEN [key |-> k, users |-> 1, needLoad |-> TRUE]
                       ELSE images[s]]
       /\ needUpdate' = TRUE

RemoveImageUser_Quiet(s) ==   \* mutant: the last user does not ask for an update
  images' = [images EXCEPT ![s].users = @ - 1] /\ UNCHANGED needUpdate
RemoveImageUser(s) ==
  /\ images' = [images EXCEPT ![s].users = @ - 1]
  /\ needUpdate' = (needUpdate \/ images[s].users = 1)

-----------------------------------------------------------------------------
(* The handle of a node, one tile at a time; `others` are its other tiles. *)
Others(r) == Refs(r[1]) \ {r}
At(r, s) == stage[r[1]] = s /\ r \in Refs(r[1])
Finish(r, done, s) == stage' = [stage EXCEPT ![r[1]] = IF done THEN s ELSE @]

(* handle = add_image(...): a slot is added for every tile, ...            *)
AddTile(r) ==
  /\ At(r, "adding") /\ temp[r] = NoSlot
  /\ AddImageSlot(want[r])
  /\ temp' = [temp EXCEPT ![r] = AddedSlot(want[r])]
  /\ Finish(r, \A q \in Others(r) : temp[q] # NoSlot, "assigning")
  /\ UNCHANGED <<want, held, stepVars>>

AssignTile_NotCounted(r) ==   \* mutant: the default assignment, which copies the slots
  /\ At(r, "assigning") /\ held[r] = NoSlot
  /\ held' = [held EXCEPT ![r] = temp[r]]
  /\ Finish(r, \A q \in Others(r) : held[q] # NoSlot, "dropping")
  /\ UNCHANGED <<managerVars, want, temp, stepVars>>
(* ... the assignment adds a user for each ...                             *)
AssignTile(r) ==
  /\ At(r, "assigning") /\ held[r] = NoSlot
  /\ AddImageUser(temp[r])
  /\ held' = [held EXCEPT ![r] = temp[r]]
  /\ Finish(r, \A q \in Others(r) : held[q] # NoSlot, "dropping")
  /\ UNCHANGED <<want, temp, stepVars>>

(* ... and the destructor of what add_image returned removes one.          *)
DropTile(r) ==
  /\ At(r, "dropping") /\ temp[r] # NoSlot
  /\ RemoveImageUser(temp[r])
  /\ temp' = [temp EXCEPT ![r] = NoSlot]
  /\ Finish(r, \A q \in Others(r) : temp[q] = NoSlot, "ready")
  /\ UNCHANGED <<want, held, stepVars>>

CopyTile_NotCounted(r) ==   \* mutant: the default copy constructor
  /\ At(r, "copying") /\ held[r] = NoSlot
  /\ \E n \in Node :
       LET q == <<n, r[2]>> IN
       stage[n] = "ready" /\ want[q] = want[r] /\ held' = [held EXCEPT ![r] = held[q]]
  /\ Finish(r, \A q \in Others(r) : held[q] # NoSlot, "ready")
  /\ UNCHANGED <<managerVars, want, temp, stepVars>>

(* The copy constructor, when a node of the same graph is copied.          *)
CopyTile(r) ==
  /\ At(r, "copying") /\ held[r] = NoSlot
  /\ \E n \in Node :
       LET q == <<n, r[2]>> IN
       /\ stage[n] = "ready" /\ want[q] = want[r]
       /\ AddImageUser(held[q])
       /\ held' = [held EXCEPT ![r] = held[q]]
  /\ Finish(r, \A q \in Others(r) : held[q] # NoSlot, "ready")
  /\ UNCHANGED <<want, temp, stepVars>>

(* clear(), when a node is deleted.                                        *)
ClearTile(r) ==
  /\ At(r, "clearing") /\ held[r] # NoSlot
  /\ RemoveImageUser(held[r])
  /\ held' = [held EXCEPT ![r] = NoSlot]
  /\ Finish(r, \A q \in Others(r) : held[q] = NoSlot, "none")
  /\ UNCHANGED <<want, temp, stepVars>>

-----------------------------------------------------------------------------
(* Blender's thread syncs the scene: nodes come and go, one after the      *)
(* other, and builtin images are added at once.                            *)
NewNode(n, images_) ==
  want' = [r \in Ref |-> IF r[1] = n THEN images_[r[2]] ELSE want[r]]

CreateNode(n) ==
  /\ step = "sync" /\ \A m \in Node : Settled(m)
  /\ stage[n] = "none"
  /\ \E w \in Wanted :
       /\ NewNode(n, w)
       /\ stage' = [stage EXCEPT ![n] = IF \A t \in Tile : w[t] \in Builtin \cup {NoKey}
                                        THEN "adding" ELSE "new"]
  /\ UNCHANGED <<managerVars, temp, held, stepVars>>

DeleteNode(n) ==
  /\ step \in {"sync", "delete"} /\ \A m \in Node : Settled(m)
  /\ stage[n] \in {"new", "ready"}
  /\ stage' = [stage EXCEPT ![n] = IF @ = "new" THEN "none" ELSE "clearing"]
  /\ UNCHANGED <<managerVars, want, temp, held, stepVars>>

LoadBuiltin_Done ==   \* mutant: need_update is cleared, as in device_update
  /\ step = "sync" /\ \A n \in Node : Settled(n)
  /\ step' = "builtin"
  /\ pending' = {s \in Slots : needUpdate /\ images[s].needLoad /\ images[s].key \in Builtin}
  /\ needUpdate' = FALSE
  /\ UNCHANGED <<images, handleVars, cancelled, cut>>
(* device_load_builtin, at the end of the sync.                            *)
LoadBuiltin ==
  /\ step = "sync" /\ \A n \in Node : Settled(n)
  /\ step' = "builtin"
  /\ pending' = {s \in Slots : needUpdate /\ images[s].needLoad /\ images[s].key \in Builtin}
  /\ UNCHANGED <<managerVars, handleVars, cancelled, cut>>

(* device_load_image, in a task per slot.                                  *)
LoadImage(s) ==
  /\ s \in pending
  /\ pending' = pending \ {s}
  /\ IF cancelled
     THEN cut' = cut \cup {images[s].key} /\ UNCHANGED images
     ELSE images' = [images EXCEPT ![s].needLoad = FALSE] /\ UNCHANGED cut
  /\ UNCHANGED <<needUpdate, handleVars, step, cancelled>>

(* SVMShaderManager::device_update_shader: one task per shader; the nodes  *)
(* of files without a handle add their images.                             *)
Compile ==
  /\ step = "builtin" /\ pending = {}
  /\ step' = "compile"
  /\ UNCHANGED <<managerVars, handleVars, pending, cancelled, cut>>

CompileNode(n) ==
  /\ step = "compile" /\ stage[n] = "new" /\ ~cancelled
  /\ stage' = [stage EXCEPT ![n] = "adding"]
  /\ UNCHANGED <<managerVars, want, temp, held, stepVars>>

(* ShaderGraph::copy_nodes, before the nodes of the graph are compiled.    *)
CopyNode(n, m) ==
  /\ step = "compile" /\ ~cancelled
  /\ stage[n] \in {"new", "ready"} /\ stage[m] = "none"
  /\ NewNode(m, [t \in Tile |-> want[<<n, t>>]])
  /\ stage' = [stage EXCEPT ![m] = IF stage[n] = "new" THEN "new" ELSE "copying"]
  /\ UNCHANGED <<managerVars, temp, held, stepVars>>

(* A cancel during the compilation ends the update before the images.      *)
Compiled ==
  /\ step = "compile"
  /\ \/ \A n \in Node : stage[n] \in {"none", "ready"}
     \/ cancelled /\ \A n \in Node : Settled(n)
  /\ step' = IF cancelled THEN "render" ELSE "images"
  /\ UNCHANGED <<managerVars, handleVars, pending, cancelled, cut>>

(* device_update_slot, for the voxel attributes of some volumes.           *)
LoadVolumes ==
  /\ step = "images"
  /\ step' = "volumes"
  /\ \E slots \in SUBSET {s \in Slots : images[s].users > 0 /\ images[s].needLoad} :
       pending' = slots
  /\ UNCHANGED <<managerVars, handleVars, cancelled, cut>>

(* device_update: unused images are freed, the others are loaded.          *)
DeviceUpdate ==
  /\ step = "volumes" /\ pending = {}
  /\ step' = "update"
  /\ IF needUpdate
     THEN LET unused == {s \in Slots : images[s].users = 0}
          IN /\ images' = Without(unused)
             /\ pending' = {s \in Slots \ unused : images[s].needLoad}
     ELSE UNCHANGED <<images, pending>>
  /\ UNCHANGED <<needUpdate, handleVars, cancelled, cut>>

UpdateDone ==
  /\ step = "update" /\ pending = {}
  /\ needUpdate' = FALSE
  /\ step' = "render"
  /\ UNCHANGED <<images, handleVars, pending, cancelled, cut>>

(* progress.set_cancel() or set_error(), at any time.                      *)
Cancel ==
  /\ step \in {"builtin", "compile", "images", "volumes", "update", "render"}
  /\ ~cancelled
  /\ cancelled' = TRUE
  /\ UNCHANGED <<managerVars, handleVars, step, pending, cut>>

(* The next edit of the viewport, or the next frame of a session that      *)
(* keeps its scene: reset_session resets the progress.                     *)
NextSync ==
  /\ step = "render"
  /\ step' = "sync"
  /\ cancelled' = FALSE
  /\ UNCHANGED <<managerVars, handleVars, pending, cut>>

(* Scene::free_memory deletes the nodes and then all images.               *)
Delete ==
  /\ step = "render"
  /\ step' = "delete"
  /\ UNCHANGED <<managerVars, handleVars, pending, cancelled, cut>>

DeviceFree ==
  /\ step = "delete" /\ \A n \in Node : stage[n] = "none"
  /\ step' = "deleted"
  /\ images' = Without(Slots)
  /\ UNCHANGED <<needUpdate, handleVars, pending, cancelled, cut>>

Init ==
  /\ images = [s \in {} |-> 0]
  /\ needUpdate = TRUE
  /\ stage = [n \in Node |-> "none"]
  /\ want = [r \in Ref |-> NoKey]
  /\ temp = [r \in Ref |-> NoSlot]
  /\ held = [r \in Ref |-> NoSlot]
  /\ step = "sync"
  /\ pending = {}
  /\ cancelled = FALSE
  /\ cut = {}

HandleStep ==
  \E r \in Ref : AddTile(r) \/ AssignTile(r) \/ DropTile(r) \/ CopyTile(r) \/ ClearTile(r)
BlenderStep ==
  \/ \E n \in Node : CreateNode(n) \/ DeleteNode(n)
  \/ LoadBuiltin \/ NextSync \/ Delete \/ DeviceFree \/ Cancel
SessionStep ==
  \/ Compile \/ Compiled \/ LoadVolumes \/ DeviceUpdate \/ UpdateDone
  \/ \E n \in Node : CompileNode(n) \/ \E m \in Node : CopyNode(n, m)
  \/ \E s \in pending : LoadImage(s)

Next == HandleStep \/ BlenderStep \/ SessionStep

Spec == Init /\ [][Next]_vars

-----------------------------------------------------------------------------
TypeOK ==
  /\ Slots \in SUBSET Nat /\ IsFiniteSet(Slots)
  /\ images \in [Slots -> Image]
  /\ needUpdate \in BOOLEAN
  /\ stage \in [Node -> Stage]
  /\ want \in [Ref -> Key \cup {NoKey}]
  /\ temp \in [Ref -> Nat \cup {NoSlot}]
  /\ held \in [Ref -> Nat \cup {NoSlot}]
  /\ pending \subseteq Slots
  /\ cancelled \in BOOLEAN

HeldIn(s) == {r \in Ref : held[r] = s}
TempIn(s) == {r \in Ref : temp[r] = s}

(* A slot counts exactly the tiles of handles that refer to it, temporary  *)
(* handles included, with tasks adding, copying and dropping them in any   *)
(* order.                                                                  *)
UsersCounted ==
  \A s \in Slots : images[s].users = Cardinality(HeldIn(s)) + Cardinality(TempIn(s))

(* A handle names the image it was made for: its slot is not freed, and    *)
(* not given to another image, before the handle lets go of it.            *)
HandlesValid ==
  \A r \in Ref : \A s \in {held[r], temp[r]} \ {NoSlot} :
    s \in Slots /\ images[s].key = want[r]

(* Nodes that want the same image get the same slot: it is loaded once.    *)
LoadedOnce ==
  \A s, u \in Slots : images[s].key = images[u].key => s = u

(* An image without users is known to the next device update, which frees  *)
(* it.                                                                     *)
UnusedNoticed ==
  \A s \in Slots : images[s].users = 0 => needUpdate \/ step = "deleted"

(* When a render starts every image that a node uses is loaded, unless a   *)
(* cancel has skipped it at some time.                                     *)
LoadedWhenRendering ==
  step = "render" /\ ~cancelled =>
    \A s \in Slots : images[s].users > 0 /\ images[s].needLoad => images[s].key \in cut

(* "Handles loading and storage of all images in the scene": what was cut  *)
(* short is loaded by the next update that is not.  The code does not keep *)
(* it: see the README.                                                     *)
AllLoaded ==
  step = "render" /\ ~cancelled =>
    \A s \in Slots : images[s].users > 0 => ~images[s].needLoad
=============================================================================
