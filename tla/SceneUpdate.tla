----------------------------- MODULE SceneUpdate -----------------------------
(***************************************************************************)
(* Scene::device_update (render/scene.cpp): the managers of a scene bring  *)
(* the data on the device up to date, one after the other, each only if a  *)
(* need_update flag says so.  Edits between two updates raise flags by     *)
(* hand, directly and through other managers (the tag_update methods and   *)
(* their callers in BlenderSync), so whether every product on the device   *)
(* follows every edit depends on all of them and on the order of the       *)
(* update.                                                                 *)
(*                                                                         *)
(* A product is what one manager makes.  `fresh` are the products that     *)
(* show the scene as it is.  DependsOn says which parts of the scene a     *)
(* product is made of, Needs which other products are read to make it;     *)
(* both are what the device_update methods read.  Flags that are raised    *)
(* only if a value differs from its last one (emission, volumes, light     *)
(* groups, visibility, background light) follow those values.              *)
(*                                                                         *)
(* Left out: motion passes, AOVs, baking, and the values themselves.       *)
(***************************************************************************)
EXTENDS LookupTables

CONSTANTS
  Graphs,       \* what the shaders of the scene may do: see GraphKind
  PassChanges,  \* the sets of display passes that one edit may switch on or off
  RateChanges,  \* the values of: an edit of the integrator changes volume_step_rate
  MaxEdits      \* bound: edits between two updates

GraphKind == [emission : BOOLEAN, volume : BOOLEAN, displaced : BOOLEAN, glossy : BOOLEAN]

ASSUME SceneAssumption ==
  /\ Owner = {"shutter", "filter", "beckmann"}
  /\ Graphs \subseteq GraphKind
  /\ PassChanges \subseteq SUBSET {"uv", "ao"}
  /\ RateChanges \subseteq BOOLEAN
  /\ MaxEdits \in Nat

Flags ==
  {"shader", "background", "camera", "cameraDevice", "cameraFlags", "geometry",
   "geometryFlags", "object", "objectFlags", "particles", "image", "light",
   "lightBackground", "integrator", "film",
   "mesh",         \* a Geometry::need_update
   "meshShader"}   \* a Shader::need_update_geometry

Products ==
  {"svm", "background", "camera", "volumeFlags", "objects", "particles", "mesh",
   "geometry", "objectFlags", "images", "cameraVolume", "lights", "lightBackground",
   "integrator", "film"}

VARIABLES
  step,       \* where Scene::device_update is; "idle": between two updates
  tagged,     \* the flags that are raised
  fresh,      \* ghost: the products that show the current scene
  graph,      \* what the shader graphs do now
  compiled,   \* has_surface_emission, has_volume, has_integrator_dependency of the shaders
  newImage,   \* a graph uses an image that no slot holds yet
  lit,        \* has_surface_emission when the light distribution was made
  restricted, \* an object with emission is invisible to some kind of ray
  filmVisibility,   \* Film::use_light_visibility
  kernelVisibility, \* its copy in dscene->data.film
  backgroundLight,  \* the scene has a background light
  lastBackground,   \* LightManager::last_background_enabled
  newLightgroups,   \* the passes' light groups differ from scene->lightgroups
  motionBlur,       \* scene->need_motion() is MOTION_BLUR
  edits             \* edits since the last update

shaderVars == <<graph, compiled, newImage>>
lightVars == <<lit, restricted, filmVisibility, kernelVisibility, backgroundLight, lastBackground>>
vars == <<step, tagged, fresh, shaderVars, lightVars, newLightgroups, motionBlur, edits,
          tableVars>>

NoKind == [emission |-> FALSE, volume |-> FALSE, glossy |-> FALSE]
KindsOf(g) == [emission |-> g.emission, volume |-> g.volume, glossy |-> g.glossy]

NeedDataUpdate_NoIntegrator ==   \* mutant: the integrator's flag is not asked for
  tagged \cap {"background", "image", "object", "geometry", "light", "shader", "particles",
               "film"} # {} \/ tablesNeedUpdate
NeedDataUpdate ==
  tagged \cap {"background", "image", "object", "geometry", "light", "integrator",
               "shader", "particles", "film"} # {} \/ tablesNeedUpdate
NeedReset == NeedDataUpdate \/ "camera" \in tagged
NeedUpdate == NeedReset \/ "film" \in tagged

-----------------------------------------------------------------------------
(* What the products are made of, in a scene whose shaders do g.           *)
DependsOn(g) ==
  [svm |-> {"shader", "image", "world", "attributes", "displacement", "volume"}
             \cup IF g.glossy THEN {"integrator"} ELSE {},
   background |-> {"background", "world", "rate"},
   camera |-> {"camera"},
   volumeFlags |-> {"volume", "object"},
   objects |-> {"object", "removal", "lightgroups", "particles"},
   particles |-> {"particles"},
   mesh |-> {"deform", "rebuild", "attributes", "uv"}
              \cup IF g.displaced THEN {"displacement"} ELSE {},
   geometry |-> {"object", "removal", "deform", "rebuild", "attributes", "displacement", "uv"},
   objectFlags |-> {"object", "removal", "volume"},
   images |-> {"image"},
   cameraVolume |-> {"camera"} \cup IF g.volume THEN {"volume", "object", "deform", "rebuild"}
                                    ELSE {},
   lights |-> {"light", "lightgroups", "backgroundLight"}
                \cup IF lit THEN {"object", "removal", "deform", "rebuild"} ELSE {},
   lightBackground |-> {"backgroundLight"} \cup IF backgroundLight' THEN {"world"} ELSE {},
   integrator |-> {"integrator", "rate", "background", "ao"},
   film |-> {"film", "uv", "ao", "lightgroups"}]

Needs ==
  [svm |-> {}, background |-> {"svm"}, camera |-> {}, volumeFlags |-> {"svm"},
   objects |-> {}, particles |-> {},
   mesh |-> IF graph.displaced THEN {"svm", "images", "objects"} ELSE {},
   geometry |-> {"mesh", "objects", "volumeFlags"},
   objectFlags |-> {"objects", "volumeFlags"},
   images |-> {"svm"},
   cameraVolume |-> {"camera", "volumeFlags", "geometry", "svm"},
   lights |-> {"svm", "geometry", "objects"},
   lightBackground |-> {"svm", "images", "background"},
   integrator |-> {"svm", "background"},
   film |-> {"lights"}]

Outdated(changed) == {p \in Products : DependsOn(graph')[p] \cap changed # {}}

(* Making p when f are the current products.                               *)
Make(p, f) == IF Needs[p] \subseteq f THEN f \cup {p} ELSE f \ {p}

-----------------------------------------------------------------------------
(* The tag_update methods.                                                 *)
TagGeometryManager == {"geometry", "object"}
TagObjectManager == {"object", "geometry", "light"}
TagBackground_Alone ==   \* mutant: the integrator, which reads its shader, is not told
  {"background"} \cup IF compiled.glossy THEN {"shader"} ELSE {}
TagBackground == {"background", "integrator"} \cup IF compiled.glossy THEN {"shader"} ELSE {}
TagIntegrator == {"integrator"} \cup IF compiled.glossy THEN {"shader"} ELSE {}
IfEmissive(flag) == IF compiled.emission THEN {flag} ELSE {}
TagObject == {"cameraFlags", "geometry", "object"} \cup IfEmissive("light")
TagGeometry(rebuild) ==
  {"mesh", "geometry", "object"} \cup IF rebuild THEN {"light"} ELSE IfEmissive("light")

(* Shader::set_graph and Shader::tag_update for a graph that does g.       *)
TagShader(g, attributes, displacement) ==
  {"shader"} \cup IfEmissive("light")
    \cup (IF attributes THEN {"meshShader", "geometry"} ELSE {})
    \cup (IF displacement THEN {"meshShader"} ELSE {})
    \cup (IF g.volume /\ ~compiled.volume THEN {"geometryFlags", "objectFlags"} ELSE {})

(* BlenderSync::sync_geometry syncs a mesh again that a shader asks for,   *)
(* and sync_object tags the objects of a mesh that needs an update.        *)
SyncObjects(flags) ==
  TagObject \cup IF "meshShader" \in flags THEN TagGeometry(FALSE) ELSE {}

Tag(changed, flags) ==
  /\ step = "idle" /\ edits < MaxEdits
  /\ edits' = edits + 1
  /\ tagged' = tagged \cup flags
  /\ fresh' = fresh \ Outdated(changed)
  /\ UNCHANGED <<step, lit, filmVisibility, kernelVisibility, lastBackground, newLightgroups,
                 motionBlur, tableVars>>

(* A material: the graph changes, and with it perhaps what the shader does,*)
(* the attributes it wants, its displacement or its images.  Blender       *)
(* reports the objects that use it as updated (is_updated_shading).        *)
EditShader(g, attributes, displacement, image) ==
  LET displaces == g.displaced # graph.displaced \/ (displacement /\ g.displaced)
      flags == TagShader(g, attributes, displaces)
  IN /\ graph' = g
     /\ compiled' = [compiled EXCEPT !.volume = @ \/ g.volume]
     /\ newImage' = (newImage \/ image)
     /\ UNCHANGED <<restricted, backgroundLight>>
     /\ Tag({"shader"} \cup (IF g.volume # graph.volume THEN {"volume"} ELSE {})
              \cup (IF attributes THEN {"attributes"} ELSE {})
              \cup (IF displaces THEN {"displacement"} ELSE {})
              \cup (IF image THEN {"image"} ELSE {}),
            flags \cup SyncObjects(flags \cup tagged))

(* sync_world and sync_background_light.                                   *)
EditWorld(light) ==
  /\ backgroundLight' = light
  /\ UNCHANGED <<shaderVars, restricted>>
  /\ Tag({"world"} \cup IF light # backgroundLight THEN {"backgroundLight"} ELSE {},
         {"shader", "lightBackground"} \cup TagBackground
           \cup IF light \/ backgroundLight THEN {"light"} ELSE {})

(* sync_object; the visibility of an object with emission may change.      *)
EditObject(hidden) ==
  /\ restricted' = hidden
  /\ UNCHANGED <<shaderVars, backgroundLight>>
  /\ Tag({"object"}, TagObject)

RemoveObject ==
  /\ UNCHANGED <<shaderVars, restricted, backgroundLight>>
  /\ Tag({"removal"}, TagGeometryManager \cup TagObjectManager)

EditMesh(rebuild) ==
  /\ UNCHANGED <<shaderVars, restricted, backgroundLight>>
  /\ Tag({IF rebuild THEN "rebuild" ELSE "deform"}, TagGeometry(rebuild) \cup TagObject)

EditLight ==
  /\ UNCHANGED <<shaderVars, restricted, backgroundLight>>
  /\ Tag({"light"}, {"light"})

EditCamera ==
  /\ UNCHANGED <<shaderVars, restricted, backgroundLight>>
  /\ Tag({"camera"}, {"camera"})

EditBackground ==
  /\ UNCHANGED <<shaderVars, restricted, backgroundLight>>
  /\ Tag({"background"}, TagBackground)

EditParticles ==
  /\ UNCHANGED <<shaderVars, restricted, backgroundLight>>
  /\ Tag({"particles"}, {"particles"} \cup TagObjectManager)

EditIntegrator(rate) ==
  /\ UNCHANGED <<shaderVars, restricted, backgroundLight>>
  /\ Tag({"integrator"} \cup IF rate THEN {"rate"} ELSE {}, TagIntegrator)

(* sync_film and Film::tag_passes_update, whose tests are an else-if chain.*)
EditFilm(passes) ==
  /\ UNCHANGED <<shaderVars, restricted, backgroundLight>>
  /\ Tag({"film"} \cup passes,
         {"film"} \cup
           IF "uv" \in passes THEN TagGeometryManager \cup {"meshShader"}
           ELSE IF "ao" \in passes THEN TagIntegrator
           ELSE {})

Edit ==
  \/ \E g \in Graphs, attributes, displacement, image \in BOOLEAN :
       EditShader(g, attributes, displacement, image)
  \/ \E light \in BOOLEAN : EditWorld(light)
  \/ \E hidden \in BOOLEAN : EditObject(hidden)
  \/ RemoveObject
  \/ \E rebuild \in BOOLEAN : EditMesh(rebuild)
  \/ EditLight
  \/ EditCamera
  \/ EditBackground
  \/ EditParticles
  \/ \E rate \in RateChanges : EditIntegrator(rate)
  \/ \E passes \in PassChanges : EditFilm(passes)

-----------------------------------------------------------------------------
(* Scene::device_update, in Session::update_scene.  Every step leaves with *)
(* the next one; the test for a cancel after it is the action Cancel.      *)
Begin ==
  /\ step = "idle" /\ NeedUpdate
  /\ step' = "shader"
  /\ tagged' = IF "film" \in tagged /\ newLightgroups
               THEN tagged \cup {"light"} \cup TagObjectManager ELSE tagged
  /\ newLightgroups' = (newLightgroups /\ "film" \notin tagged)
  /\ UNCHANGED <<fresh, shaderVars, lightVars, motionBlur, edits, tableVars>>

Step(this, next) ==
  /\ step = this /\ step' = next
  /\ UNCHANGED <<graph, restricted, backgroundLight, newLightgroups, motionBlur, edits>>
UnlessShader == UNCHANGED <<compiled, newImage>>
UnlessLight == UNCHANGED <<lit, filmVisibility, lastBackground>>
UnlessFilm == UNCHANGED kernelVisibility
OnlyProducts == UnlessShader /\ UnlessLight /\ UnlessFilm

(* SVMShaderManager::device_update; compiling a shader finds out what it   *)
(* does, and adds its images.                                              *)
ShaderStep ==
  /\ Step("shader", "background") /\ UnlessLight /\ UnlessFilm
  /\ IF "shader" \in tagged
     THEN /\ compiled' = KindsOf(graph)
          /\ newImage' = FALSE
          /\ tagged' = (tagged \ {"shader"})
                         \cup (IF graph.emission THEN {"light"} ELSE {})
                         \cup (IF newImage THEN {"image"} ELSE {})
          /\ fresh' = Make("svm", fresh)
          /\ IF offset["beckmann"] = Invalid THEN AddTable("beckmann") ELSE UNCHANGED tableVars
     ELSE UnlessShader /\ UNCHANGED <<tagged, fresh, tableVars>>

(* Background, object and particle manager: nothing happens without their  *)
(* flag; the object manager keeps it for device_update_flags.              *)
MakeIfTagged(p, flag, cleared) ==
  IF flag \in tagged
  THEN fresh' = Make(p, fresh) /\ tagged' = tagged \ cleared
  ELSE UNCHANGED <<fresh, tagged>>

BackgroundStep ==
  /\ Step("background", "camera") /\ OnlyProducts /\ UNCHANGED tableVars
  /\ MakeIfTagged("background", "background", {"background"})

(* Camera::update and device_update.                                       *)
CameraStep ==
  /\ Step("camera", "preprocess") /\ OnlyProducts
  /\ LET flags == IF "camera" \in tagged
                  THEN (tagged \ {"camera"}) \cup {"cameraDevice", "cameraFlags"}
                  ELSE tagged
     IN /\ tagged' = flags
        /\ IF "cameraDevice" \in flags
           THEN /\ fresh' = Make("camera", fresh)
                /\ IF motionBlur THEN ReplaceTable("shutter") ELSE RemoveTable("shutter")
           ELSE UNCHANGED <<fresh, tableVars>>

PreprocessStep ==
  /\ Step("preprocess", "object") /\ OnlyProducts /\ UNCHANGED tableVars
  /\ IF tagged \cap {"geometry", "geometryFlags"} # {}
     THEN fresh' = Make("volumeFlags", fresh) /\ tagged' = tagged \ {"geometryFlags"}
     ELSE UNCHANGED <<fresh, tagged>>

ObjectStep ==
  /\ Step("object", "particles") /\ OnlyProducts /\ UNCHANGED tableVars
  /\ MakeIfTagged("objects", "object", {})

ParticlesStep ==
  /\ Step("particles", "geometry") /\ OnlyProducts /\ UNCHANGED tableVars
  /\ MakeIfTagged("particles", "particles", {"particles"})

(* device_update_flags; the product does not say whether the bounds of the *)
(* objects were valid.                                                     *)
ObjectFlags(f) == IF tagged \cap {"object", "objectFlags"} # {} THEN Make("objectFlags", f) ELSE f

(* GeometryManager::device_update.  Before a mesh is displaced, images and *)
(* object flags are updated; then the flags' need_flags_update, but not    *)
(* their need_update, is put back.                                         *)
MeshTagged == tagged \cap {"mesh", "meshShader"} # {}
Displacing == graph.displaced /\ MeshTagged
GeometryStep ==
  /\ Step("geometry", "objectFlags") /\ OnlyProducts /\ UNCHANGED tableVars
  /\ IF "geometry" \in tagged
     THEN LET images == IF Displacing /\ "image" \in tagged THEN Make("images", fresh) ELSE fresh
              flags == IF Displacing THEN ObjectFlags(images) ELSE images
              mesh == IF MeshTagged THEN Make("mesh", flags) ELSE flags
          IN /\ fresh' = Make("geometry", mesh)
             /\ tagged' = tagged \ ({"geometry", "mesh", "meshShader"}
                            \cup IF Displacing THEN {"image", "object"} ELSE {})
     ELSE UNCHANGED <<fresh, tagged>>

ObjectFlagsStep_FlagStays ==   \* mutant: need_update is not cleared
  /\ Step("objectFlags", "images") /\ OnlyProducts /\ UNCHANGED tableVars
  /\ fresh' = ObjectFlags(fresh)
  /\ tagged' = tagged \ {"objectFlags"}
ObjectFlagsStep ==
  /\ Step("objectFlags", "images") /\ OnlyProducts /\ UNCHANGED tableVars
  /\ fresh' = ObjectFlags(fresh)
  /\ tagged' = tagged \ {"object", "objectFlags"}

ImagesStep ==
  /\ Step("images", "cameraVolume") /\ OnlyProducts /\ UNCHANGED tableVars
  /\ MakeIfTagged("images", "image", {"image"})

CameraVolumeStep ==
  /\ Step("cameraVolume", "tables") /\ OnlyProducts /\ UNCHANGED tableVars
  /\ fresh' = IF tagged \cap {"cameraDevice", "cameraFlags"} # {}
              THEN Make("cameraVolume", fresh) ELSE fresh
  /\ tagged' = tagged \ {"cameraDevice", "cameraFlags"}

TablesStep ==
  /\ \/ Step("tables", "light")
     \/ Step("filmTables", "copy")
  /\ OnlyProducts /\ UNCHANGED <<tagged, fresh>>
  /\ TablesDeviceUpdate

(* LightManager::device_update; test_enabled_lights notices a background   *)
(* light that was switched on or off.                                      *)
LightStep ==
  /\ Step("light", "integrator") /\ UnlessShader /\ UnlessFilm /\ UNCHANGED tableVars
  /\ IF "light" \in tagged
     THEN LET hidden == restricted /\ compiled.emission
              withBackground == "lightBackground" \in tagged \/ backgroundLight # lastBackground
          IN /\ lastBackground' = backgroundLight
             /\ lit' = compiled.emission
             /\ filmVisibility' = hidden
             /\ fresh' = LET lights == Make("lights", fresh)
                         IN IF withBackground THEN Make("lightBackground", lights) ELSE lights
             /\ tagged' = (tagged \ {"light", "lightBackground"})
                            \cup IF hidden # filmVisibility THEN {"film"} ELSE {}
     ELSE UnlessLight /\ UNCHANGED <<tagged, fresh>>

IntegratorStep ==
  /\ Step("integrator", "film") /\ OnlyProducts /\ UNCHANGED tableVars
  /\ MakeIfTagged("integrator", "integrator", {"integrator"})

FilmStep_TablesOnce ==   \* mutant: the tables are not updated once more
  /\ Step("film", "copy") /\ UnlessShader /\ UnlessLight
  /\ MakeIfTagged("film", "film", {"film"})
  /\ IF "film" \in tagged
     THEN kernelVisibility' = filmVisibility /\ ReplaceTable("filter")
     ELSE UnlessFilm /\ UNCHANGED tableVars
(* Film::device_update; the pixel filter gets a new table every time.      *)
FilmStep ==
  /\ Step("film", "filmTables") /\ UnlessShader /\ UnlessLight
  /\ MakeIfTagged("film", "film", {"film"})
  /\ IF "film" \in tagged
     THEN kernelVisibility' = filmVisibility /\ ReplaceTable("filter")
     ELSE UnlessFilm /\ UNCHANGED tableVars

(* const_copy_to("__data"): the kernels see what the steps have written.   *)
CopyStep ==
  /\ step = "copy" /\ step' = "idle" /\ edits' = 0
  /\ UNCHANGED <<tagged, fresh, shaderVars, lightVars, newLightgroups, motionBlur, tableVars>>

Updating == step \notin {"idle", "cancelled", "sync", "deleted"}

(* A cancel or a device error is noticed after a step, or in the middle of *)
(* one, whose flag then stays raised.  A geometry step has by then perhaps *)
(* updated images and object flags, to displace, or all of its meshes.     *)
Cancel ==
  /\ Updating /\ step # "copy"
  /\ step' = "cancelled"
  /\ \/ UNCHANGED tagged
     \/ /\ step = "geometry" /\ "geometry" \in tagged
        /\ \E meshes \in {{}, {"mesh", "meshShader"}} :
             tagged' = (tagged \ meshes)
                         \ IF Displacing THEN {"image", "object", "objectFlags"} ELSE {}
  /\ UNCHANGED <<fresh, shaderVars, lightVars, newLightgroups, motionBlur, edits, tableVars>>

(* With persistent data the next frame uses the scene again:               *)
(* BlenderSession::reset_session calls Scene::reset.                       *)
Reset ==
  /\ step \in {"idle", "cancelled"}
  /\ step' = "sync"
  /\ tagged' = tagged \cup {"shader", "camera", "film", "particles", "light"}
                 \cup TagBackground \cup TagIntegrator \cup TagObjectManager
                 \cup TagGeometryManager
  /\ UNCHANGED <<fresh, shaderVars, lightVars, newLightgroups, motionBlur, edits, tableVars>>

(* and a new BlenderSync makes new shaders, meshes, objects and lights, and*)
(* sets the rest, which tags what it is equal to only by chance.           *)
Sync ==
  /\ step = "sync" /\ step' = "idle" /\ edits' = 0
  /\ graph' \in Graphs
  /\ compiled' = [NoKind EXCEPT !.volume = graph'.volume]
  /\ newImage' = TRUE
  /\ restricted' \in BOOLEAN
  /\ backgroundLight' \in BOOLEAN
  /\ newLightgroups' \in BOOLEAN
  /\ motionBlur' \in BOOLEAN
  /\ fresh' = {}
  /\ tagged' = tagged \cup TagShader(graph', TRUE, TRUE) \cup TagObject \cup TagGeometry(TRUE)
                 \cup {"lightBackground", "particles", "light"}
  /\ UNCHANGED <<lit, filmVisibility, kernelVisibility, lastBackground, tableVars>>

(* The session ends: Scene::~Scene.                                        *)
Delete ==
  /\ step \in {"idle", "cancelled"}
  /\ step' = "deleted"
  /\ TablesFree
  /\ UNCHANGED <<tagged, fresh, shaderVars, lightVars, newLightgroups, motionBlur, edits>>

Init ==
  /\ step = "sync"
  /\ tagged = Flags \ {"mesh", "meshShader"}
  /\ fresh = {}
  /\ graph \in Graphs
  /\ compiled = NoKind
  /\ newImage = FALSE
  /\ lit = FALSE
  /\ restricted = FALSE
  /\ filmVisibility = FALSE
  /\ kernelVisibility = FALSE
  /\ backgroundLight = FALSE
  /\ lastBackground = FALSE
  /\ newLightgroups = FALSE
  /\ motionBlur = FALSE
  /\ edits = 0
  /\ TablesInit

DeviceUpdate ==
  \/ Begin \/ ShaderStep \/ BackgroundStep \/ CameraStep \/ PreprocessStep \/ ObjectStep
  \/ ParticlesStep \/ GeometryStep \/ ObjectFlagsStep \/ ImagesStep \/ CameraVolumeStep
  \/ TablesStep \/ LightStep \/ IntegratorStep \/ FilmStep \/ CopyStep

Next == Edit \/ DeviceUpdate \/ Cancel \/ Reset \/ Sync \/ Delete

Spec == Init /\ [][Next]_vars

-----------------------------------------------------------------------------
(* The products show the scene as it is.                                   *)
Current ==
  /\ fresh = Products
  /\ lit = graph.emission
  /\ kernelVisibility = (restricted /\ graph.emission)

(* When the kernels get their data, every product shows the scene as it is:*)
(* whatever was edited, in whatever order, and however often an update was *)
(* cut short before, the flags have brought every manager that depends on  *)
(* it to work, after the ones it reads from.                               *)
FreshWhenCopied == step = "copy" => Current

(* The viewport is restarted by BlenderSession::synchronize only if        *)
(* need_reset() says so: no edit may leave stale data that it misses.      *)
StaleIsNoticed == step = "idle" /\ ~Current => NeedReset

(* A complete update leaves no flag that asks for another: managers tag    *)
(* each other during the update, but never one that is already past.       *)
Settles == step = "copy" => ~NeedUpdate

(* The kernels find their tables: at the offset an owner has written into  *)
(* the kernel data, the device holds all of its table.                     *)
TablesOnDevice ==
  step = "copy" => \A o \in Owner : offset[o] # Invalid =>
    \A i \in offset[o] .. offset[o] + DataSize[o] - 1 :
      i \in DOMAIN onDevice /\ onDevice[i] = o

(* ~LookupTables asserts that its users have removed all tables.           *)
TablesRemoved == step = "deleted" => tables = {}
=============================================================================
