------------------------ MODULE EngineLifecycleProofs ------------------------
(***************************************************************************)
(* That every Vulkan object of a process has at most one owner, that       *)
(* nothing else is left behind, and that what can be used is whole, for    *)
(* any contexts, tensors and shaders and any failures of driver calls.     *)
(***************************************************************************)
EXTENDS EngineLifecycle, TLAPS

-----------------------------------------------------------------------------
(* The invariant *)

Stored(c, t) == {<<"buffer", c, t>>, <<"memory", c, t>>}

Piped(c, v) == {<<"module", c, v>>, <<"layout", c, v>>, <<"pipeline", c, v>>}

PartKinds == {"module", "layout", "pipeline"}

StorageKinds == {"buffer", "memory"}

\* What each variable may hold, and the kind and context of each object.
Types ==
  /\ vk \in {"unset", "none", "some"}
  /\ status \in [Context -> {"new", "building", "ready", "gone"}]
  /\ owns \in [Context -> SUBSET live]
  /\ names \in [Context -> SUBSET (Shader \X {"", "_r4", "_mul"})]
  /\ held \subseteq Context \X Tensor
  /\ ctx \in Context
  /\ at \in {"idle", "set_layout", "compile", "command_buffer", "fence",
             "descriptor_pool"}
  /\ todo \subseteq Shader
  /\ \A c \in Context : status[c] = "building" <=> at # "idle" /\ c = ctx
  /\ \A o \in live : /\ o[1] \in Object
                     /\ o[1] # "instance" => o[2] \in Context

Suffix == {"", "_r4", "_mul"}

\* The variants still to compile are of shaders already come to, and different.
Variants ==
  /\ rest \in Seq((Shader \ todo) \X Suffix)
  /\ \A i, j \in 1 .. Len(rest) : i # j => rest[i] # rest[j]
  /\ rest # <<>> => at = "compile"

\* What a step is about to create does not exist yet.
Created(o) ==
  /\ o[1] = "set_layout" => at # "set_layout"
  /\ o[1] \in PartKinds => /\ at # "set_layout" /\ o[3][1] \notin todo
                           /\ \A i \in 1 .. Len(rest) : o[3] # rest[i]
  /\ o[1] = "command_pool" => at \in {"command_buffer", "fence", "descriptor_pool"}
  /\ o[1] = "fence" => at = "descriptor_pool"
  /\ o[1] \notin StorageKinds \cup {"descriptor_pool"}

Fresh ==
  /\ vk = "unset" => Instance \notin live
  /\ \A o \in live : o[1] # "instance" => status[o[2]] # "new"
  /\ at # "idle" => \A o \in live : o[1] # "instance" /\ o[2] = ctx => Created(o)

\* An engine owns objects of its own context, and never the device.  What the
\* constructor holds is not lost.
OwnsOwn ==
  /\ \A c \in Context : \A o \in owns[c] : o[1] \notin {"instance", "device"} /\ o[2] = c
  /\ loose \cap lost = {}

\* What the running constructor has built.
Halfway ==
  /\ at = "set_layout" => owns[ctx] = {} /\ names[ctx] = {}
  /\ at = "idle" => loose = {}
  /\ at \in {"command_buffer", "fence"} => loose = {Device(ctx), CommandPool(ctx)}
  /\ at \in {"set_layout", "compile", "descriptor_pool"} => loose = {Device(ctx)}
  /\ at \notin {"idle", "set_layout"} => SetLayout(ctx) \in owns[ctx]
  /\ at = "descriptor_pool" => {CommandPool(ctx), Fence(ctx)} \subseteq owns[ctx]

\* What contexts, their pipelines and tensors consist of.
Whole ==
  /\ vk = "some" => Instance \in live
  /\ \A c \in Context : status[c] \in {"new", "gone"} => owns[c] = {} /\ names[c] = {}
  /\ \A c \in Context : status[c] = "ready" =>
       {SetLayout(c), CommandPool(c), Fence(c), DescriptorPool(c, 1)} \subseteq owns[c]
  /\ \A c \in Context : \A v \in names[c] : Piped(c, v) \subseteq owns[c]
  /\ \A c \in Context : status[c] \in {"building", "ready"} =>
       {Instance, Device(c)} \subseteq live
  /\ \A h \in held : {Instance, Device(h[1])} \subseteq live

IndInv ==
  /\ Types /\ Variants /\ Fresh /\ OwnsOwn /\ Halfway /\ Whole
  /\ OwnedOnce /\ NothingElseLeaks

-----------------------------------------------------------------------------
(* Objects *)

\* The kind and the context of every object.
LEMMA Tags ==
  /\ Instance[1] = "instance"
  /\ \A c : Device(c)[1] = "device" /\ Device(c)[2] = c
  /\ \A c : SetLayout(c)[1] = "set_layout" /\ SetLayout(c)[2] = c
  /\ \A c : CommandPool(c)[1] = "command_pool" /\ CommandPool(c)[2] = c
  /\ \A c : Fence(c)[1] = "fence" /\ Fence(c)[2] = c
  /\ \A c, n : DescriptorPool(c, n)[1] = "descriptor_pool" /\ DescriptorPool(c, n)[2] = c
BY DEF Instance, Device, SetLayout, CommandPool, Fence, DescriptorPool

LEMMA StoredTags ==
  ASSUME NEW c, NEW t, NEW o \in Stored(c, t)
  PROVE  o[1] \in StorageKinds /\ o[2] = c /\ o[3] = t
BY DEF Stored, StorageKinds

LEMMA PipedTags ==
  ASSUME NEW c, NEW v, NEW o \in Piped(c, v)
  PROVE  o[1] \in PartKinds /\ o[2] = c /\ o[3] = v
BY DEF Piped, PartKinds

LEMMA StorageObjects ==
  ASSUME NEW c, NEW t
  PROVE  /\ First(2, Storage(c, t)) = Stored(c, t)
         /\ \A k \in 1 .. 2 : First(k, Storage(c, t)) \subseteq Stored(c, t)
<1>1. Storage(c, t)[1] = <<"buffer", c, t>> /\ Storage(c, t)[2] = <<"memory", c, t>>
  BY DEF Storage
<1>2. 1 .. 2 = {1, 2} /\ 1 .. 1 = {1}
  OBVIOUS
<1> QED
  BY <1>1, <1>2 DEF First, Stored

LEMMA PartObjects ==
  ASSUME NEW c, NEW v
  PROVE  /\ First(3, Parts(c, v)) = Piped(c, v)
         /\ \A k \in 0 .. 2 : First(k, Parts(c, v)) \subseteq Piped(c, v)
<1>1. /\ Parts(c, v)[1] = <<"module", c, v>>
      /\ Parts(c, v)[2] = <<"layout", c, v>>
      /\ Parts(c, v)[3] = <<"pipeline", c, v>>
  BY DEF Parts
<1>2. 1 .. 3 = {1, 2, 3} /\ 1 .. 2 = {1, 2} /\ 1 .. 1 = {1} /\ 1 .. 0 = {}
  OBVIOUS
<1> QED
  BY <1>1, <1>2 DEF First, Piped

\* The buffers that a set of handles stands for.
LEMMA HeldMembers ==
  /\ \A o : o \in HeldObjects <=> \E h \in held : o \in Stored(h[1], h[2])
  /\ \A o : o \in HeldObjects' <=> \E h \in held' : o \in Stored(h[1], h[2])
<1>1. \A h : First(2, Storage(h[1], h[2])) = Stored(h[1], h[2])
  BY StorageObjects
<1>2. HeldObjects = UNION {First(2, Storage(h[1], h[2])) : h \in held}
  BY DEF HeldObjects
<1>3. HeldObjects' = UNION {First(2, Storage(h[1], h[2])) : h \in held'}
  BY DEF HeldObjects
<1> QED
  BY <1>1, <1>2, <1>3

LEMMA HeldTags ==
  \A o \in HeldObjects : o[1] \in StorageKinds
BY HeldMembers, StoredTags

\* A caller gets a buffer, or gives one away.
LEMMA HeldGrows ==
  ASSUME NEW c, NEW t, held' = held \cup {<<c, t>>}
  PROVE  HeldObjects' = HeldObjects \cup Stored(c, t)
<1>1. \A o : o \in HeldObjects' <=> o \in HeldObjects \/ o \in Stored(c, t)
  <2>1. Stored(<<c, t>>[1], <<c, t>>[2]) = Stored(c, t)
    OBVIOUS
  <2>2. \A h : h \in held' <=> h \in held \/ h = <<c, t>>
    OBVIOUS
  <2> QED
    BY <2>1, <2>2, HeldMembers
<1> QED
  BY <1>1

LEMMA HeldShrinks ==
  ASSUME NEW c, NEW t, held \subseteq Context \X Tensor, <<c, t>> \in held,
         held' = held \ {<<c, t>>}
  PROVE  HeldObjects' = HeldObjects \ Stored(c, t)
<1>1. ASSUME NEW h \in held', NEW o \in Stored(h[1], h[2]) PROVE o \notin Stored(c, t)
  <2>1. h # <<c, t>> /\ h \in Context \X Tensor
    OBVIOUS
  <2>2. h[1] # c \/ h[2] # t
    BY <2>1
  <2> QED
    BY <2>2, <1>1, StoredTags
<1>2. \A o : o \in HeldObjects' <=> o \in HeldObjects /\ o \notin Stored(c, t)
  BY <1>1, HeldMembers
<1> QED
  BY <1>2

LEMMA HeldSame ==
  ASSUME held' = held PROVE HeldObjects' = HeldObjects
<1>1. \A o : o \in HeldObjects' <=> o \in HeldObjects
  BY HeldMembers
<1> QED
  BY <1>1

\* Object by object: what exists has an owner or is one of those left behind.
Kept(o) == o = Instance \/ (\E c \in Context : o = Device(c)) \/ o \in lost \cup loose

LEMMA LeaksPointwise ==
  /\ NothingElseLeaks <=>
       \A o \in live : Kept(o) \/ o \in HeldObjects \/ (\E c \in Context : o \in owns[c])
  /\ NothingElseLeaks' <=>
       \A o \in live' : Kept(o)' \/ o \in HeldObjects' \/ (\E c \in Context : o \in owns'[c])
BY DEF NothingElseLeaks, Kept

-----------------------------------------------------------------------------
(* A context goes *)

LEMMA DropContextInv ==
  ASSUME IndInv, NEW c \in Context, DropContext(c)
  PROVE  IndInv'
<1>. USE DEF IndInv
<1>1. /\ live' = live \ owns[c]
      /\ owns' = [owns EXCEPT ![c] = {}] /\ names' = [names EXCEPT ![c] = {}]
      /\ status' = [status EXCEPT ![c] = "gone"] /\ at = "idle" /\ status[c] = "ready"
      /\ vk' = vk /\ lost' = lost /\ held' = held /\ ctx' = ctx /\ at' = at
      /\ todo' = todo /\ rest' = rest /\ loose' = loose
  BY DEF DropContext, building
<1>2. \A d \in Context \ {c} : owns[d] \subseteq live'
  BY <1>1 DEF Types, OwnedOnce
<1>3. Types'
  BY <1>1, <1>2 DEF Types
<1>4. Variants'
  BY <1>1 DEF Variants
<1>5. Fresh'
  BY <1>1 DEF Fresh, Types
<1>6. OwnsOwn'
  BY <1>1 DEF OwnsOwn, Types
<1>7. HeldObjects' = HeldObjects
  BY <1>1, HeldSame
<1>8. OwnedOnce'
  BY <1>1, <1>2, <1>7 DEF OwnedOnce, Types
<1>9. NothingElseLeaks'
  BY <1>1, <1>7, LeaksPointwise DEF Kept, Types
<1>10. Halfway' /\ Whole'
  <2>1. \A o \in live : o[1] \in {"instance", "device"} => o \in live'
    BY <1>1 DEF OwnsOwn
  <2>2. \A o \in live : o = Instance \/ (\E d : o = Device(d)) => o \in live'
    BY <2>1, Tags
  <2>3. Halfway'
    BY <1>1 DEF Halfway, Types
  <2>4. Whole'
    BY <1>1, <2>2 DEF Whole, Types
  <2> QED
    BY <2>3, <2>4
<1> QED
  BY <1>3, <1>4, <1>5, <1>6, <1>8, <1>9, <1>10

-----------------------------------------------------------------------------
(* What a call creates *)

New(made, c) ==
  \A o \in made : /\ o \notin live /\ o[2] = c
                  /\ o[1] \in Object \ {"instance", "device"}

\* An engine comes to own new objects, and its constructor may part with the device.
LEMMA OwnsMore ==
  ASSUME IndInv, NEW c \in Context, NEW made, New(made, c),
         live' = live \cup made, owns' = [owns EXCEPT ![c] = owns[c] \cup made],
         lost' = lost, held' = held, loose' \in {loose, loose \ {Device(c)}}
  PROVE  /\ owns' \in [Context -> SUBSET live'] /\ owns'[c] = owns[c] \cup made
         /\ \A d \in Context \ {c} : owns'[d] = owns[d]
         /\ \A o \in live' : o[1] \in Object /\ (o[1] # "instance" => o[2] \in Context)
         /\ OwnsOwn' /\ OwnedOnce' /\ NothingElseLeaks'
<1>1. owns'[c] = owns[c] \cup made /\ \A d \in Context \ {c} : owns'[d] = owns[d]
  BY DEF IndInv, Types
<1>2. owns' \in [Context -> SUBSET live']
  BY DEF IndInv, Types
<1>3. \A o \in live' : o[1] \in Object /\ (o[1] # "instance" => o[2] \in Context)
  BY DEF IndInv, Types, New
<1>4. OwnsOwn'
  BY <1>1 DEF IndInv, OwnsOwn, New
<1>5. HeldObjects' = HeldObjects
  BY HeldSame
<1>6. made \cap live = {}
  BY DEF New
<1>7. OwnedOnce'
  BY <1>1, <1>5, <1>6 DEF IndInv, OwnedOnce
<1>8. NothingElseLeaks'
  BY <1>1, <1>5, LeaksPointwise DEF IndInv, Kept
<1> QED
  BY <1>1, <1>2, <1>3, <1>4, <1>7, <1>8

\* A failing call forgets what it has created.
LEMMA Forgets ==
  ASSUME IndInv, NEW c \in Context, NEW made, New(made, c),
         live' = live \cup made, lost' = lost \cup made,
         owns' = owns, held' = held, loose' = loose
  PROVE  /\ owns' \in [Context -> SUBSET live']
         /\ \A o \in live' : o[1] \in Object /\ (o[1] # "instance" => o[2] \in Context)
         /\ OwnsOwn' /\ OwnedOnce' /\ NothingElseLeaks'
<1>2. owns' \in [Context -> SUBSET live']
  BY DEF IndInv, Types
<1>3. \A o \in live' : o[1] \in Object /\ (o[1] # "instance" => o[2] \in Context)
  BY DEF IndInv, Types, New
<1>6. made \cap live = {}
  BY DEF New
<1>4. OwnsOwn'
  BY <1>6 DEF IndInv, OwnsOwn, OwnedOnce
<1>5. HeldObjects' = HeldObjects
  BY HeldSame
<1>7. OwnedOnce'
  BY <1>5, <1>6 DEF IndInv, OwnedOnce
<1>8. NothingElseLeaks'
  BY <1>5, LeaksPointwise DEF IndInv, Kept
<1> QED
  BY <1>2, <1>3, <1>4, <1>7, <1>8

\* What was whole stays so while nothing goes.
LEMMA WholeGrows ==
  ASSUME IndInv, live \subseteq live', \A c \in Context : owns[c] \subseteq owns'[c],
         vk' = vk, status' = status, names' = names, held' = held,
         \A c \in Context : status[c] \in {"new", "gone"} => owns'[c] = owns[c]
  PROVE  Whole'
BY DEF IndInv, Whole

-----------------------------------------------------------------------------
(* The constructor *)

LEMMA NoVariants ==
  ASSUME rest' = <<>> PROVE Variants'
<1>1. \A S : <<>> \in Seq(S)
  OBVIOUS
<1>2. 1 .. Len(<<>>) = {}
  OBVIOUS
<1> QED
  BY <1>1, <1>2 DEF Variants

LEMMA GiveUpInv ==
  ASSUME IndInv, at # "idle", NEW made, GiveUp(made), New(made, ctx)
  PROVE  IndInv'
<1>. USE DEF IndInv
<1>1. /\ live' = (live \cup made) \ owns[ctx] /\ lost' = lost \cup loose \cup made
      /\ owns' = [owns EXCEPT ![ctx] = {}] /\ names' = [names EXCEPT ![ctx] = {}]
      /\ status' = [status EXCEPT ![ctx] = "gone"] /\ at' = "idle"
      /\ vk' = vk /\ held' = held /\ ctx' = ctx
      /\ todo' = {} /\ rest' = <<>> /\ loose' = {}
  BY DEF GiveUp
<1>2. \A d \in Context \ {ctx} : owns[d] \subseteq live'
  BY <1>1 DEF Types, OwnedOnce
<1>3. Types'
  BY <1>1, <1>2 DEF Types, New
<1>4. Variants'
  BY <1>1, NoVariants
<1>5. /\ ctx \in Context /\ status'[ctx] = "gone" /\ owns'[ctx] = {} /\ names'[ctx] = {}
      /\ \A d \in Context \ {ctx} :
           status'[d] = status[d] /\ owns'[d] = owns[d] /\ names'[d] = names[d]
  BY <1>1 DEF Types
<1>6. Fresh'
  <2>1. ASSUME vk' = "unset" PROVE Instance \notin live'
    <3>1. Instance \notin made
      BY Tags DEF New
    <3> QED
      BY <1>1, <2>1, <3>1 DEF Fresh
  <2>2. \A o \in live' : o[1] # "instance" => status'[o[2]] # "new"
    BY <1>1, <1>5 DEF Fresh, Types, New
  <2> QED
    BY <1>1, <2>1, <2>2 DEF Fresh
<1>7. OwnsOwn'
  BY <1>1, <1>5 DEF OwnsOwn
<1>8. HeldObjects' = HeldObjects
  BY <1>1, HeldSame
<1>9. OwnedOnce'
  <2>1. \A o \in made : o \notin live
    BY DEF New
  <2>2. /\ owns[ctx] \cap (loose \cup lost \cup HeldObjects) = {}
        /\ HeldObjects \subseteq live /\ (loose \cup lost) \subseteq live
        /\ (loose \cup lost) \cap HeldObjects = {}
        /\ owns[ctx] \subseteq live
    BY <1>5 DEF OwnedOnce
  <2>3. /\ HeldObjects' \subseteq live' /\ (loose' \cup lost') \subseteq live'
        /\ (loose' \cup lost') \cap HeldObjects' = {}
    BY <1>1, <1>8, <2>1, <2>2
  <2>4. \A d \in Context \ {ctx} : owns[d] \cap (loose \cup lost \cup HeldObjects) = {}
    BY DEF OwnedOnce
  <2>5. \A d \in Context : owns'[d] \cap (loose' \cup lost' \cup HeldObjects') = {}
    BY <1>1, <1>5, <1>8, <1>2, <2>1, <2>4 DEF Types
  <2> QED
    BY <1>2, <1>5, <2>3, <2>5 DEF OwnedOnce
<1>10. NothingElseLeaks'
  BY <1>1, <1>5, <1>8, LeaksPointwise DEF Kept, Types
<1>11. Halfway' /\ Whole'
  <2>1. \A o \in live : o[1] \in {"instance", "device"} => o \in live'
    BY <1>1 DEF OwnsOwn, Types
  <2>2. \A o \in live : o = Instance \/ (\E d : o = Device(d)) => o \in live'
    BY <2>1, Tags
  <2>3. Halfway'
    BY <1>1 DEF Halfway
  <2>4. \A d \in Context :
         \/ /\ d # ctx /\ status'[d] = status[d]
            /\ owns'[d] = owns[d] /\ names'[d] = names[d]
         \/ status'[d] = "gone" /\ owns'[d] = {} /\ names'[d] = {}
    BY <1>5
  <2>5. Whole'
    BY <1>1, <2>2, <2>4 DEF Whole
  <2> QED
    BY <2>3, <2>5
<1> QED
  BY <1>3, <1>4, <1>6, <1>7, <1>9, <1>10, <1>11

LEMMA CreateSetLayoutInv ==
  ASSUME IndInv, CreateSetLayout
  PROVE  IndInv'
<1>. USE DEF IndInv
<1>1. CASE GiveUp({})
  BY <1>1, GiveUpInv DEF CreateSetLayout, New
<1>2. CASE ~GiveUp({})
  <2>1. /\ at = "set_layout" /\ live' = live \cup {SetLayout(ctx)}
        /\ owns' = [owns EXCEPT ![ctx] = {SetLayout(ctx)}]
        /\ at' = "compile" /\ todo' = Shader
        /\ vk' = vk /\ lost' = lost /\ status' = status /\ names' = names
        /\ held' = held /\ ctx' = ctx /\ rest' = rest /\ loose' = loose
    BY <1>2 DEF CreateSetLayout
  <2>2. SetLayout(ctx) \notin live
    BY <2>1, Tags DEF Fresh, Created, Types
  <2>3. /\ owns[ctx] = {} /\ names[ctx] = {} /\ rest = <<>>
        /\ ctx \in Context /\ status[ctx] = "building"
    BY <2>1 DEF Halfway, Variants, Types
  <2>4. New({SetLayout(ctx)}, ctx)
    BY <2>2, Tags DEF New, Object
  <2>5. /\ owns' \in [Context -> SUBSET live'] /\ owns'[ctx] = {SetLayout(ctx)}
        /\ \A d \in Context \ {ctx} : owns'[d] = owns[d]
        /\ \A o \in live' : o[1] \in Object /\ (o[1] # "instance" => o[2] \in Context)
        /\ OwnsOwn' /\ OwnedOnce' /\ NothingElseLeaks'
    BY <2>1, <2>3, <2>4, OwnsMore
  <2>6. Types'
    BY <2>1, <2>5 DEF Types
  <2>7. Variants'
    BY <2>1, <2>3 DEF Variants
  <2>8. Fresh'
    <3>1. \A o \in live : o[1] # "instance" /\ o[2] = ctx => o[1] \notin PartKinds
      <4>. SUFFICES ASSUME NEW o \in live, o[1] # "instance", o[2] = ctx
                   PROVE  o[1] \notin PartKinds
        OBVIOUS
      <4> QED
        BY <2>1 DEF Fresh, Created
    <3>2. Instance # SetLayout(ctx)
      BY Tags
    <3>3. ASSUME NEW o \in live', o[1] # "instance", o[2] = ctx PROVE Created(o)'
      <4>1. CASE o \in live
        BY <2>1, <2>3, <3>1, <3>3, <4>1 DEF Fresh, Created
      <4>2. CASE o = SetLayout(ctx)
        BY <2>1, <4>2, Tags DEF Created, PartKinds, StorageKinds
      <4> QED
        BY <2>1, <4>1, <4>2
    <3>4. \A o \in live' : o[1] # "instance" => status'[o[2]] # "new"
      BY <2>1, <2>3, Tags DEF Fresh
    <3> QED
      BY <2>1, <3>2, <3>3, <3>4 DEF Fresh, Created
  <2>11. Halfway' /\ Whole'
    <3>1. Halfway'
      BY <2>1, <2>3, <2>5 DEF Halfway
    <3> QED
      BY <2>1, <2>3, <2>5, <3>1, WholeGrows
  <2> QED
    BY <2>5, <2>6, <2>7, <2>8, <2>11
<1> QED
  BY <1>1, <1>2

\* A step of the constructor creates objects, and none that is still to be created.
LEMMA FreshGrows ==
  ASSUME IndInv, NEW made, New(made, ctx), at # "idle", live' = live \cup made,
         vk' = vk, status' = status, ctx' = ctx,
         \A o \in live : o[1] # "instance" /\ o[2] = ctx /\ Created(o) => Created(o)',
         \A o \in made : Created(o)'
  PROVE  Fresh'
<1>1. status[ctx] = "building" /\ Instance \notin made
  BY Tags DEF IndInv, Types, New
<1>2. \A o \in live' : o[1] # "instance" => status'[o[2]] # "new"
  BY <1>1 DEF IndInv, Fresh, New
<1>3. ASSUME NEW o \in live', o[1] # "instance", o[2] = ctx PROVE Created(o)'
  <2>1. CASE o \in live
    <3>1. Created(o)
      BY <1>3, <2>1 DEF IndInv, Fresh
    <3> QED
      BY <1>3, <2>1, <3>1
  <2> QED
    BY <2>1
<1> QED
  BY <1>1, <1>2, <1>3 DEF IndInv, Fresh, Created

\* The variants of a shader.
LEMMA OneVariant ==
  ASSUME NEW S, NEW v \in S, NEW r, r = <<v>>
  PROVE  r \in Seq(S) /\ \A i, j \in 1 .. Len(r) : i # j => r[i] # r[j]
OBVIOUS

LEMMA TwoVariants ==
  ASSUME NEW S, NEW v \in S, NEW w \in S, v # w, NEW r, r = <<v, w>>
  PROVE  r \in Seq(S) /\ \A i, j \in 1 .. Len(r) : i # j => r[i] # r[j]
<1>1. Len(r) = 2 /\ r[1] = v /\ r[2] = w /\ 1 .. 2 = {1, 2} /\ r \in Seq(S)
  OBVIOUS
<1> QED
  BY <1>1

LEMMA SomeVariants ==
  ASSUME NEW s
  PROVE  /\ VariantsOf(s) \in Seq({s} \X Suffix)
         /\ \A i, j \in 1 .. Len(VariantsOf(s)) : i # j => VariantsOf(s)[i] # VariantsOf(s)[j]
<1> DEFINE S == {s} \X Suffix
           a == <<s, "">>
           b == <<s, "_r4">>
           c == <<s, "_mul">>
<1>1. a \in S /\ b \in S /\ c \in S /\ a # b /\ a # c
  BY DEF Suffix
<1>2. VariantsOf(s) \in {<<a>>, <<a, b>>, <<a, c>>}
  BY DEF VariantsOf, RmsNormVariants, MatvecVariants, SingleVariant
<1> HIDE DEF S, a, b, c
<1>3. CASE VariantsOf(s) = <<a>>
  <2>1. /\ VariantsOf(s) \in Seq(S)
        /\ \A i, j \in 1 .. Len(VariantsOf(s)) : i # j => VariantsOf(s)[i] # VariantsOf(s)[j]
    BY <1>1, <1>3, OneVariant
  <2> QED
    BY <2>1 DEF S
<1>4. CASE VariantsOf(s) \in {<<a, b>>, <<a, c>>}
  <2>1. /\ VariantsOf(s) \in Seq(S)
        /\ \A i, j \in 1 .. Len(VariantsOf(s)) : i # j => VariantsOf(s)[i] # VariantsOf(s)[j]
    BY <1>1, <1>4, TwoVariants
  <2> QED
    BY <2>1 DEF S
<1> QED
  BY <1>2, <1>3, <1>4

LEMMA SeqMonotone ==
  ASSUME NEW S, NEW T, S \subseteq T, NEW r \in Seq(S)
  PROVE  r \in Seq(T)
OBVIOUS

LEMMA NextShaderInv ==
  ASSUME IndInv, NextShader
  PROVE  IndInv'
<1>1. PICK s \in todo : todo' = todo \ {s} /\ rest' = VariantsOf(s)
  BY DEF NextShader
<1>2. /\ at = "compile" /\ rest = <<>>
      /\ vk' = vk /\ live' = live /\ lost' = lost /\ status' = status /\ owns' = owns
      /\ names' = names /\ held' = held /\ ctx' = ctx /\ at' = at /\ loose' = loose
  BY DEF NextShader
<1>3. Types'
  BY <1>1, <1>2 DEF IndInv, Types
<1>4. s \in Shader \ todo'
  BY <1>1 DEF IndInv, Types
<1>5. Variants'
  <2>1. {s} \X Suffix \subseteq (Shader \ todo') \X Suffix
    BY <1>4
  <2>2. rest' \in Seq((Shader \ todo') \X Suffix)
    <3>1. rest' \in Seq({s} \X Suffix)
      BY <1>1, SomeVariants
    <3> QED
      BY <2>1, <3>1, SeqMonotone, Zenon
  <2> QED
    BY <1>1, <1>2, <2>2, SomeVariants DEF Variants
<1>6. Fresh'
  <2>1. \A i \in 1 .. Len(rest') : rest'[i][1] = s
    <3>1. rest' \in Seq({s} \X Suffix)
      BY <1>1, SomeVariants
    <3>2. \A v \in {s} \X Suffix : v[1] = s
      OBVIOUS
    <3> QED
      BY <3>1, <3>2
  <2>2. \A o : Created(o) => Created(o)'
    BY <1>1, <1>2, <2>1 DEF Created
  <2>3. New({}, ctx)
    BY DEF New
  <2> QED
    BY <1>2, <2>2, <2>3, FreshGrows
<1>7. OwnsOwn' /\ Halfway'
  BY <1>2 DEF IndInv, OwnsOwn, Halfway
<1>8. HeldObjects' = HeldObjects
  BY <1>2, HeldSame
<1>9. OwnedOnce' /\ NothingElseLeaks'
  BY <1>2, <1>8, LeaksPointwise DEF IndInv, OwnedOnce, Kept
<1>10. Whole'
  BY <1>2, WholeGrows
<1> QED
  BY <1>3, <1>5, <1>6, <1>7, <1>9, <1>10 DEF IndInv

\* The next variant is not compiled again.
LEMMA NextVariant ==
  ASSUME IndInv, rest # <<>>
  PROVE  /\ Head(rest) \in (Shader \ todo) \X Suffix
         /\ 1 \in 1 .. Len(rest) /\ rest[1] = Head(rest)
         /\ Tail(rest) \in Seq((Shader \ todo) \X Suffix)
         /\ \A i \in 1 .. Len(Tail(rest)) :
              /\ i + 1 \in 1 .. Len(rest)
              /\ Tail(rest)[i] = rest[i + 1] /\ Tail(rest)[i] # Head(rest)
         /\ \A i, j \in 1 .. Len(Tail(rest)) : i # j => Tail(rest)[i] # Tail(rest)[j]
<1> DEFINE S == (Shader \ todo) \X Suffix
<1>1. rest \in Seq(S) /\ \A i, j \in 1 .. Len(rest) : i # j => rest[i] # rest[j]
  BY DEF IndInv, Variants
<1> HIDE DEF S
<1>2. /\ Head(rest) \in S /\ Tail(rest) \in Seq(S) /\ Len(Tail(rest)) = Len(rest) - 1
      /\ Head(rest) = rest[1] /\ Len(rest) \in Nat \ {0}
      /\ \A i \in 1 .. Len(Tail(rest)) : Tail(rest)[i] = rest[i + 1]
  BY <1>1
<1>3. \A i \in 1 .. Len(Tail(rest)) : i + 1 \in 1 .. Len(rest) /\ i + 1 # 1
  BY <1>2
<1> QED
  BY <1>1, <1>2, <1>3 DEF S

LEMMA CompileInv ==
  ASSUME IndInv, Compile
  PROVE  IndInv'
<1> DEFINE v == Head(rest)
<1>1. /\ at = "compile" /\ rest # <<>>
      /\ vk' = vk /\ status' = status /\ held' = held /\ ctx' = ctx /\ at' = at
      /\ todo' = todo /\ loose' = loose
  BY DEF Compile
<1>2. /\ v \in (Shader \ todo) \X Suffix /\ v[1] \notin todo
      /\ 1 \in 1 .. Len(rest) /\ rest[1] = v
      /\ ctx \in Context /\ status[ctx] = "building"
  BY <1>1, NextVariant DEF IndInv, Types
<1>3. ASSUME NEW made \in SUBSET Piped(ctx, v) PROVE New(made, ctx)
  <2>1. SUFFICES ASSUME NEW o \in made
                 PROVE  o \notin live /\ o[2] = ctx /\ o[1] \in Object \ {"instance", "device"}
    BY DEF New
  <2>2. o[1] \in PartKinds /\ o[2] = ctx /\ o[3] = v
    BY PipedTags
  <2>3. ~Created(o)
    BY <1>2, <2>2 DEF Created
  <2>4. o[1] # "instance" /\ o[1] \in Object \ {"instance", "device"}
    BY <2>2 DEF PartKinds, Object
  <2>5. o \notin live
    BY <1>1, <2>2, <2>3, <2>4 DEF IndInv, Fresh
  <2> QED
    BY <2>2, <2>4, <2>5
<1>4. \/ /\ live' = live \cup Piped(ctx, v) /\ lost' = lost
         /\ owns' = [owns EXCEPT ![ctx] = owns[ctx] \cup Piped(ctx, v)]
         /\ names' = [names EXCEPT ![ctx] = names[ctx] \cup {v}] /\ rest' = Tail(rest)
      \/ \E made \in SUBSET Piped(ctx, v) :
           /\ live' = live \cup made /\ lost' = lost \cup made /\ rest' = <<>>
           /\ owns' = owns /\ names' = names
  BY PartObjects DEF Compile
<1> HIDE DEF v
<1>5. CASE /\ live' = live \cup Piped(ctx, v) /\ lost' = lost
           /\ owns' = [owns EXCEPT ![ctx] = owns[ctx] \cup Piped(ctx, v)]
           /\ names' = [names EXCEPT ![ctx] = names[ctx] \cup {v}] /\ rest' = Tail(rest)
  <2>1. /\ owns' \in [Context -> SUBSET live'] /\ owns'[ctx] = owns[ctx] \cup Piped(ctx, v)
        /\ \A d \in Context \ {ctx} : owns'[d] = owns[d]
        /\ \A o \in live' : o[1] \in Object /\ (o[1] # "instance" => o[2] \in Context)
        /\ OwnsOwn' /\ OwnedOnce' /\ NothingElseLeaks'
    BY <1>1, <1>2, <1>3, <1>5, OwnsMore
  <2>2. /\ names'[ctx] = names[ctx] \cup {v}
        /\ \A d \in Context \ {ctx} : names'[d] = names[d]
        /\ names' \in [Context -> SUBSET (Shader \X {"", "_r4", "_mul"})]
    <3>1. v \in Shader \X {"", "_r4", "_mul"}
      BY <1>2 DEF Suffix
    <3> QED
      BY <1>5, <3>1 DEF IndInv, Types
  <2>3. Types'
    BY <1>1, <2>1, <2>2 DEF IndInv, Types
  <2>4. Variants'
    BY <1>1, <1>5, NextVariant DEF Variants
  <2>5. Fresh'
    <3>1. ASSUME NEW o \in live, o[1] # "instance", o[2] = ctx, Created(o) PROVE Created(o)'
      BY <1>1, <1>5, <3>1, NextVariant DEF Created
    <3>2. ASSUME NEW o \in Piped(ctx, v) PROVE Created(o)'
      <4>1. o[1] \in PartKinds /\ o[2] = ctx /\ o[3] = v
        BY PipedTags
      <4>2. \A i \in 1 .. Len(rest') : v # rest'[i]
        BY <1>1, <1>5, NextVariant DEF v
      <4> QED
        BY <1>1, <1>2, <4>1, <4>2 DEF Created, PartKinds, StorageKinds
    <3> QED
      BY <1>1, <1>3, <1>5, <3>1, <3>2, FreshGrows
  <2>6. Halfway'
    BY <1>1, <2>1 DEF IndInv, Halfway
  <2>7. Whole'
    <3>1. \A c \in Context : owns[c] \subseteq owns'[c]
      BY <2>1
    <3>2. \A c \in Context : \A w \in names'[c] : Piped(c, w) \subseteq owns'[c]
      BY <2>1, <2>2 DEF IndInv, Whole
    <3>3. \A c \in Context : status'[c] \in {"new", "gone"} => owns'[c] = {} /\ names'[c] = {}
      BY <1>1, <1>2, <2>1, <2>2 DEF IndInv, Whole
    <3>4. \A c \in Context : status'[c] = "ready" =>
           {SetLayout(c), CommandPool(c), Fence(c), DescriptorPool(c, 1)} \subseteq owns'[c]
      BY <1>1, <3>1 DEF IndInv, Whole
    <3> QED
      BY <1>1, <1>5, <3>2, <3>3, <3>4 DEF IndInv, Whole
  <2> QED
    BY <2>1, <2>3, <2>4, <2>5, <2>6, <2>7 DEF IndInv
<1>6. ASSUME NEW made \in SUBSET Piped(ctx, v),
             live' = live \cup made, lost' = lost \cup made, rest' = <<>>,
             owns' = owns, names' = names
      PROVE  IndInv'
  <2>1. /\ owns' \in [Context -> SUBSET live']
        /\ \A o \in live' : o[1] \in Object /\ (o[1] # "instance" => o[2] \in Context)
        /\ OwnsOwn' /\ OwnedOnce' /\ NothingElseLeaks'
    BY <1>1, <1>2, <1>3, <1>6, Forgets
  <2>3. Types'
    BY <1>1, <1>6, <2>1 DEF IndInv, Types
  <2>4. Variants'
    BY <1>6, NoVariants
  <2>5. Fresh'
    <3>1. 1 .. Len(rest') = {}
      BY <1>6
    <3>2. ASSUME NEW o \in live, o[1] # "instance", o[2] = ctx, Created(o) PROVE Created(o)'
      BY <1>1, <3>1, <3>2 DEF Created
    <3>3. ASSUME NEW o \in made PROVE Created(o)'
      <4>1. o[1] \in PartKinds /\ o[2] = ctx /\ o[3] = v
        BY PipedTags
      <4> QED
        BY <1>1, <1>2, <3>1, <4>1 DEF Created, PartKinds, StorageKinds
    <3> QED
      BY <1>1, <1>3, <1>6, <3>2, <3>3, FreshGrows
  <2>6. Halfway'
    BY <1>1, <1>6 DEF IndInv, Halfway
  <2>7. Whole'
    BY <1>1, <1>6, WholeGrows
  <2> QED
    BY <2>1, <2>3, <2>4, <2>5, <2>6, <2>7 DEF IndInv
<1> QED
  BY <1>4, <1>5, <1>6

LEMMA CreateCommandPoolInv ==
  ASSUME IndInv, CreateCommandPool
  PROVE  IndInv'
<1>1. CASE GiveUp({})
  BY <1>1, GiveUpInv DEF CreateCommandPool, New
<1>2. CASE ~GiveUp({})
  <2>1. /\ at = "compile" /\ rest = <<>> /\ todo = {}
        /\ live' = live \cup {CommandPool(ctx)} /\ loose' = loose \cup {CommandPool(ctx)}
        /\ at' = "command_buffer"
        /\ vk' = vk /\ lost' = lost /\ status' = status /\ owns' = owns
        /\ names' = names /\ held' = held /\ ctx' = ctx /\ todo' = todo /\ rest' = rest
    BY <1>2 DEF CreateCommandPool
  <2>2. CommandPool(ctx) \notin live /\ ctx \in Context
    BY <2>1, Tags DEF IndInv, Fresh, Created, Types
  <2>3. New({CommandPool(ctx)}, ctx)
    BY <2>2, Tags DEF New, Object
  <2>4. Types'
    <3>1. owns' \in [Context -> SUBSET live']
      BY <2>1 DEF IndInv, Types
    <3>2. \A o \in live' : o[1] \in Object /\ (o[1] # "instance" => o[2] \in Context)
      BY <2>1, <2>2, <2>3 DEF IndInv, Types, New
    <3> QED
      BY <2>1, <3>1, <3>2 DEF IndInv, Types
  <2>5. Variants'
    BY <2>1, NoVariants
  <2>6. Fresh'
    <3>1. ASSUME NEW o \in live, Created(o) PROVE Created(o)'
      BY <2>1, <3>1 DEF Created
    <3>2. Created(CommandPool(ctx))'
      BY <2>1, Tags DEF Created, PartKinds, StorageKinds
    <3> QED
      BY <2>1, <2>3, <3>1, <3>2, FreshGrows
  <2>7. HeldObjects' = HeldObjects
    BY <2>1, HeldSame
  <2>8. OwnsOwn' /\ OwnedOnce' /\ NothingElseLeaks'
    BY <2>1, <2>2, <2>7, LeaksPointwise DEF IndInv, OwnsOwn, OwnedOnce, Kept
  <2>9. Halfway'
    BY <2>1 DEF IndInv, Halfway
  <2>10. Whole'
    BY <2>1, WholeGrows
  <2> QED
    BY <2>4, <2>5, <2>6, <2>8, <2>9, <2>10 DEF IndInv
<1> QED
  BY <1>1, <1>2

LEMMA AllocateCommandBufferInv ==
  ASSUME IndInv, AllocateCommandBuffer
  PROVE  IndInv'
<1>1. CASE GiveUp({})
  BY <1>1, GiveUpInv DEF AllocateCommandBuffer, New
<1>2. CASE ~GiveUp({})
  <2>1. /\ at = "command_buffer" /\ at' = "fence"
        /\ vk' = vk /\ live' = live /\ lost' = lost /\ status' = status /\ owns' = owns
        /\ names' = names /\ held' = held /\ ctx' = ctx /\ todo' = todo /\ rest' = rest
        /\ loose' = loose
    BY <1>2 DEF AllocateCommandBuffer
  <2>2. rest = <<>>
    BY <2>1 DEF IndInv, Variants
  <2>3. New({}, ctx)
    BY DEF New
  <2>4. Types'
    BY <2>1 DEF IndInv, Types
  <2>5. Variants'
    BY <2>1, <2>2, NoVariants
  <2>6. Fresh'
    <3>1. ASSUME NEW o \in live, Created(o) PROVE Created(o)'
      BY <2>1, <3>1 DEF Created
    <3> QED
      BY <2>1, <2>3, <3>1, FreshGrows
  <2>7. HeldObjects' = HeldObjects
    BY <2>1, HeldSame
  <2>8. OwnsOwn' /\ OwnedOnce' /\ NothingElseLeaks'
    BY <2>1, <2>7, LeaksPointwise DEF IndInv, OwnsOwn, OwnedOnce, Kept
  <2>9. Halfway'
    BY <2>1 DEF IndInv, Halfway
  <2>10. Whole'
    BY <2>1, WholeGrows
  <2> QED
    BY <2>4, <2>5, <2>6, <2>8, <2>9, <2>10 DEF IndInv
<1> QED
  BY <1>1, <1>2

LEMMA CreateFenceInv ==
  ASSUME IndInv, CreateFence
  PROVE  IndInv'
<1>1. CASE GiveUp({})
  BY <1>1, GiveUpInv DEF CreateFence, New
<1>2. CASE ~GiveUp({})
  <2>1. /\ at = "fence"
        /\ live' = live \cup {Fence(ctx)}
        /\ owns' = [owns EXCEPT ![ctx] = owns[ctx] \cup {CommandPool(ctx), Fence(ctx)}]
        /\ loose' = {Device(ctx)} /\ at' = "descriptor_pool"
        /\ vk' = vk /\ lost' = lost /\ status' = status
        /\ names' = names /\ held' = held /\ ctx' = ctx /\ todo' = todo /\ rest' = rest
    BY <1>2 DEF CreateFence
  <2>2. /\ Fence(ctx) \notin live /\ ctx \in Context /\ status[ctx] = "building"
        /\ loose = {Device(ctx), CommandPool(ctx)} /\ rest = <<>>
        /\ SetLayout(ctx) \in owns[ctx]
    BY <2>1, Tags DEF IndInv, Fresh, Created, Types, Halfway, Variants
  <2>3. New({Fence(ctx)}, ctx)
    BY <2>2, Tags DEF New, Object
  <2>4. /\ owns'[ctx] = owns[ctx] \cup {CommandPool(ctx), Fence(ctx)}
        /\ \A d \in Context \ {ctx} : owns'[d] = owns[d]
    BY <2>1, <2>2 DEF IndInv, Types
  <2>5. CommandPool(ctx) \in live /\ Device(ctx) \in live /\ CommandPool(ctx) # Device(ctx)
    BY <2>2, Tags DEF IndInv, OwnedOnce
  <2>6. Types'
    <3>1. owns' \in [Context -> SUBSET live']
      BY <2>1, <2>4, <2>5 DEF IndInv, Types
    <3>2. \A o \in live' : o[1] \in Object /\ (o[1] # "instance" => o[2] \in Context)
      BY <2>1, <2>2, <2>3 DEF IndInv, Types, New
    <3> QED
      BY <2>1, <3>1, <3>2 DEF IndInv, Types
  <2>7. Variants'
    BY <2>1, <2>2, NoVariants
  <2>8. Fresh'
    <3>1. ASSUME NEW o \in live, Created(o) PROVE Created(o)'
      BY <2>1, <3>1 DEF Created
    <3>2. Created(Fence(ctx))'
      BY <2>1, Tags DEF Created, PartKinds, StorageKinds
    <3> QED
      BY <2>1, <2>3, <3>1, <3>2, FreshGrows
  <2>9. HeldObjects' = HeldObjects
    BY <2>1, HeldSame
  <2>10. OwnsOwn'
    BY <2>1, <2>2, <2>4, Tags DEF IndInv, OwnsOwn
  <2>11. OwnedOnce'
    <3>1. /\ CommandPool(ctx) \notin HeldObjects
          /\ \A d \in Context : CommandPool(ctx) \notin owns[d]
      BY <2>2 DEF IndInv, OwnedOnce
    <3>2. CommandPool(ctx) \notin lost
      BY <2>2 DEF IndInv, OwnsOwn
    <3> QED
      BY <2>1, <2>2, <2>4, <2>5, <2>9, <3>1, <3>2 DEF IndInv, OwnedOnce
  <2>12. NothingElseLeaks'
    BY <2>1, <2>2, <2>4, <2>9, LeaksPointwise DEF IndInv, Kept
  <2>13. Halfway'
    BY <2>1, <2>2, <2>4 DEF Halfway
  <2>14. Whole'
    BY <2>1, <2>2, <2>4, WholeGrows
  <2> QED
    BY <2>6, <2>7, <2>8, <2>10, <2>11, <2>12, <2>13, <2>14 DEF IndInv
<1> QED
  BY <1>1, <1>2

LEMMA CreateDescriptorPoolInv ==
  ASSUME IndInv, CreateDescriptorPool
  PROVE  IndInv'
<1> DEFINE pool == DescriptorPool(ctx, 1)
<1>1. /\ at = "descriptor_pool" /\ ctx \in Context /\ status[ctx] = "building"
      /\ loose = {Device(ctx)} /\ rest = <<>>
      /\ {SetLayout(ctx), CommandPool(ctx), Fence(ctx)} \subseteq owns[ctx]
  BY DEF CreateDescriptorPool, IndInv, Types, Halfway, Variants
<1>2. pool[1] = "descriptor_pool" /\ pool[2] = ctx
  BY Tags
<1> HIDE DEF pool
<1>3. pool \notin live
  BY <1>1, <1>2 DEF IndInv, Fresh, Created
<1>4. New({pool}, ctx) /\ New({}, ctx)
  BY <1>2, <1>3 DEF New, Object
<1>5. CASE GiveUp({}) \/ GiveUp({pool})
  BY <1>1, <1>4, <1>5, GiveUpInv
<1>6. CASE ~GiveUp({}) /\ ~GiveUp({pool})
  <2>1. /\ live' = live \cup {pool}
        /\ owns' = [owns EXCEPT ![ctx] = owns[ctx] \cup {pool}]
        /\ status' = [status EXCEPT ![ctx] = "ready"] /\ at' = "idle" /\ loose' = {}
        /\ vk' = vk /\ lost' = lost /\ names' = names /\ held' = held /\ ctx' = ctx
        /\ todo' = todo /\ rest' = rest
    BY <1>6 DEF CreateDescriptorPool, pool
  <2>2. loose' = loose \ {Device(ctx)}
    BY <1>1, <2>1
  <2>3. /\ owns' \in [Context -> SUBSET live'] /\ owns'[ctx] = owns[ctx] \cup {pool}
        /\ \A d \in Context \ {ctx} : owns'[d] = owns[d]
        /\ \A o \in live' : o[1] \in Object /\ (o[1] # "instance" => o[2] \in Context)
        /\ OwnsOwn' /\ OwnedOnce' /\ NothingElseLeaks'
    BY <1>1, <1>4, <2>1, <2>2, OwnsMore
  <2>4. status'[ctx] = "ready" /\ \A d \in Context \ {ctx} : status'[d] = status[d]
    BY <1>1, <2>1 DEF IndInv, Types
  <2>5. Types'
    BY <1>1, <2>1, <2>3, <2>4 DEF IndInv, Types
  <2>6. Variants'
    BY <1>1, <2>1, NoVariants
  <2>7. Fresh'
    <3>1. Instance # pool
      BY <1>2, Tags
    <3>2. \A o \in live' : o[1] # "instance" => status'[o[2]] # "new"
      BY <1>1, <1>2, <2>1, <2>3, <2>4 DEF IndInv, Fresh
    <3> QED
      BY <2>1, <3>1, <3>2 DEF IndInv, Fresh
  <2>8. Halfway'
    BY <2>1 DEF Halfway
  <2>9. Whole'
    <3>1. \A c \in Context : owns[c] \subseteq owns'[c]
      BY <2>3
    <3>2. \A c \in Context : status'[c] \in {"new", "gone"} => owns'[c] = {} /\ names'[c] = {}
      BY <2>1, <2>3, <2>4 DEF IndInv, Whole
    <3>3. \A c \in Context : status'[c] = "ready" =>
           {SetLayout(c), CommandPool(c), Fence(c), DescriptorPool(c, 1)} \subseteq owns'[c]
      BY <1>1, <2>3, <2>4 DEF IndInv, Whole, pool
    <3>4. \A c \in Context : status'[c] \in {"building", "ready"} =>
           {Instance, Device(c)} \subseteq live'
      BY <1>1, <2>1, <2>4 DEF IndInv, Whole
    <3> QED
      BY <2>1, <3>1, <3>2, <3>3, <3>4 DEF IndInv, Whole
  <2> QED
    BY <2>3, <2>5, <2>6, <2>7, <2>8, <2>9 DEF IndInv
<1> QED
  BY <1>5, <1>6

-----------------------------------------------------------------------------
(* A context in use *)

\* A call between constructors creates objects of a context that is ready.
LEMMA FreshIdle ==
  ASSUME IndInv, NEW c \in Context, status[c] = "ready", NEW made, New(made, c),
         live' \subseteq live \cup made, vk' = vk, status' = status, at' = "idle"
  PROVE  Fresh'
<1>1. Instance \notin made
  BY Tags DEF New
<1>2. \A o \in live' : o[1] # "instance" => status'[o[2]] # "new"
  BY DEF IndInv, Fresh, New
<1> QED
  BY <1>1, <1>2 DEF IndInv, Fresh

LEMMA GrowInv ==
  ASSUME IndInv, NEW c \in Context, Grow(c)
  PROVE  IndInv'
<1>1. /\ at = "idle" /\ status[c] = "ready"
      /\ vk' = vk /\ status' = status /\ names' = names /\ held' = held /\ ctx' = ctx
      /\ at' = at /\ todo' = todo /\ rest' = rest /\ loose' = loose
  BY DEF Grow, building
<1>2. PICK n \in 1 .. MaxPools \ Pools(c) :
        /\ live' = live \cup {DescriptorPool(c, n)}
        /\ \/ owns' = [owns EXCEPT ![c] = owns[c] \cup {DescriptorPool(c, n)}] /\ lost' = lost
           \/ lost' = lost \cup {DescriptorPool(c, n)} /\ owns' = owns
  BY DEF Grow
<1> DEFINE pool == DescriptorPool(c, n)
<1>3. pool \notin live
  BY <1>2 DEF Pools
<1>4. pool[1] = "descriptor_pool" /\ pool[2] = c
  BY Tags
<1> HIDE DEF pool
<1>5. New({pool}, c)
  BY <1>3, <1>4 DEF New, Object
<1>6. /\ owns' \in [Context -> SUBSET live']
      /\ \A o \in live' : o[1] \in Object /\ (o[1] # "instance" => o[2] \in Context)
      /\ OwnsOwn' /\ OwnedOnce' /\ NothingElseLeaks'
      /\ \A d \in Context : owns[d] \subseteq owns'[d]
      /\ \A d \in Context : status[d] \in {"new", "gone"} => owns'[d] = owns[d]
  <2>1. CASE owns' = [owns EXCEPT ![c] = owns[c] \cup {pool}] /\ lost' = lost
    <3>1. /\ owns' \in [Context -> SUBSET live'] /\ owns'[c] = owns[c] \cup {pool}
          /\ \A d \in Context \ {c} : owns'[d] = owns[d]
          /\ \A o \in live' : o[1] \in Object /\ (o[1] # "instance" => o[2] \in Context)
          /\ OwnsOwn' /\ OwnedOnce' /\ NothingElseLeaks'
      BY <1>1, <1>2, <1>5, <2>1, OwnsMore DEF pool
    <3> QED
      BY <1>1, <3>1
  <2>2. CASE lost' = lost \cup {pool} /\ owns' = owns
    BY <1>1, <1>2, <1>5, <2>2, Forgets DEF pool
  <2> QED
    BY <1>2, <2>1, <2>2 DEF pool
<1>7. Types'
  BY <1>1, <1>6 DEF IndInv, Types
<1>8. Variants'
  BY <1>1 DEF IndInv, Variants
<1>9. Fresh'
  BY <1>1, <1>2, <1>5, FreshIdle DEF pool
<1>10. Halfway'
  BY <1>1 DEF IndInv, Halfway
<1>11. Whole'
  BY <1>1, <1>2, <1>6, WholeGrows
<1> QED
  BY <1>6, <1>7, <1>8, <1>9, <1>10, <1>11 DEF IndInv

\* What is stored is no device, no part of an engine.
LEMMA NewStorage ==
  ASSUME NEW c, NEW t, Stored(c, t) \cap live = {}, NEW made \in SUBSET Stored(c, t)
  PROVE  New(made, c)
<1>1. \A o \in Stored(c, t) : o[1] \in StorageKinds /\ o[2] = c
  BY StoredTags
<1> QED
  BY <1>1 DEF New, StorageKinds, Object

LEMMA AllocInv ==
  ASSUME IndInv, NEW c \in Context, NEW t \in Tensor, Alloc(c, t)
  PROVE  IndInv'
<1>1. /\ at = "idle" /\ status[c] = "ready"
      /\ vk' = vk /\ status' = status /\ names' = names /\ ctx' = ctx /\ owns' = owns
      /\ at' = at /\ todo' = todo /\ rest' = rest /\ loose' = loose
  BY DEF Alloc, building
<1>2. Stored(c, t) \cap live = {}
  BY StorageObjects DEF Alloc
<1>3. PICK made \in SUBSET Stored(c, t) :
        /\ live' = live \cup made
        /\ \/ made = Stored(c, t) /\ held' = held \cup {<<c, t>>} /\ lost' = lost
           \/ lost' = lost \cup made /\ held' = held
  BY StorageObjects DEF Alloc
<1>4. New(made, c) /\ made \cap live = {}
  BY <1>2, NewStorage
<1>5. /\ owns' \in [Context -> SUBSET live'] /\ held' \subseteq Context \X Tensor
      /\ \A o \in live' : o[1] \in Object /\ (o[1] # "instance" => o[2] \in Context)
  <2>1. owns' \in [Context -> SUBSET live']
    BY <1>1, <1>3 DEF IndInv, Types
  <2>2. held' \subseteq Context \X Tensor
    <3>1. <<c, t>> \in Context \X Tensor
      OBVIOUS
    <3> QED
      BY <1>3, <3>1 DEF IndInv, Types
  <2>3. \A o \in live' : o[1] \in Object /\ (o[1] # "instance" => o[2] \in Context)
    BY <1>3, <1>4 DEF IndInv, Types, New
  <2> QED
    BY <2>1, <2>2, <2>3
<1>6. OwnsOwn' /\ OwnedOnce' /\ NothingElseLeaks'
  <2>1. CASE made = Stored(c, t) /\ held' = held \cup {<<c, t>>} /\ lost' = lost
    <3>1. HeldObjects' = HeldObjects \cup made
      BY <2>1, HeldGrows
    <3> QED
      BY <1>1, <1>3, <1>4, <2>1, <3>1, LeaksPointwise DEF IndInv, OwnsOwn, OwnedOnce, Kept
  <2>2. CASE lost' = lost \cup made /\ held' = held
    BY <1>1, <1>3, <1>4, <2>2, Forgets
  <2> QED
    BY <1>3, <2>1, <2>2
<1>7. Types'
  BY <1>1, <1>5 DEF IndInv, Types
<1>8. Variants'
  BY <1>1 DEF IndInv, Variants
<1>9. Fresh'
  BY <1>1, <1>3, <1>4, FreshIdle
<1>10. Halfway'
  BY <1>1 DEF IndInv, Halfway
<1>11. Whole'
  <2>1. \A h \in held' : {Instance, Device(h[1])} \subseteq live'
    <3>1. {Instance, Device(c)} \subseteq live
      BY <1>1 DEF IndInv, Whole
    <3>2. \A h \in held' : h \in held \/ h[1] = c
      BY <1>3
    <3> QED
      BY <1>3, <3>1, <3>2 DEF IndInv, Whole
  <2> QED
    BY <1>1, <1>3, <2>1 DEF IndInv, Whole
<1> QED
  BY <1>6, <1>7, <1>8, <1>9, <1>10, <1>11 DEF IndInv

\* A buffer that a caller holds is stored, owned by no engine and not lost.
LEMMA HeldApart ==
  ASSUME IndInv, NEW c, NEW t, <<c, t>> \in held
  PROVE  /\ Stored(c, t) \subseteq HeldObjects /\ Stored(c, t) \subseteq live
         /\ Stored(c, t) \cap (loose \cup lost) = {}
         /\ \A d \in Context : Stored(c, t) \cap owns[d] = {}
<1>1. Stored(<<c, t>>[1], <<c, t>>[2]) = Stored(c, t)
  OBVIOUS
<1>2. Stored(c, t) \subseteq HeldObjects
  BY <1>1, HeldMembers
<1> QED
  BY <1>2 DEF IndInv, OwnedOnce

\* What is not stored stays when a buffer goes.
LEMMA NotStored ==
  ASSUME NEW c, NEW t
  PROVE  /\ Instance \notin Stored(c, t)
         /\ \A d : Device(d) \notin Stored(c, t) /\ SetLayout(d) \notin Stored(c, t)
         /\ \A d : CommandPool(d) \notin Stored(c, t) /\ Fence(d) \notin Stored(c, t)
         /\ \A d, n : DescriptorPool(d, n) \notin Stored(c, t)
         /\ \A d, v : Piped(d, v) \cap Stored(c, t) = {}
<1>1. \A o \in Stored(c, t) : o[1] \in StorageKinds
  BY StoredTags
<1>2. \A d, v : \A o \in Piped(d, v) : o[1] \in PartKinds
  BY PipedTags
<1>3. PartKinds \cap StorageKinds = {}
  BY DEF PartKinds, StorageKinds
<1>4. \A d, v : Piped(d, v) \cap Stored(c, t) = {}
  BY <1>1, <1>2, <1>3
<1>5. \A k \in {"instance", "device", "set_layout", "command_pool", "fence", "descriptor_pool"} :
        k \notin StorageKinds
  BY DEF StorageKinds
<1> QED
  BY <1>1, <1>4, <1>5, Tags

LEMMA FreeInv ==
  ASSUME IndInv, NEW c \in Context, NEW t \in Tensor, Free(c, t)
  PROVE  IndInv'
<1>1. /\ at = "idle" /\ <<c, t>> \in held
      /\ live' = live \ Stored(c, t) /\ held' = held \ {<<c, t>>}
      /\ vk' = vk /\ status' = status /\ names' = names /\ ctx' = ctx /\ owns' = owns
      /\ lost' = lost /\ at' = at /\ todo' = todo /\ rest' = rest /\ loose' = loose
  BY StorageObjects DEF Free, building
<1>2. /\ Stored(c, t) \subseteq HeldObjects
      /\ Stored(c, t) \cap (loose \cup lost) = {}
      /\ \A d \in Context : Stored(c, t) \cap owns[d] = {}
  BY <1>1, HeldApart
<1>3. HeldObjects' = HeldObjects \ Stored(c, t)
  BY <1>1, HeldShrinks DEF IndInv, Types
<1>4. owns' \in [Context -> SUBSET live']
  BY <1>1, <1>2 DEF IndInv, Types
<1>5. Types'
  BY <1>1, <1>4 DEF IndInv, Types
<1>6. Variants' /\ Fresh' /\ OwnsOwn' /\ Halfway'
  BY <1>1 DEF IndInv, Variants, Fresh, OwnsOwn, Halfway
<1>7. OwnedOnce' /\ NothingElseLeaks'
  BY <1>1, <1>2, <1>3, LeaksPointwise DEF IndInv, OwnedOnce, Kept
<1>8. Whole'
  <2>1. Instance \notin Stored(c, t) /\ \A d : Device(d) \notin Stored(c, t)
    BY NotStored
  <2> QED
    BY <1>1, <2>1 DEF IndInv, Whole
<1> QED
  BY <1>5, <1>6, <1>7, <1>8 DEF IndInv

LEMMA ReturnToPoolInv ==
  ASSUME IndInv, NEW c \in Context, NEW t \in Tensor, ReturnToPool(c, t)
  PROVE  IndInv'
<1>1. /\ at = "idle" /\ status[c] = "ready" /\ <<c, t>> \in held
      /\ owns' = [owns EXCEPT ![c] = owns[c] \cup Stored(c, t)] /\ held' = held \ {<<c, t>>}
      /\ vk' = vk /\ status' = status /\ names' = names /\ ctx' = ctx /\ live' = live
      /\ lost' = lost /\ at' = at /\ todo' = todo /\ rest' = rest /\ loose' = loose
  BY StorageObjects DEF ReturnToPool, building
<1>2. /\ Stored(c, t) \subseteq HeldObjects /\ Stored(c, t) \subseteq live
      /\ Stored(c, t) \cap (loose \cup lost) = {}
      /\ \A d \in Context : Stored(c, t) \cap owns[d] = {}
  BY <1>1, HeldApart
<1>3. HeldObjects' = HeldObjects \ Stored(c, t)
  BY <1>1, HeldShrinks DEF IndInv, Types
<1>4. /\ owns'[c] = owns[c] \cup Stored(c, t) /\ \A d \in Context \ {c} : owns'[d] = owns[d]
      /\ owns' \in [Context -> SUBSET live']
  BY <1>1, <1>2 DEF IndInv, Types
<1>5. Types'
  BY <1>1, <1>4 DEF IndInv, Types
<1>6. Variants' /\ Fresh' /\ Halfway'
  BY <1>1 DEF IndInv, Variants, Fresh, Halfway
<1>7. OwnsOwn'
  <2>1. \A o \in Stored(c, t) : o[1] \notin {"instance", "device"} /\ o[2] = c
    BY StoredTags DEF StorageKinds
  <2> QED
    BY <1>1, <1>4, <2>1 DEF IndInv, OwnsOwn
<1>8. OwnedOnce' /\ NothingElseLeaks'
  BY <1>1, <1>2, <1>3, <1>4, LeaksPointwise DEF IndInv, OwnedOnce, Kept
<1>9. Whole'
  BY <1>1, <1>4 DEF IndInv, Whole
<1> QED
  BY <1>5, <1>6, <1>7, <1>8, <1>9 DEF IndInv

LEMMA TakeFromPoolInv ==
  ASSUME IndInv, NEW c \in Context, NEW t \in Tensor, TakeFromPool(c, t)
  PROVE  IndInv'
<1>1. /\ at = "idle" /\ status[c] = "ready" /\ Stored(c, t) \subseteq owns[c]
      /\ owns' = [owns EXCEPT ![c] = owns[c] \ Stored(c, t)] /\ held' = held \cup {<<c, t>>}
      /\ vk' = vk /\ status' = status /\ names' = names /\ ctx' = ctx /\ live' = live
      /\ lost' = lost /\ at' = at /\ todo' = todo /\ rest' = rest /\ loose' = loose
  BY StorageObjects DEF TakeFromPool, building
<1>3. HeldObjects' = HeldObjects \cup Stored(c, t)
  BY <1>1, HeldGrows
<1>4. /\ owns'[c] = owns[c] \ Stored(c, t) /\ \A d \in Context \ {c} : owns'[d] = owns[d]
      /\ owns' \in [Context -> SUBSET live'] /\ <<c, t>> \in Context \X Tensor
  BY <1>1 DEF IndInv, Types
<1>5. Types'
  <2>1. held' \subseteq Context \X Tensor
    BY <1>1, <1>4 DEF IndInv, Types
  <2> QED
    BY <1>1, <1>4, <2>1 DEF IndInv, Types
<1>6. Variants' /\ Fresh' /\ Halfway'
  BY <1>1 DEF IndInv, Variants, Fresh, Halfway
<1>7. OwnsOwn'
  BY <1>1, <1>4 DEF IndInv, OwnsOwn
<1>8. OwnedOnce' /\ NothingElseLeaks'
  BY <1>1, <1>3, <1>4, LeaksPointwise DEF IndInv, OwnedOnce, Kept
<1>9. Whole'
  <2>1. \A h \in held' : {Instance, Device(h[1])} \subseteq live'
    <3>1. {Instance, Device(c)} \subseteq live
      BY <1>1 DEF IndInv, Whole
    <3>2. \A h \in held' : h \in held \/ h[1] = c
      BY <1>1
    <3> QED
      BY <1>1, <3>1, <3>2 DEF IndInv, Whole
  <2>2. \A d \in Context : status'[d] = "ready" =>
         {SetLayout(d), CommandPool(d), Fence(d), DescriptorPool(d, 1)} \subseteq owns'[d]
    BY <1>1, <1>4, NotStored DEF IndInv, Whole
  <2>3. \A d \in Context : \A v \in names'[d] : Piped(d, v) \subseteq owns'[d]
    BY <1>1, <1>4, NotStored DEF IndInv, Whole
  <2> QED
    BY <1>1, <1>4, <2>1, <2>2, <2>3 DEF IndInv, Whole
<1> QED
  BY <1>5, <1>6, <1>7, <1>8, <1>9 DEF IndInv

-----------------------------------------------------------------------------
(* The instance and the devices *)

\* The instance is made once, and is there when it is found.
LEMMA StateFound ==
  ASSUME IndInv, NEW s \in GetState
  PROVE  /\ s.is \in {"none", "some"}
         /\ s.made \subseteq {Instance} /\ s.made \cap live = {}
         /\ s.forgotten \subseteq s.made
         /\ s.is = "some" => Instance \in live \cup s.made
<1>1. CASE vk # "unset"
  <2>1. s = [is |-> vk, made |-> {}, forgotten |-> {}]
    BY <1>1 DEF GetState
  <2> QED
    BY <1>1, <2>1 DEF IndInv, Types, Whole
<1>2. CASE vk = "unset"
  <2>1. s \in {[is |-> "none", made |-> {}, forgotten |-> {}],
               [is |-> "none", made |-> {Instance}, forgotten |-> {Instance}],
               [is |-> "some", made |-> {Instance}, forgotten |-> {}]}
    BY <1>2 DEF GetState
  <2>2. Instance \notin live
    BY <1>2 DEF IndInv, Fresh
  <2> QED
    BY <2>1, <2>2
<1> QED
  BY <1>1, <1>2

\* It joins what exists, forgotten or not.
LEMMA InstanceJoins ==
  ASSUME IndInv, at = "idle", NEW s \in GetState, vk' = s.is, live' = live \cup s.made,
         lost' = lost \cup s.forgotten, owns' = owns, names' = names, held' = held,
         ctx' = ctx, at' = at, todo' = todo, rest' = rest, loose' = loose,
         status' \in [Context -> {"new", "building", "ready", "gone"}],
         \A d \in Context : status'[d] = status[d] \/ (status[d] = "new" /\ status'[d] = "gone")
  PROVE  IndInv'
<1>1. /\ s.is \in {"none", "some"}
      /\ s.made \subseteq {Instance} /\ s.made \cap live = {}
      /\ s.forgotten \subseteq s.made
      /\ s.is = "some" => Instance \in live'
  BY StateFound
<1>2. /\ owns' \in [Context -> SUBSET live'] /\ "instance" \in Object
      /\ \A o \in live' : o \in live \/ o = Instance
  BY <1>1 DEF IndInv, Types, Object
<1>3. Types'
  <2>1. \A o \in live' : o[1] \in Object /\ (o[1] # "instance" => o[2] \in Context)
    <3>1. Instance[1] = "instance"
      BY Tags
    <3>2. \A o \in live : o[1] \in Object /\ (o[1] # "instance" => o[2] \in Context)
      BY DEF IndInv, Types
    <3> QED
      BY <1>2, <3>1, <3>2
  <2>2. \A c \in Context : status'[c] = "building" <=> status[c] = "building"
    OBVIOUS
  <2> QED
    BY <1>1, <1>2, <2>1, <2>2 DEF IndInv, Types
<1>4. Variants' /\ Halfway'
  BY DEF IndInv, Variants, Halfway
<1>5. Fresh'
  <2>1. \A o \in live' : o[1] # "instance" => status'[o[2]] # "new"
    <3>1. SUFFICES ASSUME NEW o \in live', o[1] # "instance" PROVE status'[o[2]] # "new"
      OBVIOUS
    <3>2. o \in live /\ o[2] \in Context /\ status[o[2]] # "new"
      BY <1>2, <3>1, Tags DEF IndInv, Types, Fresh
    <3> QED
      BY <3>2
  <2> QED
    BY <1>1, <2>1 DEF Fresh
<1>6. OwnsOwn'
  BY DEF IndInv, OwnsOwn, Halfway
<1>7. HeldObjects' = HeldObjects
  BY HeldSame
<1>8. OwnedOnce' /\ NothingElseLeaks'
  BY <1>1, <1>7, LeaksPointwise DEF IndInv, OwnedOnce, Kept
<1>9. Whole'
  <2>1. \A d \in Context : status'[d] \in {"new", "gone"} => status[d] \in {"new", "gone"}
    OBVIOUS
  <2>2. \A d \in Context : status'[d] \in {"building", "ready"} => status'[d] = status[d]
    OBVIOUS
  <2> QED
    BY <1>1, <2>1, <2>2 DEF IndInv, Whole
<1> QED
  BY <1>3, <1>4, <1>5, <1>6, <1>8, <1>9 DEF IndInv

LEMMA QueryInv ==
  ASSUME IndInv, Query
  PROVE  IndInv'
<1>1. PICK s \in GetState :
        vk' = s.is /\ live' = live \cup s.made /\ lost' = lost \cup s.forgotten
  BY DEF Query
<1>2. /\ at = "idle" /\ status' = status /\ owns' = owns /\ names' = names /\ held' = held
      /\ ctx' = ctx /\ at' = at /\ todo' = todo /\ rest' = rest /\ loose' = loose
  BY DEF Query, building
<1>3. status' \in [Context -> {"new", "building", "ready", "gone"}]
  BY <1>2 DEF IndInv, Types
<1> QED
  BY <1>1, <1>2, <1>3, InstanceJoins

LEMMA CreateDeviceInv ==
  ASSUME IndInv, NEW c \in Context, CreateDevice(c)
  PROVE  IndInv'
<1>1. /\ at = "idle" /\ status[c] = "new" /\ owns' = owns /\ names' = names /\ held' = held
      /\ todo' = todo /\ rest' = rest
  BY DEF CreateDevice
<1>2. PICK s \in GetState :
        /\ vk' = s.is /\ lost' = lost \cup s.forgotten
        /\ \/ /\ live' = live \cup s.made
              /\ status' = [status EXCEPT ![c] = "gone"]
              /\ ctx' = ctx /\ at' = at /\ loose' = loose
           \/ /\ s.is = "some" /\ live' = live \cup s.made \cup {Device(c)}
              /\ status' = [status EXCEPT ![c] = "building"]
              /\ ctx' = c /\ at' = "set_layout" /\ loose' = {Device(c)}
  BY DEF CreateDevice
<1>3. CASE /\ live' = live \cup s.made
           /\ status' = [status EXCEPT ![c] = "gone"]
           /\ ctx' = ctx /\ at' = at /\ loose' = loose
  <2>1. /\ status' \in [Context -> {"new", "building", "ready", "gone"}]
        /\ \A d \in Context : status'[d] = status[d] \/ (status[d] = "new" /\ status'[d] = "gone")
    BY <1>1, <1>3 DEF IndInv, Types
  <2> QED
    BY <1>1, <1>2, <1>3, <2>1, InstanceJoins
<1>4. CASE /\ s.is = "some" /\ live' = live \cup s.made \cup {Device(c)}
           /\ status' = [status EXCEPT ![c] = "building"]
           /\ ctx' = c /\ at' = "set_layout" /\ loose' = {Device(c)}
  <2>1. /\ s.made \subseteq {Instance} /\ s.made \cap live = {} /\ s.forgotten \subseteq s.made
        /\ Instance \in live'
    BY <1>4, StateFound
  <2>2. /\ status'[c] = "building" /\ \A d \in Context \ {c} : status'[d] = status[d]
        /\ status' \in [Context -> {"new", "building", "ready", "gone"}]
    BY <1>4 DEF IndInv, Types
  <2>3. /\ Device(c)[1] = "device" /\ Device(c)[2] = c /\ Device(c) # Instance
        /\ Device(c) \notin live
    BY <1>1, Tags DEF IndInv, Fresh
  <2>4. \A o \in live' : o \in live \/ o = Instance \/ o = Device(c)
    BY <1>4, <2>1
  <2>5. rest = <<>> /\ loose = {} /\ owns[c] = {} /\ names[c] = {}
    BY <1>1 DEF IndInv, Variants, Halfway, Whole
  <2>6. Types'
    <3>1. owns' \in [Context -> SUBSET live']
      BY <1>1, <1>4 DEF IndInv, Types
    <3>2. \A o \in live' : o[1] \in Object /\ (o[1] # "instance" => o[2] \in Context)
      <4>1. "instance" \in Object /\ "device" \in Object
        BY DEF Object
      <4>2. Instance[1] = "instance"
        BY Tags
      <4>3. \A o \in live : o[1] \in Object /\ (o[1] # "instance" => o[2] \in Context)
        BY DEF IndInv, Types
      <4> QED
        BY <2>3, <2>4, <4>1, <4>2, <4>3
    <3>3. \A d \in Context : status'[d] = "building" <=> at' # "idle" /\ d = ctx'
      BY <1>1, <1>4, <2>2 DEF IndInv, Types
    <3> QED
      BY <1>1, <1>2, <1>4, <2>2, <3>1, <3>2, <3>3 DEF IndInv, Types
  <2>7. Variants'
    BY <1>1, <2>5, NoVariants
  <2>8. Fresh'
    <3>1. ASSUME NEW o \in live', o[1] # "instance" PROVE status'[o[2]] # "new"
      <4>1. CASE o \in live
        BY <2>2, <3>1, <4>1 DEF IndInv, Fresh, Types
      <4>2. CASE o = Device(c)
        BY <2>2, <2>3, <4>2
      <4> QED
        BY <2>4, <3>1, <4>1, <4>2, Tags
    <3>2. ASSUME NEW o \in live', o[1] # "instance", o[2] = c PROVE Created(o)'
      <4>1. o \notin live
        BY <1>1, <3>2 DEF IndInv, Fresh
      <4>2. o = Device(c)
        BY <2>4, <3>2, <4>1, Tags
      <4> QED
        BY <2>3, <4>2 DEF Created, PartKinds, StorageKinds
    <3> QED
      BY <1>2, <1>4, <2>1, <3>1, <3>2 DEF Fresh, Created
  <2>9. OwnsOwn'
    <3>1. Device(c) \notin lost'
      BY <1>2, <2>1, <2>3 DEF IndInv, OwnedOnce
    <3> QED
      BY <1>1, <1>4, <3>1 DEF IndInv, OwnsOwn
  <2>10. HeldObjects' = HeldObjects
    BY <1>1, HeldSame
  <2>11. OwnedOnce'
    BY <1>1, <1>2, <1>4, <2>1, <2>3, <2>10 DEF IndInv, OwnedOnce
  <2>12. NothingElseLeaks'
    BY <1>1, <1>2, <1>4, <2>1, <2>5, <2>10, LeaksPointwise DEF IndInv, Kept
  <2>13. Halfway'
    BY <1>1, <1>4, <2>5 DEF Halfway
  <2>14. Whole'
    BY <1>1, <1>4, <2>1, <2>2 DEF IndInv, Whole
  <2> QED
    BY <2>6, <2>7, <2>8, <2>9, <2>11, <2>12, <2>13, <2>14 DEF IndInv
<1> QED
  BY <1>2, <1>3, <1>4

-----------------------------------------------------------------------------
(* The theorems *)

LEMMA InitInv ==
  ASSUME Init
  PROVE  IndInv
<1>1. HeldObjects = {}
  BY HeldMembers DEF Init
<1>2. Types /\ Fresh /\ OwnsOwn /\ Halfway /\ Whole
  BY DEF Init, Types, Fresh, OwnsOwn, Halfway, Whole
<1>3. Variants
  <2>1. \A S : <<>> \in Seq(S)
    OBVIOUS
  <2>2. 1 .. Len(<<>>) = {}
    OBVIOUS
  <2> QED
    BY <2>1, <2>2 DEF Init, Variants
<1>4. OwnedOnce /\ NothingElseLeaks
  BY <1>1, LeaksPointwise DEF Init, OwnedOnce
<1> QED
  BY <1>2, <1>3, <1>4 DEF IndInv

LEMMA NextInv ==
  ASSUME IndInv, [Next]_vars
  PROVE  IndInv'
<1>1. CASE Query
  BY <1>1, QueryInv
<1>2. CASE Construct
  BY <1>2, CreateSetLayoutInv, NextShaderInv, CompileInv, CreateCommandPoolInv,
     AllocateCommandBufferInv, CreateFenceInv, CreateDescriptorPoolInv DEF Construct
<1>3. ASSUME NEW c \in Context, CreateDevice(c) PROVE IndInv'
  BY <1>3, CreateDeviceInv
<1>4. ASSUME NEW c \in Context, Use(c) PROVE IndInv'
  BY <1>4, GrowInv, DropContextInv, AllocInv, FreeInv, ReturnToPoolInv, TakeFromPoolInv DEF Use
<1>5. CASE UNCHANGED vars
  <2>1. /\ vk' = vk /\ live' = live /\ lost' = lost /\ status' = status /\ owns' = owns
        /\ names' = names /\ held' = held /\ ctx' = ctx /\ at' = at /\ todo' = todo
        /\ rest' = rest /\ loose' = loose
    BY <1>5 DEF vars, building
  <2>2. HeldObjects' = HeldObjects
    BY <2>1, HeldSame
  <2>3. OwnedOnce' /\ NothingElseLeaks'
    BY <2>1, <2>2, LeaksPointwise DEF IndInv, OwnedOnce, Kept
  <2>4. Types' /\ Variants' /\ Fresh' /\ OwnsOwn' /\ Halfway' /\ Whole'
    <3>1. Types' /\ Variants' /\ OwnsOwn' /\ Halfway' /\ Whole'
      <4>1. Types' /\ Variants'
        BY <2>1 DEF IndInv, Types, Variants
      <4>2. OwnsOwn' /\ Halfway'
        BY <2>1 DEF IndInv, OwnsOwn, Halfway
      <4>3. Whole'
        BY <2>1, WholeGrows
      <4> QED
        BY <4>1, <4>2, <4>3
    <3>2. \A o : Created(o) <=> Created(o)'
      BY <2>1 DEF Created
    <3>3. Fresh'
      BY <2>1, <3>2 DEF IndInv, Fresh, Created
    <3> QED
      BY <3>1, <3>3
  <2> QED
    BY <2>3, <2>4 DEF IndInv
<1> QED
  BY <1>1, <1>2, <1>3, <1>4, <1>5 DEF Next

LEMMA Inductive == Spec => []IndInv
BY InitInv, NextInv, PTL DEF Spec

\* Every variable keeps its type, every object its kind, and the context whose
\* constructor runs is the only one under construction.
THEOREM TypeCorrect == Spec => []TypeOK
<1>1. IndInv => TypeOK
  BY DEF IndInv, Types, TypeOK
<1> QED
  BY <1>1, Inductive, PTL

\* Every object has at most one owner, which is there to destroy it: nothing is
\* destroyed twice, and what a failed call forgot is never touched again.
THEOREM Ownership == Spec => []OwnedOnce
<1>1. IndInv => OwnedOnce
  BY DEF IndInv
<1> QED
  BY <1>1, Inductive, PTL

\* A failing call or a drop leaves nothing behind but the instance, the devices and
\* what the failing call had in hand.
THEOREM NoOtherLeaks == Spec => []NothingElseLeaks
<1>1. IndInv => NothingElseLeaks
  BY DEF IndInv
<1> QED
  BY <1>1, Inductive, PTL

\* A context that was returned, the pipelines it can dispatch and the tensors that
\* callers hold are there in full, the tensors also after their context is gone.
THEOREM UsableWhole == Spec => []UsableIsWhole
<1>1. ASSUME IndInv PROVE UsableIsWhole
  <2>1. ASSUME NEW c \in Context, status[c] = "ready"
        PROVE  /\ {Instance, Device(c), SetLayout(c), CommandPool(c), Fence(c)} \subseteq live
               /\ Pools(c) # {}
               /\ \A v \in names[c] : First(3, Parts(c, v)) \subseteq live
    <3>1. owns[c] \subseteq live
      BY <1>1 DEF IndInv, OwnedOnce
    <3>2. /\ {SetLayout(c), CommandPool(c), Fence(c), DescriptorPool(c, 1)} \subseteq owns[c]
          /\ {Instance, Device(c)} \subseteq live
          /\ \A v \in names[c] : Piped(c, v) \subseteq owns[c]
      BY <1>1, <2>1 DEF IndInv, Whole
    <3>3. 1 \in 1 .. MaxPools
      BY LifecycleAssumption
    <3>4. Pools(c) # {}
      BY <3>1, <3>2, <3>3 DEF Pools
    <3>5. \A v \in names[c] : First(3, Parts(c, v)) \subseteq live
      BY <3>1, <3>2, PartObjects
    <3> QED
      BY <3>1, <3>2, <3>4, <3>5
  <2>2. ASSUME NEW h \in held
        PROVE  {Instance, Device(h[1])} \cup First(2, Storage(h[1], h[2])) \subseteq live
    <3>1. First(2, Storage(h[1], h[2])) = Stored(h[1], h[2])
      BY StorageObjects
    <3>2. Stored(h[1], h[2]) \subseteq HeldObjects
      BY HeldMembers
    <3>3. HeldObjects \subseteq live /\ {Instance, Device(h[1])} \subseteq live
      BY <1>1 DEF IndInv, OwnedOnce, Whole
    <3> QED
      BY <3>1, <3>2, <3>3
  <2> QED
    BY <2>1, <2>2 DEF UsableIsWhole
<1> QED
  BY <1>1, Inductive, PTL

=============================================================================
