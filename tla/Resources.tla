----------------------------- MODULE Resources ------------------------------
(***************************************************************************)
(* Resources, voice definitions, voices and the engine of one Pico system: *)
(* the system-level API (picoapi.c) on the resource manager (picorsrc.c)   *)
(* and the creation and disposal of engines (picoctrl.c).                  *)
(*                                                                         *)
(* An API call is one step: system-level functions "must be called in a    *)
(* mutually exclusive fashion" (picoapi.h).  Objects are members of Rsrc,  *)
(* Voice and Vdef, which stand for their addresses: a disposed resource's  *)
(* address may be used again.  What an object in a free list still holds   *)
(* is left out: it is initialised before it is used.  The application      *)
(* keeps the resource handles it was given and passes no others.           *)
(***************************************************************************)
EXTENDS Integers, Sequences, FiniteSets, Functions

CONSTANTS
  Rsrc, Voice, Vdef,  \* addresses of resources, voices, voice definitions
  RName,              \* resource names that fit PICORSRC_MAX_RSRC_NAME_SIZ
  LongRName,          \* resource names that do not
  VName, LongVName,   \* the same for voice names
  DefaultName,        \* PICOKNOW_DEFAULT_RESOURCE_NAME
  Trunc,              \* what picoos_strlcpy makes of a resource name
  MaxResources,       \* PICO_MAX_NUM_RESOURCES
  MaxVdefs,           \* PICO_MAX_NUM_VOICE_DEFINITIONS
  MaxPerVoice,        \* PICO_MAX_NUM_RSRC_PER_VOICE
  MaxVoices,          \* PICORSRC_MAX_NUM_VOICES
  None                \* NULL

ASSUME LimitsAssumption ==
  /\ MaxPerVoice \in 1 .. 127
  /\ MaxResources \in Nat /\ MaxVdefs \in Nat /\ MaxVoices \in Nat
ASSUME NamesAssumption ==
  /\ DefaultName \in RName
  /\ Trunc \in [RName \cup LongRName -> RName]
  /\ \A n \in RName : Trunc[n] = n
ASSUME NoneAssumption == None \notin Rsrc \cup Voice \cup Vdef

VARIABLES
  up,           \* is there a system handle?
  resources,    \* this->resources, the list of loaded resources
  numResources, \* this->numResources
  name,         \* name of each resource
  lockCount,    \* "count of current subscribers of this resource", an int8
  openFiles,    \* resources whose file is open
  orphanFile,   \* is a file open that no resource refers to?
  vdefs,        \* this->vdefs, the list of voice definitions
  freeVdefs,    \* this->freeVdefs
  numVdefs,     \* this->numVdefs
  vdefName, vdefRsrcs,  \* voiceName and resourceName[] of each definition
  lostVdefs,    \* voice definitions in neither list
  mapped,       \* history: the resource names added to each by calls that succeeded
  freeVoices,   \* this->freeVoices
  numVoices,    \* this->numVoices
  voiceRsrcs,   \* resourceArray[] of each voice
  engine,       \* system->engine: its voice, or None
  handles,      \* resource handles the application has
  status        \* status of the last call

rsrcVars == << resources, numResources, name, openFiles, orphanFile, handles >>
vdefVars == << vdefs, freeVdefs, numVdefs, vdefName, vdefRsrcs, lostVdefs, mapped >>
voiceVars == << lockCount, freeVoices, numVoices, voiceRsrcs, engine >>
rmVars == << up, rsrcVars, vdefVars, voiceVars, status >>

Loaded == Range(resources)

\* findResource, findVoiceDefinition: the node with that name.  The code takes
\* the first; there is never a second (NamesUnique).
Find(list, names, n) ==
  IF \E i \in DOMAIN list : names[list[i]] = n
  THEN list[CHOOSE i \in DOMAIN list : names[list[i]] = n]
  ELSE None

IsLoaded(n) == Find(resources, name, n) # None

\* A list without its i-th node: the node before it (or the manager) now
\* points to the node after it.
Skip(list, i) == [j \in 1 .. Len(list) - 1 |-> IF j < i THEN list[j] ELSE list[j + 1]]
Unlink(list, x) == Skip(list, CHOOSE i \in DOMAIN list : list[i] = x)

Count(r, s) == Cardinality({i \in DOMAIN s : s[i] = r})

I8(n) == ((n + 128) % 256) - 128

-----------------------------------------------------------------------------
(* pico_initialize and picorsrc_createDefaultResource, whose failure is     *)
(* ignored: then there is no default resource.                              *)
InitWith(withDefault, d) ==
  /\ up = TRUE
  /\ resources = IF withDefault THEN << d >> ELSE << >>
  /\ numResources = Len(resources)
  /\ name = [r \in Rsrc |-> IF withDefault /\ r = d THEN DefaultName ELSE None]
  /\ lockCount = [r \in Rsrc |-> 0]
  /\ openFiles = {}
  /\ vdefs = << >> /\ freeVdefs = << >> /\ numVdefs = 0 /\ lostVdefs = {}
  /\ vdefName = [v \in Vdef |-> None]
  /\ vdefRsrcs = [v \in Vdef |-> << >>]
  /\ mapped = [v \in Vdef |-> {}]
  /\ freeVoices = << >> /\ numVoices = 0
  /\ voiceRsrcs = [v \in Voice |-> << >>]
  /\ engine = None
  /\ handles = {}
  /\ status = "OK"
  /\ orphanFile = FALSE

Init == \E withDefault \in BOOLEAN, d \in Rsrc : InitWith(withDefault, d)

-----------------------------------------------------------------------------
(* pico_loadResource, picorsrc_loadResource.                                *)
Fail(st) == status' = st

LoadRefused ==
  /\ \/ numResources >= MaxResources /\ Fail("MAX_NUM_EXCEED")
     \/ numResources < MaxResources
        /\ \E st \in {"OUT_OF_MEM", "UNEXPECTED_FILE_TYPE", "CANT_OPEN_FILE"} : Fail(st)
  /\ UNCHANGED << up, rsrcVars, vdefVars, voiceVars >>

\* The file was opened and then something was wrong with it, its name is too
\* long, memory ran out, or a resource of that name is loaded (which is a
\* warning): picorsrc_disposeResource does not close the file.
LoadDropped(n) ==
  /\ numResources < MaxResources
  /\ \/ n \in RName /\ IsLoaded(n) /\ status' = "OK"
     \/ ~(n \in RName /\ IsLoaded(n))
        /\ \E st \in {"FILE_CORRUPT", "OUT_OF_MEM"} : Fail(st)
     \/ n \in LongRName /\ Fail("INDEX_OUT_OF_RANGE")
  /\ orphanFile' = TRUE
  /\ UNCHANGED << up, resources, numResources, name, openFiles, handles, vdefVars, voiceVars >>

LoadDone(n, r) ==
  /\ numResources < MaxResources
  /\ n \in RName /\ ~IsLoaded(n)
  /\ r \notin Loaded
  /\ resources' = << r >> \o resources
  /\ numResources' = numResources + 1
  /\ name' = [name EXCEPT ![r] = n]
  /\ lockCount' = [lockCount EXCEPT ![r] = 0]
  /\ openFiles' = openFiles \cup {r}
  /\ handles' = handles \cup {r}
  /\ status' = "OK"
  /\ UNCHANGED << up, orphanFile, vdefVars, freeVoices, numVoices, voiceRsrcs, engine >>

LoadResource(n) ==
  up /\ (LoadRefused \/ LoadDropped(n) \/ \E r \in Rsrc : LoadDone(n, r))

(* pico_unloadResource, picorsrc_unloadResource.                            *)
(* Mutants: no resource is ever busy; the name is gone before the test.     *)
NeverBusy(r) == FALSE
UnloadRefusedLate(r) ==
  /\ name' = [name EXCEPT ![r] = None]
  /\ Fail("RESOURCE_BUSY")
  /\ UNCHANGED << resources, numResources, openFiles, orphanFile, handles >>

Busy(r) == lockCount[r] > 0

UnloadRefused(r) == Fail("RESOURCE_BUSY") /\ UNCHANGED rsrcVars

UnloadDone(r) ==
  /\ openFiles' = openFiles \ {r}
  /\ resources' = Unlink(resources, r)
  /\ numResources' = numResources - 1
  /\ name' = [name EXCEPT ![r] = None]
  /\ handles' = handles \ {r}
  /\ status' = "OK"
  /\ UNCHANGED orphanFile

UnloadResource(r) ==
  /\ up /\ r \in handles
  /\ IF Busy(r) THEN UnloadRefused(r) ELSE UnloadDone(r)
  /\ UNCHANGED << up, vdefVars, voiceVars >>

-----------------------------------------------------------------------------
(* picorsrc_addResourceToVoiceDefinition.  A name that is too long is       *)
(* entered as far as it fits before the call fails.                         *)

EntryFor(rn) == Trunc[rn]

AddResource(vn, rn) ==
  LET d == Find(vdefs, vdefName, vn)
  IN  /\ up
      /\ \/ /\ d = None
            /\ Fail("NAME_UNDEFINED")
            /\ UNCHANGED << vdefRsrcs, mapped >>
         \/ /\ d # None
            /\ Len(vdefRsrcs[d]) >= MaxPerVoice
            /\ Fail("MAX_NUM_EXCEED")
            /\ UNCHANGED << vdefRsrcs, mapped >>
         \/ /\ d # None
            /\ Len(vdefRsrcs[d]) < MaxPerVoice
            /\ vdefRsrcs' = [vdefRsrcs EXCEPT ![d] = Append(@, EntryFor(rn))]
            /\ \/ /\ rn \in RName /\ status' = "OK"
                  /\ mapped' = [mapped EXCEPT ![d] = @ \cup {rn}]
               \/ /\ rn \in LongRName /\ Fail("NAME_ILLEGAL")
                  /\ UNCHANGED mapped
      /\ UNCHANGED << up, rsrcVars, voiceVars >>
      /\ UNCHANGED << vdefs, freeVdefs, numVdefs, vdefName, lostVdefs >>

(* picorsrc_createVoiceDefinition.  TakeVdef: the head of the free list,    *)
(* or a new object.                                                         *)
TakeVdef(d) ==
  \/ freeVdefs # << >> /\ d = Head(freeVdefs) /\ freeVdefs' = Tail(freeVdefs)
  \/ freeVdefs = << >> /\ d \notin Range(vdefs) \cup lostVdefs /\ UNCHANGED freeVdefs

CreateVdefRefused(vn) ==
  /\ \/ Find(vdefs, vdefName, vn) # None /\ Fail("NAME_CONFLICT")
     \/ /\ Find(vdefs, vdefName, vn) = None
        /\ \/ numVdefs >= MaxVdefs /\ Fail("MAX_NUM_EXCEED")
           \/ numVdefs < MaxVdefs /\ freeVdefs = << >> /\ Fail("OUT_OF_MEM")
  /\ UNCHANGED vdefVars

\* The new definition starts with the default resource.
CreateVdefDone(vn, d) ==
  /\ Find(vdefs, vdefName, vn) = None
  /\ numVdefs < MaxVdefs
  /\ TakeVdef(d)
  /\ \/ /\ vn \in VName
        /\ vdefs' = << d >> \o vdefs
        /\ numVdefs' = numVdefs + 1
        /\ vdefName' = [vdefName EXCEPT ![d] = vn]
        /\ vdefRsrcs' = [vdefRsrcs EXCEPT ![d] = << DefaultName >>]
        /\ mapped' = [mapped EXCEPT ![d] = {DefaultName}]
        /\ status' = "OK"
        /\ UNCHANGED lostVdefs
     \/ /\ vn \in LongVName
        /\ Fail("NAME_ILLEGAL")
        /\ lostVdefs' = lostVdefs \cup {d}
        /\ UNCHANGED << vdefs, numVdefs, vdefName, vdefRsrcs, mapped >>

CreateVoiceDefinition(vn) ==
  /\ up
  /\ CreateVdefRefused(vn) \/ \E d \in Vdef : CreateVdefDone(vn, d)
  /\ UNCHANGED << up, rsrcVars, voiceVars >>

(* picorsrc_releaseVoiceDefinition: silent about an unknown name.           *)
ReleaseVoiceDefinition(vn) ==
  LET d == Find(vdefs, vdefName, vn)
  IN  /\ up
      /\ IF d = None THEN UNCHANGED vdefVars
         ELSE /\ vdefs' = Unlink(vdefs, d)
              /\ freeVdefs' = << d >> \o freeVdefs
              /\ numVdefs' = numVdefs - 1
              /\ vdefName' = [vdefName EXCEPT ![d] = None]
              /\ vdefRsrcs' = [vdefRsrcs EXCEPT ![d] = << >>]
              /\ mapped' = [mapped EXCEPT ![d] = {}]
              /\ UNCHANGED lostVdefs
      /\ status' = "OK"
      /\ UNCHANGED << up, rsrcVars, voiceVars >>

-----------------------------------------------------------------------------
(* picorsrc_createVoice for the definition d: the resources it names, which *)
(* must all be loaded, are locked once per entry.                           *)
CanCreateVoice(d) ==
  /\ numVoices < MaxVoices
  /\ d # None
  /\ \A i \in DOMAIN vdefRsrcs[d] : IsLoaded(vdefRsrcs[d][i])

VoiceOf(d) ==
  [i \in 1 .. Len(vdefRsrcs[d]) |-> Find(resources, name, vdefRsrcs[d][i])]

Locked(lc, s) == [r \in Rsrc |-> I8(lc[r] + Count(r, s))]
Unlocked(lc, s) == [r \in Rsrc |-> I8(lc[r] - Count(r, s))]

\* The new voice is the head of the free list, or a new object.
TakesVoice(v) ==
  \/ freeVoices # << >> /\ v = Head(freeVoices)
  \/ freeVoices = << >> /\ v # engine

VoicesLeftAll == freeVoices  \* mutant: the head is not removed

VoicesLeft == IF freeVoices = << >> THEN << >> ELSE Tail(freeVoices)

(* pico_newEngine, picoctrl_newEngine.  The first exception raised is the   *)
(* one that is returned.                                                    *)
NewEngineRefused(d) ==
  /\ \/ engine # None /\ Fail("MAX_NUM_EXCEED")
     \/ engine = None /\ Fail("OUT_OF_MEM")
     \/ engine = None /\ numVoices >= MaxVoices /\ Fail("MAX_NUM_EXCEED")
     \/ engine = None /\ numVoices < MaxVoices /\ d = None /\ Fail("NAME_UNDEFINED")
     \/ /\ engine = None /\ numVoices < MaxVoices
        /\ d # None /\ ~CanCreateVoice(d) /\ Fail("RESOURCE_MISSING")
  /\ UNCHANGED voiceVars

\* A voice is created, and then memory runs out for the rest of the engine:
\* picorsrc_releaseVoice undoes it.
NewEngineNotUndone(d, v) ==  \* mutant: the failed engine's voice stays locked
  /\ engine = None
  /\ CanCreateVoice(d) /\ TakesVoice(v)
  /\ lockCount' = Locked(lockCount, VoiceOf(d))
  /\ freeVoices' = << v >> \o VoicesLeft
  /\ Fail("OUT_OF_MEM")
  /\ UNCHANGED << numVoices, voiceRsrcs, engine >>

NewEngineUndone(d, v) ==
  /\ engine = None
  /\ CanCreateVoice(d) /\ TakesVoice(v)
  /\ lockCount' = Unlocked(Locked(lockCount, VoiceOf(d)), VoiceOf(d))
  /\ freeVoices' = << v >> \o VoicesLeft
  /\ Fail("OUT_OF_MEM")
  /\ UNCHANGED << numVoices, voiceRsrcs, engine >>

NewEngineDone(d, v) ==
  /\ engine = None
  /\ CanCreateVoice(d) /\ TakesVoice(v)
  /\ lockCount' = Locked(lockCount, VoiceOf(d))
  /\ freeVoices' = VoicesLeft
  /\ numVoices' = numVoices + 1
  /\ voiceRsrcs' = [voiceRsrcs EXCEPT ![v] = VoiceOf(d)]
  /\ engine' = v
  /\ status' = "OK"

NewEngine(vn) ==
  LET d == Find(vdefs, vdefName, vn)
  IN  /\ up
      /\ \/ NewEngineRefused(d)
         \/ \E v \in Voice : NewEngineUndone(d, v) \/ NewEngineDone(d, v)
      /\ UNCHANGED << up, rsrcVars, vdefVars >>

(* picorsrc_releaseVoice, for the voice of the engine.                      *)
ReleaseVoice ==
  /\ lockCount' = Unlocked(lockCount, voiceRsrcs[engine])
  /\ freeVoices' = << engine >> \o freeVoices
  /\ numVoices' = numVoices - 1
  /\ engine' = None
  /\ voiceRsrcs' = [voiceRsrcs EXCEPT ![engine] = << >>]

(* pico_disposeEngine, picoctrl_disposeEngine.                              *)
DisposeEngine ==
  /\ up /\ engine # None
  /\ ReleaseVoice
  /\ status' = "OK"
  /\ UNCHANGED << up, rsrcVars, vdefVars >>

(* pico_terminate: disposes the engine and the manager, but not what the    *)
(* manager manages.                                                         *)
Terminate ==
  /\ up
  /\ up' = FALSE
  /\ IF engine # None THEN ReleaseVoice ELSE UNCHANGED voiceVars
  /\ handles' = {}
  /\ status' = "OK"
  /\ UNCHANGED << resources, numResources, name, openFiles, orphanFile, vdefVars >>

Next ==
  \/ \E n \in RName \cup LongRName : LoadResource(n)
  \/ \E r \in Rsrc : UnloadResource(r)
  \/ \E vn \in VName \cup LongVName : CreateVoiceDefinition(vn)
  \/ \E vn \in VName, rn \in RName \cup LongRName : AddResource(vn, rn)
  \/ \E vn \in VName : ReleaseVoiceDefinition(vn)
  \/ \E vn \in VName : NewEngine(vn)
  \/ DisposeEngine
  \/ Terminate

Spec == Init /\ [][Next]_rmVars
-----------------------------------------------------------------------------
TypeOK ==
  /\ up \in BOOLEAN /\ orphanFile \in BOOLEAN
  /\ resources \in Seq(Rsrc) /\ numResources \in Int
  /\ name \in [Rsrc -> RName \cup {None}]
  /\ lockCount \in [Rsrc -> -128 .. 127]
  /\ openFiles \subseteq Rsrc /\ handles \subseteq Rsrc
  /\ vdefs \in Seq(Vdef) /\ freeVdefs \in Seq(Vdef) /\ numVdefs \in Int
  /\ lostVdefs \subseteq Vdef
  /\ vdefName \in [Vdef -> VName \cup {None}]
  /\ vdefRsrcs \in [Vdef -> Seq(RName)]
  /\ mapped \in [Vdef -> SUBSET RName]
  /\ freeVoices \in Seq(Voice) /\ numVoices \in Int
  /\ voiceRsrcs \in [Voice -> Seq(Rsrc)]
  /\ engine \in Voice \cup {None}

\* The resources of the running engine's voice; none if there is no engine.
InUse == IF engine = None THEN << >> ELSE voiceRsrcs[engine]

(* The running engine never refers to a resource that was unloaded (whose   *)
(* knowledge bases and memory are gone).                                    *)
NoDanglingVoice == Range(InUse) \subseteq Loaded

(* lockCount is what its comment says, the number of current subscribers,   *)
(* whatever calls failed in between: a resource that no engine uses can be  *)
(* unloaded, and one that is used twice by an engine stays locked.          *)
LocksAreUsers == up => \A r \in Loaded : lockCount[r] = Count(r, InUse)

(* The lists are lists, their counters count them, and no definition or     *)
(* voice is at the same time in use and in a free list, whence a later call *)
(* would take it.                                                           *)
ListsSound ==
  /\ IsInjective(resources) /\ numResources = Len(resources)
  /\ IsInjective(vdefs \o freeVdefs) /\ numVdefs = Len(vdefs)
  /\ Range(vdefs \o freeVdefs) \cap lostVdefs = {}
  /\ IsInjective(freeVoices) /\ engine \notin Range(freeVoices)
  /\ numVoices = IF engine = None THEN 0 ELSE 1

(* A name finds at most one resource and one definition, so that it never   *)
(* depends on the order of calls which one is meant.                        *)
NamesUnique ==
  /\ \A i, j \in DOMAIN resources : name[resources[i]] = name[resources[j]] => i = j
  /\ \A i, j \in DOMAIN vdefs : vdefName[vdefs[i]] = vdefName[vdefs[j]] => i = j

(* Loading, unloading and voice definition calls leave a running engine     *)
(* alone: "the loaded resource will be available only to engines started    *)
(* after" (picoapi.h, pico_loadResource).                                   *)
RunningEngineUntouched ==
  [][engine # None /\ engine' = engine
       => \A r \in Range(InUse) : InUse' = InUse /\ name'[r] = name[r]]_rmVars

(* "When calling pico_newEngine with voiceName, the corresponding resources *)
(* from the mappings will be used with that engine" (picoapi.h): these are  *)
(* the mappings the application added, and the default resource.  It does   *)
(* not hold: a mapping refused for its name leaves the name cut short       *)
(* behind.                                                                  *)
EngineUsesMappings ==
  [][engine = None /\ engine' # None
       => \E d \in Range(vdefs) :
            {name[r] : r \in Range(InUse')} = mapped[d]]_rmVars

(* "Lingware resources still being loaded are unloaded automatically"       *)
(* (picoapi.h, pico_terminate): no resource file stays open.  It does not   *)
(* hold: nothing unloads them.                                              *)
TerminateUnloads == ~up => openFiles = {}
=============================================================================
