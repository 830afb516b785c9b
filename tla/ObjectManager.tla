---------------------------- MODULE ObjectManager ----------------------------
(***************************************************************************)
(* The object manager (src/nboxkrnl/ob): reference-counted objects, their  *)
(* names in a directory, and the handle table.                             *)
(*                                                                         *)
(* ObLock raises the IRQL to DISPATCH_LEVEL, which on one processor makes  *)
(* what runs up to ObUnlock one step.  Between two such sections, and at   *)
(* every interlocked operation, another thread may run: an operation is    *)
(* the steps its thread has still to do.                                   *)
(*                                                                         *)
(* All names are in one directory.  Paths, symbolic links and drive        *)
(* letters only choose which object a lookup finds and are left out.       *)
(***************************************************************************)
EXTENDS Integers, Sequences, FiniteSets

CONSTANTS
    Threads,
    Objects,   \* what ObCreateObject may return; memory is not reused
    Directory, \* the directory object the names are in
    Names,
    NoName,    \* a null ObjectName
    Entries    \* bound: handles in a table, after the null one (63 in the code)

ASSUME ObjectAssumption ==
    /\ Directory \notin Objects
    /\ NoName \notin Names
    /\ Entries \in Nat \ {0}
    \* no address is taken for a free entry of the table
    /\ (Objects \union {Directory})
           \intersect [next : 1..Entries \union {-2}, encoded : BOOLEAN] = {}

VARIABLES
    table,       \* RootTable[0]: for each handle, an object or a free entry
    firstFree,   \* FirstFreeTableEntry
    handleCount, \* HandleCount of the table
    objects,     \* each object's header, and what its memory is used for
    todo,        \* the steps each thread's operation has still to do
    held,        \* what each caller has been given references to: bound, one each
    crashed      \* which bad pointer was followed, if any

tableVars == <<table, firstFree, handleCount>>
vars == <<tableVars, objects, todo, held, crashed>>

Handles == 1..Entries
AllObjects == Objects \union {Directory}

(***************************************************************************)
(* A free entry holds the next free handle, encoded (biased by one) or     *)
(* not.  What the encoded -1 of the last entry decodes to is -2: no        *)
(* handle, and not the -1 that makes ObpCreateHandleForObject allocate.    *)
(***************************************************************************)
DecodedEnd == -2
FreeEntry(next, encoded) == [next |-> next, encoded |-> encoded]
IsObject(h) == table[h] \in Objects
IsFreeHandle(h) == ~IsObject(h) /\ table[h].encoded

\* The types of objects by the procedures they have: plain types (event,
\* semaphore, mutant, thread) have none that matters here, a device parses
\* the rest of a name, a file is closed and deleted.
Kinds == {"plain", "device", "file"}

Header(state, kind, name, pointers) ==
    [state |-> state, kind |-> kind, name |-> name,
     pointers |-> pointers, handles |-> 0,
     attached |-> FALSE,      \* OB_FLAG_ATTACHED_OBJECT
     linked |-> FALSE,        \* OBJECT_HEADER_NAME_INFO.Directory is set
     permanent |-> FALSE,     \* OB_FLAG_PERMANENT_OBJECT
     device |-> FALSE,        \* a file's DeviceObject is set
     handleCreated |-> FALSE, \* a file's FO_HANDLE_CREATED
     cleaned |-> FALSE]       \* the file's IRP_MJ_CLEANUP has been sent

\* ObInitSystem.  The permanent directories were each created with the first
\* handle, which has been closed since.
InitialTable ==
    [h \in Handles |->
        FreeEntry(IF h = Entries THEN DecodedEnd ELSE h + 1, h # 1)]

InitialObjects ==
    [o \in AllObjects |->
        IF o = Directory
        THEN [Header("live", "plain", NoName, 1) EXCEPT !.permanent = TRUE]
        ELSE Header("unborn", "plain", NoName, 0)]

Init ==
    /\ table = InitialTable
    /\ firstFree = 1
    /\ handleCount = 0
    /\ objects = InitialObjects
    /\ todo = [t \in Threads |-> <<>>]
    /\ held = [t \in Threads |-> {}]
    /\ crashed = "no"

-----------------------------------------------------------------------------
(* Steps.                                                                   *)

Step(op, o) == [op |-> op, obj |-> o]

\* The steps that own a reference to their object, which they give up.
Owning == {"insert", "parse", "handle", "created", "deref"}

Idle(t) == crashed = "no" /\ todo[t] = <<>>
Start(t, steps) == todo' = [todo EXCEPT ![t] = steps]
At(t, op) == crashed = "no" /\ todo[t] # <<>> /\ Head(todo[t]).op = op
Current(t) == Head(todo[t])
Then(t, steps) == todo' = [todo EXCEPT ![t] = steps \o Tail(@)]

\* A bad pointer is followed.  What happens then is undefined, and the model
\* stops; the rest of the state no longer means anything.
Crash(why) ==
    /\ crashed' = why
    /\ table' = InitialTable /\ firstFree' = 1 /\ handleCount' = 0
    /\ objects' = InitialObjects
    /\ todo' = [t \in Threads |-> <<>>]
    /\ held' = [t \in Threads |-> {}]

Linked(n) == {o \in Objects : objects[o].linked /\ objects[o].name = n}

\* ObpCreateHandleForObject, but for the object's header.
TakeHandle(o) ==
    /\ table' = [table EXCEPT ![firstFree] = o]
    /\ firstFree' = table[firstFree].next
    /\ handleCount' = handleCount + 1

\* Mutant: the entry gets the handle after it.
GiveHandleInOrder(h) ==
    /\ table' = [table EXCEPT ![h] =
                    FreeEntry(IF h = Entries THEN DecodedEnd ELSE h + 1, FALSE)]
    /\ firstFree' = h
    /\ handleCount' = handleCount - 1

\* ObpDestroyObjectHandle: the entry gets the next free handle, not encoded.
GiveHandle(h) ==
    /\ table' = [table EXCEPT ![h] = FreeEntry(firstFree, FALSE)]
    /\ firstFree' = h
    /\ handleCount' = handleCount - 1

\* Mutant: the directory's reference is forgotten.
DetachForgetsDirectory(o) == <<Step("deref", o)>>

\* ObpDetachNamedObject: what it does to the object and the steps it leaves.
\* The object keeps OB_FLAG_ATTACHED_OBJECT.
Detached(header) == [header EXCEPT !.linked = FALSE]
DetachSteps(o) == <<Step("deref", Directory), Step("deref", o)>>

\* Mutant: only objects nobody else refers to.
DetachesUnreferenced(header) ==
    /\ header.handles = 0 /\ header.attached /\ ~header.permanent
    /\ header.pointers <= 2

\* ObfCloseHandle and ObMakeTemporaryObject detach an object without handles.
IsDetachable(header) == header.handles = 0 /\ header.attached /\ ~header.permanent

\* The end of a section with o's header changed: detach, if it should be.
\* Detaching what has been detached before goes through a null Directory.
DirectoryIsNull(header) == IsDetachable(header) /\ ~header.linked
Left(header) == IF IsDetachable(header) THEN Detached(header) ELSE header
LeavingSteps(o, header) ==
    IF IsDetachable(header) THEN DetachSteps(o) ELSE <<>>

-----------------------------------------------------------------------------
(* Creating objects.                                                        *)

\* ObCreateObject, in a routine that then calls ObInsertObject: NtCreateEvent
\* and its like, with OBJ_OPENIF or OBJ_PERMANENT or neither, and
\* IoCreateDevice, which asks for another reference.
Create(t, o, kind, name, attributes) ==
    /\ Idle(t)
    /\ objects[o].state = "unborn"
    /\ kind = "device" => attributes = {"permanent"} /\ name # NoName
    /\ objects' = [objects EXCEPT ![o] = Header("live", kind, name, 1)]
    /\ Start(t, <<[op |-> "insert", obj |-> o, name |-> name,
                   attributes |-> attributes,
                   bias |-> IF kind = "device" THEN 1 ELSE 0]>>)
    /\ UNCHANGED <<tableVars, held, crashed>>

\* ObfDuplicateObject: a reference by handle, and an insertion without a name.
ObfDuplicateObject(t, h) ==
    /\ Idle(t)
    /\ IsObject(h)
    /\ objects' = [objects EXCEPT ![table[h]].pointers = @ + 1]
    /\ Start(t, <<[op |-> "insert", obj |-> table[h], name |-> NoName,
                   attributes |-> {}, bias |-> 0]>>)
    /\ UNCHANGED <<tableVars, held, crashed>>

\* The object a name of the insertion stands for already, if any.
Existing(step) == IF step.name = NoName THEN {} ELSE Linked(step.name)

\* The name is taken, by an object that may not be opened instead.
Collides(step) ==
    \E x \in Existing(step) : \/ "openif" \notin step.attributes
                              \/ objects[x].kind # objects[step.obj].kind

\* ObInsertObject, when it fails.
InsertFails(t) ==
    /\ At(t, "insert")
    /\ Collides(Current(t))
    /\ Then(t, <<Step("deref", Current(t).obj)>>)
    /\ UNCHANGED <<tableVars, objects, held, crashed>>

\* ObInsertObject: a handle for the object and a link in the directory, or,
\* with OBJ_OPENIF, a handle for the object that has the name.
ObInsertObject(t) ==
    /\ At(t, "insert")
    /\ ~Collides(Current(t)) /\ firstFree # DecodedEnd
    /\ LET step == Current(t)
           o == step.obj
           inserted == [objects[o] EXCEPT
               !.pointers = @ + step.bias + 1, !.handles = @ + 1,
               !.permanent = @ \/ "permanent" \in step.attributes]
       IN  /\ \/ /\ step.name = NoName
                 /\ TakeHandle(o)
                 /\ objects' = [objects EXCEPT ![o] = inserted]
              \/ /\ step.name # NoName /\ Existing(step) = {}
                 /\ TakeHandle(o)
                 /\ objects' = [objects EXCEPT
                      ![o] = [inserted EXCEPT !.pointers = @ + 1,
                                !.attached = TRUE, !.linked = TRUE],
                      ![Directory].pointers = @ + 1]
              \/ \E x \in Existing(step) :
                 /\ TakeHandle(x)
                 /\ objects' = [objects EXCEPT
                      ![x].pointers = @ + step.bias + 1, ![x].handles = @ + 1,
                      ![x].permanent = @ \/ "permanent" \in step.attributes]
           /\ Then(t, <<Step("deref", o)>>)
           /\ held' = IF step.bias = 0 THEN held
                      ELSE [held EXCEPT ![t] = @ \union {o}]
    /\ UNCHANGED crashed

-----------------------------------------------------------------------------
(* Opening and referencing objects.                                         *)

\* ObpReferenceObjectByName for ObOpenObjectByName: a device's parse
\* procedure is called without the lock, with a reference.
ObOpenObjectByName(t, n) ==
    /\ Idle(t)
    /\ \E o \in Linked(n) :
         /\ objects' = [objects EXCEPT ![o].pointers = @ + 1]
         /\ Start(t, IF objects[o].kind = "device" THEN <<Step("parse", o)>>
                     ELSE <<Step("handle", o)>>)
    /\ UNCHANGED <<tableVars, held, crashed>>

\* IoParseDevice called for IoCreateFile: it may fail without a file object;
\* with one that then has no device; or give one, with a second reference
\* that IoCreateFile drops after it has set FO_HANDLE_CREATED.  A file has a
\* name but is never put into a directory.
IoParseDevice(t) ==
    /\ At(t, "parse")
    /\ LET device == Step("deref", Current(t).obj)
       IN  \/ /\ Then(t, <<device>>)
              /\ UNCHANGED objects
           \/ \E f \in {o \in Objects : objects[o].state = "unborn"},
                opened \in BOOLEAN :
              /\ objects' = [objects EXCEPT ![f] =
                   [Header("live", "file", NoName, IF opened THEN 2 ELSE 1)
                      EXCEPT !.device = opened]]
              /\ Then(t, IF opened
                         THEN <<device, Step("handle", f), Step("created", f)>>
                         ELSE <<Step("deref", f), device>>)
    /\ UNCHANGED <<tableVars, held, crashed>>

\* ObOpenObjectByName and ObOpenObjectByPointer: the reference becomes the
\* handle's.
OpenHandle(t) ==
    /\ At(t, "handle")
    /\ firstFree # DecodedEnd
    /\ TakeHandle(Current(t).obj)
    /\ objects' = [objects EXCEPT ![Current(t).obj].handles = @ + 1]
    /\ Then(t, <<>>)
    /\ UNCHANGED <<held, crashed>>

\* IoCreateFile after the open: the file has a handle.
FileCreated(t) ==
    /\ At(t, "created")
    /\ objects' = [objects EXCEPT ![Current(t).obj].handleCreated = TRUE]
    /\ Then(t, <<Step("deref", Current(t).obj)>>)
    /\ UNCHANGED <<tableVars, held, crashed>>

\* Mutant: the caller's own reference is taken for the handle's.
OpenByPointerUnreferenced(t, o) ==
    /\ Idle(t)
    /\ o \in held[t]
    /\ Start(t, <<Step("handle", o)>>)
    /\ UNCHANGED <<tableVars, objects, held, crashed>>

\* ObOpenObjectByPointer, by a caller with a reference.
ObOpenObjectByPointer(t, o) ==
    /\ Idle(t)
    /\ o \in held[t]
    /\ objects' = [objects EXCEPT ![o].pointers = @ + 1]
    /\ Start(t, <<Step("handle", o)>>)
    /\ UNCHANGED <<tableVars, held, crashed>>

\* ObReferenceObjectByHandle.  With the wrong type the reference is dropped.
ObReferenceObjectByHandle(t, h) ==
    /\ Idle(t)
    /\ IsObject(h)
    /\ objects' = [objects EXCEPT ![table[h]].pointers = @ + 1]
    /\ \/ /\ table[h] \notin held[t]
          /\ held' = [held EXCEPT ![t] = @ \union {table[h]}]
          /\ UNCHANGED todo
       \/ /\ Start(t, <<Step("deref", table[h])>>)
          /\ UNCHANGED held
    /\ UNCHANGED <<tableVars, crashed>>

\* ObfDereferenceObject, called by the owner of a reference.
DropReference(t, o) ==
    /\ Idle(t)
    /\ o \in held[t]
    /\ held' = [held EXCEPT ![t] = @ \ {o}]
    /\ Start(t, <<Step("deref", o)>>)
    /\ UNCHANGED <<tableVars, objects, crashed>>

-----------------------------------------------------------------------------
(* Giving objects up.                                                       *)

\* Mutant: an object that was in a directory is left for the directory.
DereferenceUnnamed(t) ==
    /\ At(t, "deref")
    /\ LET o == Current(t).obj
       IN  /\ objects' = [objects EXCEPT ![o].pointers = @ - 1]
           /\ Then(t, IF objects[o].pointers = 1 /\ ~objects[o].attached
                      THEN <<Step("free", o)>> ELSE <<>>)
    /\ UNCHANGED <<tableVars, held, crashed>>

\* ObfDereferenceObject: the decrement.  Whoever reaches 0 deletes.
Dereference(t) ==
    /\ At(t, "deref")
    /\ LET o == Current(t).obj
       IN  /\ objects' = [objects EXCEPT ![o].pointers = @ - 1]
           /\ Then(t, IF objects[o].pointers = 1 THEN <<Step("free", o)>>
                      ELSE <<>>)
    /\ UNCHANGED <<tableVars, held, crashed>>

\* ObfDereferenceObject: the type's delete procedure, and the memory.
\* IopDeleteFile cleans up a file no handle was created for.
Free(t) ==
    /\ At(t, "free")
    /\ LET o == Current(t).obj
           cleans == objects[o].device /\ ~objects[o].handleCreated
       IN  objects' = [objects EXCEPT ![o].state = "freed",
                                      ![o].cleaned = @ \/ cleans]
    /\ Then(t, <<>>)
    /\ UNCHANGED <<tableVars, held, crashed>>

\* ObfCloseHandle: a file's close procedure runs without the lock, and the
\* object is looked at again after it.
ObfCloseHandle(t, h) ==
    /\ Idle(t)
    /\ IsObject(h)
    /\ LET o == table[h]
           header == [objects[o] EXCEPT !.handles = @ - 1]
       IN  \/ /\ header.kind = "file"
              /\ objects' = [objects EXCEPT ![o] = header]
              /\ Start(t, <<[op |-> "close", obj |-> o,
                             handles |-> objects[o].handles],
                            Step("closed", o), Step("deref", o)>>)
           \/ /\ header.kind # "file"
              /\ ~DirectoryIsNull(header)
              /\ objects' = [objects EXCEPT ![o] = Left(header)]
              /\ Start(t, LeavingSteps(o, header) \o <<Step("deref", o)>>)
    /\ GiveHandle(h)
    /\ UNCHANGED <<held, crashed>>

\* IopCloseFile: the cleanup, when this was the last handle.
IopCloseFile(t) ==
    /\ At(t, "close")
    /\ IF Current(t).handles = 1
       THEN objects' = [objects EXCEPT ![Current(t).obj].handleCreated = TRUE,
                                       ![Current(t).obj].cleaned = TRUE]
       ELSE UNCHANGED objects
    /\ Then(t, <<>>)
    /\ UNCHANGED <<tableVars, held, crashed>>

\* ObfCloseHandle, after the close procedure.
FinishClose(t) ==
    /\ At(t, "closed")
    /\ LET o == Current(t).obj
       IN  /\ ~DirectoryIsNull(objects[o])
           /\ objects' = [objects EXCEPT ![o] = Left(@)]
           /\ Then(t, LeavingSteps(o, objects[o]))
    /\ UNCHANGED <<tableVars, held, crashed>>

\* ObMakeTemporaryObject, by a caller with a reference.
ObMakeTemporaryObject(t, o) ==
    /\ Idle(t)
    /\ o \in held[t]
    /\ LET header == [objects[o] EXCEPT !.permanent = FALSE]
       IN  /\ ~DirectoryIsNull(header)
           /\ objects' = [objects EXCEPT ![o] = Left(header)]
           /\ Start(t, LeavingSteps(o, header))
    /\ UNCHANGED <<tableVars, held, crashed>>

-----------------------------------------------------------------------------
(* Where the code goes through a bad pointer.                               *)

\* A handle that was closed is used: its entry is not recognised as free, and
\* the next free handle in it is taken for the address of an object.
ClosedHandleUsed(t) ==
    /\ Idle(t)
    /\ \E h \in Handles : ~IsObject(h) /\ ~IsFreeHandle(h)
    /\ Crash("closed handle")

\* ObpCreateHandleForObject after the last handle has been given out.
TableExhausted(t) ==
    /\ At(t, "handle") \/ (At(t, "insert") /\ ~Collides(Current(t)))
    /\ firstFree = DecodedEnd
    /\ Crash("no free handle")

\* ObpDetachNamedObject of an object whose name is out already.
DetachedTwice(t) ==
    /\ \/ /\ Idle(t)
          /\ \E h \in Handles :
               /\ IsObject(h)
               /\ objects[table[h]].kind # "file"
               /\ DirectoryIsNull([objects[table[h]] EXCEPT !.handles = @ - 1])
       \/ /\ Idle(t)
          /\ \E o \in held[t] :
               DirectoryIsNull([objects[o] EXCEPT !.permanent = FALSE])
       \/ /\ At(t, "closed")
          /\ DirectoryIsNull(objects[Current(t).obj])
    /\ Crash("null Directory")

-----------------------------------------------------------------------------
Attributes == {{}, {"openif"}, {"permanent"}}

Next ==
    \E t \in Threads :
        \/ \E o \in Objects, kind \in Kinds \ {"file"}, a \in Attributes,
              n \in Names \union {NoName} : Create(t, o, kind, n, a)
        \/ InsertFails(t)
        \/ ObInsertObject(t)
        \/ \E n \in Names : ObOpenObjectByName(t, n)
        \/ IoParseDevice(t)
        \/ OpenHandle(t)
        \/ FileCreated(t)
        \/ \E o \in Objects : \/ ObOpenObjectByPointer(t, o)
                              \/ ObMakeTemporaryObject(t, o)
                              \/ DropReference(t, o)
        \/ \E h \in Handles : \/ ObReferenceObjectByHandle(t, h)
                              \/ ObfDuplicateObject(t, h)
                              \/ ObfCloseHandle(t, h)
        \/ Dereference(t)
        \/ Free(t)
        \/ IopCloseFile(t)
        \/ FinishClose(t)
        \/ ClosedHandleUsed(t)
        \/ TableExhausted(t)
        \/ DetachedTwice(t)

Spec == Init /\ [][Next]_vars

-----------------------------------------------------------------------------
(* Properties.                                                              *)

TypeOK ==
    /\ \A h \in Handles :
         table[h] \in Objects \union
             [next : Handles \union {DecodedEnd}, encoded : BOOLEAN]
    /\ firstFree \in Handles \union {DecodedEnd}
    /\ handleCount \in 0..Entries
    /\ \A o \in AllObjects :
         /\ objects[o].state \in {"unborn", "live", "freed"}
         /\ objects[o].kind \in Kinds
         /\ objects[o].name \in Names \union {NoName}
         /\ objects[o].pointers \in Nat /\ objects[o].handles \in 0..Entries
    /\ \A t \in Threads : held[t] \subseteq Objects
    /\ crashed \in {"no", "closed handle", "no free handle", "null Directory"}

HandlesTo(o) == {h \in Handles : table[h] = o}

\* The steps still to do with the given operations on o, over all threads.
Pending(o, ops) ==
    {s \in Threads \X (1..5) :
        /\ s[2] \in DOMAIN todo[s[1]]
        /\ todo[s[1]][s[2]].obj = o
        /\ todo[s[1]][s[2]].op \in ops}

\* PointerCount is exactly the number of pointers there are: handles, the
\* link in the directory, callers and operations under way, and, for the
\* directory, the kernel's own and those of the linked objects.
PointerCountExact ==
    \A o \in AllObjects :
        objects[o].pointers =
            Cardinality(HandlesTo(o)) + Cardinality(Pending(o, Owning))
            + Cardinality({t \in Threads : o \in held[t]})
            + (IF objects[o].linked THEN 1 ELSE 0)
            + (IF o = Directory
               THEN 1 + Cardinality({x \in Objects : objects[x].linked}) ELSE 0)

\* HandleCount of an object is the number of its handles, and that of the
\* table the number of all of them: what decides about names and cleanups.
HandleCountsExact ==
    /\ \A o \in Objects : objects[o].handles = Cardinality(HandlesTo(o))
    /\ handleCount = Cardinality({h \in Handles : IsObject(h)})

\* An object without pointers is deleted, once: exactly one thread is about
\* to do it, or it has been done.  A freed object has no pointers.
DeletedOnce ==
    \A o \in AllObjects :
        /\ objects[o].state = "freed" => objects[o].pointers = 0
        /\ Cardinality(Pending(o, {"free"})) =
               IF objects[o].state = "live" /\ objects[o].pointers = 0
               THEN 1 ELSE 0

\* A name is in the directory once, whoever creates and opens it at a time,
\* and the name of a temporary object no longer than the object has handles.
NamesAreUsed ==
    /\ \A n \in Names : Cardinality(Linked(n)) <= 1
    /\ \A o \in Objects : objects[o].linked =>
           objects[o].permanent \/ objects[o].handles > 0

\* The free list has every free handle once and ends where it should,
\* however allocations and closes are mixed.
FreeListIntact ==
    LET free == {h \in Handles : ~IsObject(h)}
        length == Cardinality(free)
        walk[n \in 0..Entries] ==
            IF n = 0 THEN firstFree
            ELSE IF walk[n - 1] \in free THEN table[walk[n - 1]].next
            ELSE 0
    IN  /\ {walk[n] : n \in 0..(length - 1)} = free
        /\ walk[length] = DecodedEnd

\* A file that was opened is cleaned up before its memory goes: the close of
\* its last handle is seen as that, or its deletion makes up for it.
CleanedBeforeFreed ==
    \A o \in Objects :
        objects[o].state = "freed" /\ objects[o].device => objects[o].cleaned

\* Something refers to the object: a handle, a caller, an operation under way,
\* or its name in the directory, to which the kernel refers.
InUse(o) ==
    \/ HandlesTo(o) # {}
    \/ \E t \in Threads : o \in held[t]
    \/ \E t \in Threads : \E k \in DOMAIN todo[t] : todo[t][k].obj = o
    \/ objects[o].linked \/ o = Directory

NothingFreedInUse == \A o \in AllObjects : InUse(o) => objects[o].state = "live"

\* An open handle means the same object until it is closed, however handles
\* are allocated and closed meanwhile, and no step of any thread deletes an
\* object that something still refers to, that handle or another.
HandlesKeepObjects ==
    [][crashed' = "no" =>
         /\ \A h \in Handles : IsObject(h) /\ IsObject(h)' => table'[h] = table[h]
         /\ NothingFreedInUse']_vars

\* The handle table is whole: entries and free list of the right shape.
TableIntact == TypeOK /\ FreeListIntact

\* Both counts of every object are exact.
CountsExact == PointerCountExact /\ HandleCountsExact

\* The end of an object: once, and for a file after its cleanup.
EndsOnce == DeletedOnce /\ CleanedBeforeFreed
=============================================================================
