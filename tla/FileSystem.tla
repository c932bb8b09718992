----------------------------- MODULE FileSystem -----------------------------
(***************************************************************************)
(* src/file_system.c on the heap of src/memory_management.c, with          *)
(* err_handler() of src/kernel.c, which never returns.                     *)
(*                                                                         *)
(* A call is a list of steps, todo: what it still has to do, one heap call *)
(* at a time.  There is one caller, the shell: the next call starts when   *)
(* nothing is left to do.                                                  *)
(***************************************************************************)
EXTENDS Heap, Sequences, SequencesExt

CONSTANTS
    Names,
    Sizes,              \* sizes of data to write
    MAX_FILES,
    FILE_SIZE,          \* sizeof(file_t)
    DIRECTORY_SIZE      \* sizeof(directory_t)

ASSUME FileSystemAssumption == Sizes \cup {FILE_SIZE, DIRECTORY_SIZE} \subseteq Nat

\* A directory_t is hundreds of bytes, SLACK is 8.
ASSUME DirectoryAssumption == DIRECTORY_SIZE > SLACK

VARIABLES
    files,      \* root_directory.files[]: each the file_t it points to, with its address
    todo,
    panic       \* the code given to err_handler(), and the bytes malloc() refused

fsVars == <<files, todo, panic>>
vars == <<blocks, curr, files, todo, panic>>

\* files[] was appended to beyond its end, over file_count: nothing is claimed after that.
Overrun == Len(files) > MAX_FILES

Running == [code |-> "none", bytes |-> 0]
Alive == panic = Running /\ ~Overrun
Ready == Idle /\ todo = <<>> /\ Alive

Steps(s) == Idle /\ todo # <<>> /\ Alive /\ Head(todo)[1] = s

-----------------------------------------------------------------------------
(* A definition marked "bug:" is a variant a slip in the code would give; the runs *)
(* put it in the place of the definition after it to show that a property notices. *)

\* find_file_index(): the first that has the name, none for -1.
FilesCalled(name) == {i \in 1 .. Len(files) : files[i].name = name}
FindFile(name) == {i \in FilesCalled(name) : \A j \in FilesCalled(name) : i <= j}
Exists(name) == FindFile(name) # {}

Panic(code, bytes) == panic' = [code |-> code, bytes |-> bytes]

PanicIn(code) == Panic(code, 0) /\ UNCHANGED <<blocks, curr, files, todo>>

OutOfMemory(n) ==
    /\ MallocFails(n)
    /\ Panic("ERR_OUT_OF_MEMORY", n)
    /\ todo' = <<>>

Entry(a, name) == [at |-> a, name |-> name, dir |-> FALSE, size |-> 0, data |-> NULL]

Init ==
    /\ HeapInit
    /\ files = <<>>
    /\ todo = <<>>
    /\ panic = Running

\* create_file()
NewFile(name, rest) ==
    \/ \E a \in Headers : /\ Malloc(FILE_SIZE, a)
                          /\ files' = Append(files, Entry(a, name))
                          /\ todo' = rest
                          /\ UNCHANGED panic
    \/ OutOfMemory(FILE_SIZE) /\ UNCHANGED files

CreateFile(name) ==
    /\ Ready
    /\ IF Exists(name) THEN PanicIn("ERR_FILE_EXISTS") ELSE NewFile(name, <<>>)

\* create_directory(): the file_t, then the directory_t.
CreateDirectory(name) ==
    /\ Ready
    /\ IF Exists(name)
       THEN PanicIn("ERR_FILE_EXISTS")
       ELSE \/ \E a \in Headers : /\ Malloc(FILE_SIZE, a)
                                  /\ todo' = <<<<"subdir", a, name>>>>
                                  /\ UNCHANGED <<files, panic>>
            \/ OutOfMemory(FILE_SIZE) /\ UNCHANGED files

\* bug: the file_t is left behind.
SubdirFailsLeaking(a, name) ==
    /\ MallocFails(DIRECTORY_SIZE)
    /\ todo' = <<<<"panic", "ERR_OUT_OF_MEMORY", name>>>>
    /\ UNCHANGED <<files, panic>>
SubdirFails(a, name) ==
    /\ MallocFails(DIRECTORY_SIZE)
    /\ todo' = <<<<"free", a>>, <<"panic", "ERR_OUT_OF_MEMORY", name>>>>
    /\ UNCHANGED <<files, panic>>

MakeSubdir ==
    /\ Steps("subdir")
    /\ LET node == Head(todo)[2]  name == Head(todo)[3]
       IN \/ \E a \in Headers :
                /\ Malloc(DIRECTORY_SIZE, a)
                /\ files' = Append(files, [Entry(node, name) EXCEPT
                                !.dir = TRUE, !.data = a, !.size = DIRECTORY_SIZE])
                /\ todo' = <<>>
                /\ UNCHANGED panic
          \/ SubdirFails(node, name)

\* write_file(): the old data goes before the new is allocated; free(NULL) does nothing.
WriteSteps(i, n, name) == <<<<"free", files[i].data>>, <<"fill", i, n, name>>>>

WriteFile(name, n) ==
    /\ Ready
    /\ \/ /\ \E i \in FindFile(name) : todo' = WriteSteps(i, n, name)
          /\ UNCHANGED <<blocks, curr, files, panic>>
       \/ ~Exists(name) /\ PanicIn("ERR_FILE_NOT_FOUND")

Fill ==
    /\ Steps("fill")
    /\ LET i == Head(todo)[2]  n == Head(todo)[3]
       IN \/ \E a \in Headers : /\ Malloc(n, a)
                                /\ files' = [files EXCEPT ![i].data = a, ![i].size = n]
                                /\ todo' = <<>>
                                /\ UNCHANGED panic
          \/ OutOfMemory(n) /\ files' = [files EXCEPT ![i].data = NULL]

\* delete_file(): data, file_t, then the place in files[].
DeleteSteps(i, name) ==
    <<<<"free", files[i].data>>, <<"free", files[i].at>>, <<"unlink", i, name>>>>

DeleteFile(name) ==
    /\ Ready
    /\ \/ /\ \E i \in FindFile(name) : todo' = DeleteSteps(i, name)
          /\ UNCHANGED <<blocks, curr, files, panic>>
       \/ ~Exists(name) /\ PanicIn("ERR_FILE_NOT_FOUND")

\* delete_directory(): the directories have no files of their own, so what goes is the
\* same.  A directory that write_file() wrote over holds no directory_t any more; the
\* one caller, tests/test_directories.c, deletes none of those.
DeleteDirectory(name) ==
    /\ Ready
    /\ \/ /\ \E i \in FindFile(name) : /\ files[i].dir
                                       /\ files[i].size = DIRECTORY_SIZE
                                       /\ todo' = DeleteSteps(i, name)
          /\ UNCHANGED <<blocks, curr, files, panic>>
       \/ /\ \A i \in FindFile(name) : ~files[i].dir
          /\ PanicIn("ERR_FILE_NOT_FOUND")

\* bug: nothing is shifted, so the last file goes.
UnlinkedLast(i) == Front(files)
Unlinked(i) == RemoveAt(files, i)

Unlink ==
    /\ Steps("unlink")
    /\ files' = Unlinked(Head(todo)[2])
    /\ todo' = <<>>
    /\ UNCHANGED <<blocks, curr, panic>>

FreeStep ==
    /\ Steps("free")
    /\ IF Head(todo)[2] = NULL THEN UNCHANGED heapVars ELSE Free(Head(todo)[2])
    /\ todo' = Tail(todo)
    /\ UNCHANGED <<files, panic>>

PanicStep ==
    /\ Steps("panic")
    /\ Panic(Head(todo)[2], FILE_SIZE + HEADER + DIRECTORY_SIZE)
    /\ todo' = <<>>
    /\ UNCHANGED <<blocks, curr, files>>

CoalesceStep == Alive /\ Coalesce /\ UNCHANGED fsVars

\* The shell's "edit": a missing file is created, and what was typed is appended to
\* what was read.
Edit(name, typed) ==
    \/ \E i \in FindFile(name) : /\ files[i].size + typed \in Sizes
                                /\ WriteFile(name, files[i].size + typed)
    \/ /\ Ready /\ ~Exists(name)
       /\ NewFile(name, <<<<"fill", Len(files) + 1, typed, name>>>>)

\* err_handler() halts with interrupts off.
Halted == ~Alive /\ UNCHANGED vars

Call ==
    \E name \in Names :
        \/ CreateFile(name)
        \/ CreateDirectory(name)
        \/ \E n \in Sizes : WriteFile(name, n) \/ Edit(name, n)
        \/ DeleteFile(name) \/ DeleteDirectory(name)

Work == FreeStep \/ Fill \/ MakeSubdir \/ Unlink \/ PanicStep \/ CoalesceStep

Next == Call \/ Work \/ Halted

Spec == Init /\ [][Next]_vars

-----------------------------------------------------------------------------

\* The memory that the root directory leads to, each piece once.
InUse == <<{files[i].at : i \in 1 .. Len(files)},
           {files[i].data : i \in 1 .. Len(files)} \ {NULL}>>

\* Between calls, and after a panic, the heap holds exactly what the root directory leads
\* to, and no two files share memory: nothing leaks or is freed twice on any path,
\* failed allocations and repeated writes included.
NothingLeaks ==
    Idle /\ todo = <<>> =>
        /\ Held = InUse[1] \cup InUse[2]
        /\ InUse[1] \cap InUse[2] = {}
        /\ \A i, j \in 1 .. Len(files) : i # j =>
              files[i].at # files[j].at /\ (files[i].data = files[j].data => files[i].data = NULL)

\* Between calls the data of every file is a held block as long as the file's size says.
SizesFit ==
    Ready => \A i \in 1 .. Len(files) :
        IF files[i].data = NULL
        THEN files[i].size = 0
        ELSE files[i].data \in Held /\ blocks[files[i].data].size >= files[i].size

\* "Out of memory" is said only when no stretch of the heap between the held blocks is
\* long enough, after any history of splits and joins.
OutOfMemoryIsReal ==
    panic.code = "ERR_OUT_OF_MEMORY" =>
        \A x \in 0 .. HEAP_MAX_SIZE - HEADER - panic.bytes :
            \E a \in Held : a < x + HEADER + panic.bytes /\ x < End(a)

\* The heap under the file system hands out disjoint extents that stay in place.
Extent == INSTANCE Extents WITH
    extents <- {[from |-> a + HEADER, to |-> End(a)] : a \in Held}
ExtentsSpec == Extent!Spec

EntriesOf(fs) ==
    [n \in {fs[i].name : i \in 1 .. Len(fs)} |->
        LET i == CHOOSE j \in 1 .. Len(fs) : fs[j].name = n
        IN [dir |-> fs[i].dir, size |-> fs[i].size]]

\* The call whose steps are left, and its name.
PendingOf(steps) ==
    IF steps = <<>> THEN <<>> ELSE
        LET step == Last(steps)
        IN CASE step[1] = "fill" -> <<"write", step[4]>>
             [] step[1] = "unlink" -> <<"delete", step[3]>>
             [] OTHER -> <<"mkdir", step[3]>>

\* The file system is a map from names to kinds and sizes until it halts: shifting
\* files[] and reusing memory never touch an entry other than the one named.
Map == INSTANCE FileMap WITH
    entries <- EntriesOf(files),
    pending <- PendingOf(todo),
    halted <- panic # Running
FileMapSpec == Map!Spec

=============================================================================
