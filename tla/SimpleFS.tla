------------------------------ MODULE SimpleFS ------------------------------
(***************************************************************************)
(* The on-disk filesystem of fuse/src/filesystem.rs: attributes are kept   *)
(* in data_dir/inodes, file contents and directories in data_dir/contents, *)
(* the last inode number in data_dir/superblock.  A handler reads what it  *)
(* needs and then makes its writes one after the other; requests are       *)
(* handled one at a time, so a step is a whole handler, or a beginning of  *)
(* it if the process is killed or panics on the way.                       *)
(*                                                                         *)
(* Attributes, directories and the superblock are written by truncating    *)
(* the file and serializing the new value into it: a process that is       *)
(* killed in between leaves a torn file, and bincode's deserialize_from,   *)
(* unwrapped, panics on it.  inodes, contents and superblock keep what was *)
(* in a torn file before.  Nobody ever sees that again: a handler reads    *)
(* what it is about to write, so it panics before it writes a torn file.   *)
(* The bytes of a regular file are not told apart, only their number.      *)
(*                                                                         *)
(* Permissions, times and extended attributes are left out: every access   *)
(* check precedes the first write, so a refused request changes nothing.   *)
(*                                                                         *)
(* The kernel (external) names inodes that it finds by walking from the    *)
(* root or has open, and keeps what the VFS keeps: rename does not put a   *)
(* directory below itself, nor a directory over a file.                    *)
(***************************************************************************)
EXTENDS Integers, Sequences, FiniteSets, FiniteSetsExt, Functions

CONSTANTS
  Names,       \* names of directory entries
  MaxLen,      \* bound on the length of a file
  MaxOpens,    \* bound on open_file_handles
  Limits       \* bounds on inode numbers, crashes and open handles, taken together

ASSUME SimpleFSAssumption ==
  /\ {MaxLen, MaxOpens} \subseteq Nat \ {0}
  /\ Limits \subseteq [inodes : Nat \ {0}, crashes : Nat, handles : Nat]
  /\ \E most \in Limits : \A l \in Limits : l.inodes <= most.inodes
  /\ IsFiniteSet(Names) /\ {".", ".."} \cap Names = {}

VARIABLES
  superblock,  \* the last inode number given out; FUSE_ROOT_ID if no file
  inodes,      \* inodes[i]: InodeAttributes, or Missing
  contents,    \* contents[i]: a length, a DirectoryDescriptor, or Missing
  session,     \* "down" (to be mounted), "up"
  handles,     \* kernel: open handles of each inode
  crashes,     \* crashes so far
  torn,        \* the files that were being written when the process died
  damaged,     \* inodes whose handler was cut short, or that it tore
  missized,    \* files whose size a handler has left wrong
  panicked,    \* the inode on which a handler has just panicked
  limit        \* the bounds of this execution

vars == <<superblock, inodes, contents, session, handles, crashes, torn, damaged,
          missized, panicked, limit>>
store == <<superblock, inodes, contents>>

FUSE_ROOT_ID == 1
MaxInode == Max({l.inodes : l \in Limits})
Inodes == 1 .. MaxInode
NoEntry == 0
Superblock == 0     \* stands for the superblock in damaged and panicked

Missing == [kind |-> "Missing"]
Attrs(kind, links, opens, size) ==
  [kind |-> kind, hardlinks |-> links, open_file_handles |-> opens,
   size |-> size]
Data(n) == [kind |-> "Data", len |-> n]
Directory(entries) == [kind |-> "Directory", entries |-> entries]

Exists(i) == inodes[i] # Missing
HasContent(i) == contents[i] # Missing
IsDir(i) == inodes[i].kind = "Directory"
IsFile(i) == inodes[i].kind = "File"

NoEntries == [m \in Names \cup {".", ".."} |-> NoEntry]
NewEntries(i, parent) == [NoEntries EXCEPT !["."] = i, ![".."] = parent]
Entry(i, m) ==
  IF contents[i].kind = "Directory" THEN contents[i].entries[m] ELSE NoEntry
Entries(i) == [m \in Names \cup {".", ".."} |-> Entry(i, m)]

TornInode(i) == <<"inode", i>> \in torn
TornContent(i) == <<"content", i>> \in torn
TornSuperblock == <<"superblock", Superblock>> \in torn

(* get_directory_content succeeds.                                         *)
Readable(i) == HasContent(i) /\ ~TornContent(i)

-----------------------------------------------------------------------------
(* What a handler writes.                                                  *)
WriteInode(i, attrs) == [to |-> "inode", i |-> i, val |-> attrs]
WriteContent(i, c) == [to |-> "content", i |-> i, val |-> c]
WriteDir(i, entries) == WriteContent(i, Directory(entries))
RemoveInode(i) == [to |-> "rm_inode", i |-> i]
RemoveContent(i) == [to |-> "rm_content", i |-> i]
Touch(i) == WriteInode(i, inodes[i])
Panic(i) == [to |-> "panic", i |-> i]
Opened(i) == [to |-> "handle", i |-> i]

(* A directory is read, changed and written.                               *)
UpdateDir(i, entries) ==
  IF Readable(i) THEN WriteDir(i, entries) ELSE Panic(i)

(* allocate_next_inode.                                                    *)
NextInode == superblock + 1
MayAllocate == NextInode <= limit.inodes
AllocateInode == [to |-> "superblock", i |-> NextInode]

(* Mutant: a file is removed although it is open.                          *)
gc_inode_open(i, attrs) ==
  IF attrs.hardlinks = 0 THEN <<RemoveInode(i), RemoveContent(i)>> ELSE <<>>

(* gc_inode on attributes that were just written.                          *)
gc_inode(i, attrs) ==
  IF attrs.hardlinks = 0 /\ attrs.open_file_handles = 0
    THEN <<RemoveInode(i), RemoveContent(i)>> ELSE <<>>

(* One link of a file less, or none for a directory; "hardlinks -= 1"      *)
(* panics at zero (overflow checks, as in the dev profile).                *)
DropLink(i) ==
  LET a == [inodes[i] EXCEPT !.hardlinks = IF IsDir(i) THEN 0 ELSE @ - 1]
  IN  IF ~IsDir(i) /\ inodes[i].hardlinks = 0
        THEN <<Panic(i)>>
        ELSE <<WriteInode(i, a)>> \o gc_inode(i, a)

(* lookup_name: an entry whose inode does not exist is not found.          *)
lookup_name(parent, m) ==
  LET i == Entry(parent, m)
  IN  IF i # NoEntry /\ Exists(i) THEN i ELSE NoEntry

(* The inode on whose file lookup_name panics, if it does.                 *)
Unreadable(parent, m) ==
  IF TornContent(parent) THEN parent
  ELSE IF TornInode(Entry(parent, m)) THEN Entry(parent, m) ELSE NoEntry

-----------------------------------------------------------------------------
(* The kernel's view: what it finds without a panic.                       *)
Children(S) ==
  {i \in {lookup_name(p, m) : p \in {d \in S : IsDir(d) /\ ~TornContent(d)},
                              m \in Names} :
     i # NoEntry /\ ~TornInode(i)}
Below(i) ==
  LET reach[n \in 0 .. MaxInode] ==
        IF n = 0 THEN {i} ELSE LET S == reach[n - 1] IN S \cup Children(S)
  IN  reach[MaxInode]
Linked == {i \in Inodes \cap Below(FUSE_ROOT_ID) : Exists(i)}
LinkedDirs == {i \in Linked : IsDir(i)}
LinkedFiles == {i \in Linked : ~IsDir(i)}
OpenHandles == SumFunction(handles)

-----------------------------------------------------------------------------
(* Removing what is not there, and a failed check, panics.                 *)
Panics(d, w) ==
  \/ w.to = "panic"
  \/ w.to = "rm_inode" /\ d.inodes[w.i] = Missing
  \/ w.to = "rm_content" /\ d.contents[w.i] = Missing

Apply(d, w) ==
  CASE w.to = "superblock" -> [d EXCEPT !.superblock = w.i]
    [] w.to = "inode"      -> [d EXCEPT !.inodes[w.i] = w.val]
    [] w.to = "rm_inode"   -> [d EXCEPT !.inodes[w.i] = Missing]
    [] w.to = "content"    -> [d EXCEPT !.contents[w.i] = w.val]
    [] w.to = "rm_content" -> [d EXCEPT !.contents[w.i] = Missing]
    [] w.to = "handle"     -> [d EXCEPT !.handles[w.i] = @ + 1]

(* What the first n writes make of the store, and of the kernel's handles. *)
After(writes, n) ==
  LET done[k \in 0 .. n] ==
        IF k = 0 THEN [superblock |-> superblock, inodes |-> inodes,
                       contents |-> contents, handles |-> handles]
        ELSE Apply(done[k - 1], writes[k])
  IN  done[n]

(* Without the process the kernel drops its handles.                       *)
Down ==
  /\ session' = "down"
  /\ handles' = [i \in Inodes |-> 0]

Store(d) ==
  /\ superblock' = d.superblock
  /\ inodes' = d.inodes
  /\ contents' = d.contents

(* The handler of a request that changes the inodes `is' makes its writes: *)
(* all of them, those before the first that panics, or, if the process is  *)
(* killed, some of them, the last of which may tear its file.              *)
PanicAt(writes) ==
  {n \in DOMAIN writes : Panics(After(writes, n - 1), writes[n])}
Completes(writes) ==
  /\ PanicAt(writes) = {}
  /\ LET d == After(writes, Len(writes))
     IN  Store(d) /\ handles' = d.handles
  /\ session' = "up"
  /\ panicked' = {}
  /\ UNCHANGED <<crashes, torn, damaged>>
HandlerPanics(is, writes) ==
  /\ PanicAt(writes) # {}
  /\ LET n == Min(PanicAt(writes))
     IN  Store(After(writes, n - 1)) /\ panicked' = {writes[n].i}
  /\ Down
  /\ damaged' = damaged \cup is
  /\ UNCHANGED <<crashes, torn>>
Killed(is, writes) ==
  /\ crashes < limit.crashes
  /\ \E n \in 1 .. Len(writes) - 1 :
       /\ PanicAt(writes) \cap 1 .. n = {}
       /\ Store(After(writes, n))
  /\ Down
  /\ crashes' = crashes + 1
  /\ damaged' = damaged \cup is
  /\ panicked' = {}
  /\ UNCHANGED torn

(* The files that are truncated and then serialized into, and what is lost *)
(* with one: a directory takes the names in it along.                      *)
Serialized(w) ==
  \/ w.to \in {"inode", "superblock"}
  \/ w.to = "content" /\ w.val.kind = "Directory"
FileOf(w) ==
  IF w.to = "superblock" THEN <<w.to, Superblock>> ELSE <<w.to, w.i>>
Lost(d, w) ==
  IF w.to = "content" /\ d.contents[w.i].kind = "Directory"
    THEN {w.i} \cup ({d.contents[w.i].entries[m] : m \in Names} \ {NoEntry})
    ELSE {FileOf(w)[2]}
Tears(is, writes) ==
  /\ crashes < limit.crashes
  /\ \E n \in DOMAIN writes :
       /\ PanicAt(writes) \cap 1 .. n = {}
       /\ Serialized(writes[n])
       /\ Store(After(writes, n - 1))
       /\ torn' = torn \cup {FileOf(writes[n])}
       /\ damaged' = damaged \cup is \cup Lost(After(writes, n - 1), writes[n])
  /\ Down
  /\ crashes' = crashes + 1
  /\ panicked' = {}

CutShort(is, writes) ==
  /\ HandlerPanics(is, writes) \/ Killed(is, writes) \/ Tears(is, writes)
  /\ UNCHANGED missized
Handle(is, writes) ==
  \/ Completes(writes) /\ UNCHANGED missized
  \/ CutShort(is, writes)

(* The writes leave another size in the attributes than the content has.   *)
Missizes(i, writes) ==
  \/ Completes(writes) /\ missized' = missized \cup {i}
  \/ CutShort({i}, writes)

(* A torn file of inode i is read before anything is written.              *)
ReadPanics(i) ==
  /\ Down
  /\ panicked' = {i}
  /\ UNCHANGED <<store, crashes, torn, damaged, missized>>

-----------------------------------------------------------------------------
Init ==
  /\ superblock = FUSE_ROOT_ID
  /\ inodes = [i \in Inodes |-> Missing]
  /\ contents = [i \in Inodes |-> Missing]
  /\ session = "down"
  /\ handles = [i \in Inodes |-> 0]
  /\ crashes = 0
  /\ torn = {}
  /\ damaged = {}
  /\ missized = {}
  /\ panicked = {}
  /\ limit \in Limits

(* init: an empty root directory, unless it has attributes already.        *)
init ==
  /\ session = "down"
  /\ ~TornInode(FUSE_ROOT_ID)
  /\ Handle({FUSE_ROOT_ID},
       IF Exists(FUSE_ROOT_ID) THEN <<>>
       ELSE <<WriteInode(FUSE_ROOT_ID, Attrs("Directory", 2, 0, 0)),
              WriteDir(FUSE_ROOT_ID, [NoEntries EXCEPT !["."] = FUSE_ROOT_ID])>>)

(* init reads the attributes of the root.                                  *)
init_panics ==
  /\ session = "down"
  /\ TornInode(FUSE_ROOT_ID)
  /\ ReadPanics(FUSE_ROOT_ID)

(* lookup, and every other handler that begins with lookup_name; readdir.  *)
lookup_panics(parent, m) ==
  /\ Unreadable(parent, m) # NoEntry
  /\ ReadPanics(Unreadable(parent, m))
readdir_panics(i) == TornContent(i) /\ ReadPanics(i)

(* A handler that makes a new inode reads the superblock after it has      *)
(* written the attributes of the parent.                                   *)
Make(parent, writes) ==
  /\ MayAllocate
  /\ Handle({NextInode},
       IF TornSuperblock THEN <<Touch(parent), Panic(Superblock)>> ELSE writes)

(* What mknod and create have in common.                                   *)
NewFile(parent, m, opens) ==
  LET i == NextInode
  IN  << Touch(parent), AllocateInode,
         WriteInode(i, Attrs("File", 1, opens, 0)), WriteContent(i, Data(0)),
         UpdateDir(parent, [Entries(parent) EXCEPT ![m] = i]) >>

mknod(parent, m) ==
  /\ lookup_name(parent, m) = NoEntry
  /\ Make(parent, NewFile(parent, m, 0))

create(parent, m) ==
  /\ lookup_name(parent, m) = NoEntry
  /\ OpenHandles < limit.handles
  /\ Make(parent, NewFile(parent, m, 1) \o <<Opened(NextInode)>>)

mkdir(parent, m) ==
  LET i == NextInode
  IN  /\ lookup_name(parent, m) = NoEntry
      /\ Make(parent,
           << Touch(parent), AllocateInode,
              WriteInode(i, Attrs("Directory", 2, 0, 0)),
              WriteDir(i, NewEntries(i, parent)),
              UpdateDir(parent, [Entries(parent) EXCEPT ![m] = i]) >>)

(* insert_link, once the name is known to be free.                         *)
InsertLink(parent, m, i) ==
  <<Touch(parent), UpdateDir(parent, [Entries(parent) EXCEPT ![m] = i])>>

(* Mutant: the superblock is written when the symlink is complete.         *)
symlink_late(parent, m) ==
  LET i == NextInode
  IN  /\ MayAllocate
      /\ lookup_name(parent, m) = NoEntry
      /\ Handle({i},
           InsertLink(parent, m, i) \o
           <<WriteInode(i, Attrs("Symlink", 1, 0, MaxLen)),
             WriteContent(i, Data(MaxLen)), AllocateInode>>)

(* The number is allocated before the name is looked up, and the entry is  *)
(* written before the inode and the content.                               *)
symlink(parent, m) ==
  LET i == NextInode
      x == Unreadable(parent, m)
  IN  Make(parent,
        <<Touch(parent), AllocateInode>> \o
        IF x # NoEntry THEN <<Panic(x)>>
        ELSE IF lookup_name(parent, m) # NoEntry THEN <<>>
        ELSE InsertLink(parent, m, i) \o
             <<WriteInode(i, Attrs("Symlink", 1, 0, MaxLen)),
               WriteContent(i, Data(0)), WriteContent(i, Data(MaxLen))>>)

(* Mutant: the new name is not counted.                                    *)
link_uncounted(i, parent, m) ==
  /\ inodes[i].hardlinks > 0
  /\ lookup_name(parent, m) = NoEntry
  /\ Handle({i}, InsertLink(parent, m, i))

link(i, parent, m) ==
  /\ inodes[i].hardlinks > 0
  /\ lookup_name(parent, m) = NoEntry
  /\ Handle({i},
       InsertLink(parent, m, i) \o
       <<WriteInode(i, [inodes[i] EXCEPT !.hardlinks = @ + 1])>>)

(* unlink and rmdir: the entry goes last.                                  *)
RemoveName(parent, m, i) ==
  Handle({i}, <<Touch(parent)>> \o DropLink(i) \o
              <<WriteDir(parent, [Entries(parent) EXCEPT ![m] = NoEntry])>>)

unlink(parent, m) ==
  LET i == lookup_name(parent, m)
  IN  /\ i # NoEntry
      /\ ~IsDir(i)
      /\ RemoveName(parent, m, i)

(* len() > 2: only "." and "..".  A name whose inode is gone counts.       *)
NotEmpty(i) == \E m \in Names : Entry(i, m) # NoEntry

rmdir(parent, m) ==
  LET i == lookup_name(parent, m)
  IN  /\ i # NoEntry
      /\ IsDir(i)
      /\ \/ Readable(i) /\ ~NotEmpty(i) /\ RemoveName(parent, m, i)
         \/ ~Readable(i) /\ ReadPanics(i)

(* Mutant: the parent entry of a moved directory is not rewritten.         *)
DotDot_stale(i, entries, parent) == <<>>

(* A directory that has been moved is told its new parent.                 *)
DotDot(i, entries, parent) ==
  IF IsDir(i) THEN <<UpdateDir(i, [entries EXCEPT ![".."] = parent])>> ELSE <<>>

(* The inode i is moved from `m' in p to `n' in q, where `old' may be.     *)
Move(p, m, q, n, i, old) ==
  LET cleared == [Entries(q) EXCEPT ![n] = NoEntry]
      from == [(IF p = q THEN cleared ELSE Entries(p)) EXCEPT ![m] = NoEntry]
      into == [(IF p = q THEN from ELSE cleared) EXCEPT ![n] = i]
  IN  (IF old = NoEntry THEN <<>> ELSE <<WriteDir(q, cleared)>> \o DropLink(old))
      \o << WriteDir(p, from), WriteDir(q, into), Touch(p), Touch(q), Touch(i) >>
      \o DotDot(i, Entries(i), q)

rename(p, m, q, n) ==
  LET i == lookup_name(p, m)
      old == lookup_name(q, n)
  IN  /\ i # NoEntry /\ old # i
      /\ IsDir(i) => q \notin Below(i)
      /\ old # NoEntry => IsDir(i) = IsDir(old)
      /\ IF old # NoEntry /\ IsDir(old) /\ ~Readable(old) THEN ReadPanics(old)
         ELSE /\ old # NoEntry => ~(IsDir(old) /\ NotEmpty(old))
              /\ Handle({i, old} \ {NoEntry}, Move(p, m, q, n, i, old))

(* RENAME_EXCHANGE.                                                        *)
exchange(p, m, q, n) ==
  LET i == lookup_name(p, m)
      j == lookup_name(q, n)
      into == [Entries(q) EXCEPT ![n] = i]
      from == [(IF p = q THEN into ELSE Entries(p)) EXCEPT ![m] = j]
  IN  /\ i # NoEntry /\ j # NoEntry /\ i # j
      /\ IsDir(i) => q \notin Below(i)
      /\ IsDir(j) => p \notin Below(j)
      /\ Handle({i, j},
           << WriteDir(q, into), WriteDir(p, from), Touch(p), Touch(q),
              Touch(i), Touch(j) >>
           \o DotDot(i, Entries(i), q) \o DotDot(j, Entries(j), p))

-----------------------------------------------------------------------------
(* Files and handles.                                                      *)

(* The count is written, then the reply sent.                              *)
OpenHandle(i) ==
  /\ inodes[i].open_file_handles < MaxOpens
  /\ OpenHandles < limit.handles
  /\ Handle({i},
       <<WriteInode(i, [inodes[i] EXCEPT !.open_file_handles = @ + 1]),
         Opened(i)>>)

open(i) == IsFile(i) /\ OpenHandle(i)
opendir(i) == IsDir(i) /\ OpenHandle(i)

(* The count is decremented in a copy that is dropped.                     *)
CloseHandle(i) ==
  /\ handles[i] > 0
  /\ handles' = [handles EXCEPT ![i] = @ - 1]
  /\ panicked' = {}
  /\ UNCHANGED <<store, session, crashes, torn, damaged, missized>>

release(i) == ~IsDir(i) /\ CloseHandle(i)
releasedir(i) == IsDir(i) /\ CloseHandle(i)

Longer(a, b) == IF a < b THEN b ELSE a

(* Mutant: the size is not updated.                                        *)
Extend_unsized(i, end) ==
  <<WriteContent(i, Data(Longer(contents[i].len, end))), Touch(i)>>

(* write, copy_file_range and fallocate up to the offset `end': content,   *)
(* then size.                                                              *)
Resize(i, end) == WriteInode(i, [inodes[i] EXCEPT !.size = Longer(@, end)])
Extend(i, end) ==
  <<WriteContent(i, Data(Longer(contents[i].len, end))), Resize(i, end)>>

(* The size is written although the content has not been extended.         *)
ResizeOnly(i, end) ==
  IF end > inodes[i].size THEN Missizes(i, <<Resize(i, end)>>)
  ELSE Handle({i}, <<Resize(i, end)>>)

Writable(i) == handles[i] > 0 /\ IsFile(i)

write(i, end) == Writable(i) /\ Handle({i}, Extend(i, end))

(* n bytes of src, no more than it has, are copied to the offset; without  *)
(* any, the size is still written, and the offset may be beyond the end.   *)
copy_file_range(src, i, offset, n) ==
  /\ Writable(src) /\ Writable(i)
  /\ n <= contents[src].len /\ offset + n <= MaxLen
  /\ IF n > 0 THEN Handle({i}, Extend(i, offset + n)) ELSE ResizeOnly(i, offset)

fallocate(i, end) == Writable(i) /\ Handle({i}, Extend(i, end))

(* The result of fallocate64 is not looked at.                             *)
fallocate_fails(i, end) == Writable(i) /\ ResizeOnly(i, end)

Truncate(i, len) ==
  << WriteContent(i, Data(len)),
     WriteInode(i, [inodes[i] EXCEPT !.size = len]) >>

(* setattr of the size; of the size and the times, which are written with  *)
(* the attributes read at the beginning, the old size among them; of a     *)
(* mode, an owner or a time.                                               *)
setattr(i, len) == IsFile(i) /\ Handle({i}, Truncate(i, len))
setattr_times(i, len) ==
  /\ IsFile(i)
  /\ LET writes == Truncate(i, len) \o <<Touch(i)>>
     IN  IF len = inodes[i].size THEN Handle({i}, writes) ELSE Missizes(i, writes)
setattr_other(i) == Handle({i}, <<Touch(i)>>)

-----------------------------------------------------------------------------
(* The process is killed, or the filesystem unmounted, between requests.   *)
Stop ==
  /\ session = "up"
  /\ crashes < limit.crashes
  /\ crashes' = crashes + 1
  /\ Down
  /\ panicked' = {}
  /\ UNCHANGED <<store, torn, damaged, missized>>

(* Names that can be looked up: with the others see lookup_panics.         *)
NameRequest(p, m) ==
  \/ mknod(p, m) \/ create(p, m) \/ mkdir(p, m) \/ unlink(p, m) \/ rmdir(p, m)
  \/ \E i \in LinkedFiles : link(i, p, m)
  \/ \E q \in LinkedDirs, n \in Names :
       /\ Unreadable(q, n) = NoEntry
       /\ rename(p, m, q, n) \/ exchange(p, m, q, n)

FileRequest(i) ==
  \/ release(i) \/ releasedir(i)
  \/ \E n \in 1 .. MaxLen : write(i, n) \/ fallocate(i, n) \/ fallocate_fails(i, n)
  \/ \E j \in Inodes, offset, n \in 0 .. MaxLen : copy_file_range(j, i, offset, n)

Request ==
  \/ \E p \in LinkedDirs, m \in Names :
       \/ lookup_panics(p, m) \/ symlink(p, m)
       \/ Unreadable(p, m) = NoEntry /\ NameRequest(p, m)
  \/ \E i \in LinkedFiles :
       open(i) \/ \E n \in 0 .. MaxLen : setattr(i, n) \/ setattr_times(i, n)
  \/ \E i \in LinkedDirs : opendir(i) \/ readdir_panics(i)
  \/ \E i \in LinkedDirs \cup LinkedFiles : setattr_other(i)
  \/ \E i \in Inodes : FileRequest(i)

Next ==
  /\ init \/ init_panics \/ Stop \/ (session = "up" /\ Request)
  /\ UNCHANGED limit

Spec == Init /\ [][Next]_vars

-----------------------------------------------------------------------------
(* Where a name leads to i, torn directories aside.                        *)
Places(i) ==
  {pm \in Inodes \X Names :
     Exists(pm[1]) /\ ~TornContent(pm[1]) /\ Entry(pm[1], pm[2]) = i}

(* A number that allocate_next_inode has yet to give out is used nowhere,  *)
(* even if the process is killed at any point, also in the middle of a     *)
(* file: a name left behind by a crash can never come to denote somebody   *)
(* else's file.                                                            *)
NumbersFresh ==
  \A i \in superblock + 1 .. MaxInode :
    /\ ~Exists(i) /\ ~HasContent(i)
    /\ ~TornInode(i) /\ ~TornContent(i)
    /\ Places(i) = {}

(* hardlinks is the number of names of a file; a directory has one name,   *)
(* and its ".." is where that name is; every name leads to an inode and    *)
(* its content, and nothing without a name is kept unless it was open at   *)
(* some time.  (release does not write its count back, so that what was    *)
(* open stays when its last name goes, against the comments on the field   *)
(* and on gc_inode.)  Excepted are the inodes of requests that a crash cut *)
(* short and, if it tore a file, the inode of the file and those named in  *)
(* the directory: a crash damages nothing else, then or later.             *)
LinksExact(i) ==
  IF ~Exists(i) THEN Places(i) = {} /\ ~HasContent(i)
  ELSE /\ HasContent(i)
       /\ inodes[i].hardlinks = 0 => inodes[i].open_file_handles > 0
       /\ IF IsDir(i)
            THEN \/ inodes[i].hardlinks = 0 /\ Places(i) = {}
                 \/ /\ inodes[i].hardlinks = 2
                    /\ \E pm \in Places(i) :
                         Places(i) = {pm} /\ Entry(i, "..") = pm[1]
            ELSE inodes[i].hardlinks = Cardinality(Places(i))
TreeExact ==
  \A i \in Inodes \ (damaged \cup {FUSE_ROOT_ID}) : LinksExact(i)

(* An open file keeps its inode and its content, and its attributes can be *)
(* read, however its names are removed or replaced, so that the unwraps of *)
(* write, fallocate and copy_file_range succeed.  Only a root whose first  *)
(* init was cut short has no content.                                      *)
OpenFilesKept ==
  \A i \in Inodes : handles[i] > 0 =>
    /\ Exists(i) /\ ~TornInode(i)
    /\ HasContent(i) \/ i = FUSE_ROOT_ID

(* The size of a file is the length of its content, whatever sequence of   *)
(* creations, writes, copies, allocations and truncations it goes through. *)
(* Excepted are files whose request was cut short and those that the code  *)
(* itself gives a wrong size: setattr of size and times together, an       *)
(* allocation that fails, a copy of nothing to beyond the end.             *)
SizeMatches ==
  \A i \in Inodes \ (damaged \cup missized) :
    Exists(i) /\ IsFile(i) => inodes[i].size = contents[i].len

(* The unwraps and the subtraction of a handler fail only on the files of  *)
(* an inode that a crash had damaged before, be it by cutting its request  *)
(* short, by tearing its file, or by tearing the directory it is named in. *)
PanicOnlyIfDamaged ==
  [][panicked' # {} => panicked' \cap damaged # {}]_vars

=============================================================================
