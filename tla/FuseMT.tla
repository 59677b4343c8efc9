------------------------------- MODULE FuseMT -------------------------------
(***************************************************************************)
(* The handlers of async_fuse/fusemt.rs that change the inode table or the *)
(* directory cache or open files, the target filesystem they call, and the *)
(* kernel that calls them.  Requests are handled one at a time by the      *)
(* session loop, so a handler is one step; reads, writes and flushes of    *)
(* open files go to a pool of threads.                                     *)
(*                                                                         *)
(* The kernel (external) is modelled by what limits its requests: it names *)
(* only inodes it holds, a name it asks to remove or rename has a dentry,  *)
(* one it asks to create has none, and it never forgets more lookups of an *)
(* inode than it was given.  It reads a directory page by page, going on   *)
(* from the cookie of the last entry it consumed.  It releases a file when *)
(* every request on it has been answered.  The target is a PassthroughFS   *)
(* over a tree of files and directories (external) with POSIX rules, whose *)
(* handles follow their file when it is renamed, and which nobody else     *)
(* changes.                                                                *)
(***************************************************************************)
EXTENDS InodeTable, DirectoryCache, PassthroughFS, FiniteSets, FiniteSetsExt, SequencesExt

CONSTANTS
  Names,       \* names of directory entries
  MaxLookups,  \* bound on the lookups of an inode the kernel holds
  PageSize,    \* entries of a directory that fit in a reply buffer
  Offsets,     \* where files are read and written
  MaxJobs,     \* bound on the requests in the pool
  Limits       \* bounds, one of which a behaviour keeps: the inode numbers
               \* in use, their generations, the opendir and open calls,
               \* num_threads, and whether lstat can fail

ASSUME FuseMTAssumption ==
  /\ Paths \subseteq Seq(Names)
  /\ {MaxLookups, PageSize} \subseteq Nat \ {0}
  /\ Offsets \subseteq Nat /\ MaxJobs \in Nat
  /\ Limits \subseteq [inodes : Nat \ {0}, reuse : Nat, keys : Nat,
                      handles : Nat, threads : Nat, stat_fails : BOOLEAN]

(* The entries of a directory, of the directory cache, of the kernel's     *)
(* record of what it has read, and of the table of open descriptors.       *)
Lists == Seq(Names \cup {".", ".."})
CacheEntries == [fh : Nat, entries : Lists \cup {NoList}]
Readings == [ino : Nat, pos : Nat, seen : Lists, atEnd : BOOLEAN,
             first : Lists \cup {NoList}]
Descriptors == [path : Seq(Names) \cup {NoName}, pos : Nat]

(* None and "not there" are told apart from what may be there.             *)
ASSUME MarkersAssumption ==
  /\ IsFiniteSet(Names)
  /\ NoPath \notin Seq(Names) /\ NoList \notin Lists
  /\ Deleted \notin Seq(Names) \cup {NoPath} \cup Nat
  /\ Deleted \notin CacheEntries \cup Readings
  /\ Closed \notin Descriptors

VARIABLES
  inodes,    \* FuseMT.inodes
  target,    \* the target filesystem: what is at each path
  nlookup,   \* kernel: lookups held of each inode
  dentry,    \* kernel: the inode of a name in a directory, or NoInode
  dirs,      \* kernel: the held inodes that are directories
  directory_cache,  \* FuseMT.directory_cache
  targetDirs,  \* target: the directory of each handle, NoPath if removed,
               \* Deleted if the handle was released
  listing,   \* kernel: what it has read through each directory handle
  fds,       \* target: the open descriptors
  files,     \* kernel: the inode of each file handle it holds, or Deleted
  jobs,      \* the pool: requests that are waiting or being executed
  panicked,  \* the panic that ended the session: "duplicate path", "rename",
             \* "forget", or "no"
  limit      \* the bounds of this behaviour

vars == <<inodes, target, nlookup, dentry, dirs, directory_cache, targetDirs,
          listing, fds, files, jobs, panicked, limit>>
kernel == <<nlookup, dentry, dirs>>
listings == <<directory_cache, listing>>
openFiles == <<fds, files, jobs>>

Inodes == UNION {1 .. l.inodes : l \in Limits}

Init ==
  /\ inodes = NewTable
  /\ target = [p \in Paths |-> IF p = <<>> THEN "dir" ELSE "none"]
  /\ nlookup = [i \in Inodes |-> 0]
  /\ dentry = [d \in Inodes \X Names |-> NoInode]
  /\ dirs = {Root}
  /\ directory_cache = NewCache
  /\ targetDirs = <<Deleted>>
  /\ listing = <<>>
  /\ fds = NoDescriptors /\ files = <<>> /\ jobs = <<>>
  /\ panicked = "no"
  /\ limit \in Limits

-----------------------------------------------------------------------------
Held(i) == i = Root \/ nlookup[i] > 0
OpenKeys == {k \in DOMAIN listing : listing[k] # Deleted}

(* A request on `name' in the directory `parent' that the kernel can send, *)
(* for a path within the bounds of the model.                              *)
Child(parent, name) == Append(get_path(inodes, parent), name)
Request(parent, name) ==
  /\ panicked = "no"
  /\ parent \in dirs /\ Held(parent)
  /\ Child(parent, name) \in Paths

(* The inode that the table hands out next is within the bounds.           *)
MayAllocate ==
  LET i == NextInode(inodes)
  IN  /\ i <= limit.inodes
      /\ i \in 1 .. Len(inodes.table) => inodes.table[i].generation < limit.reuse

(* The kernel is told that `name' in `parent' is inode i.                  *)
ReplyEntry(parent, name, i, kind) ==
  /\ nlookup' = [nlookup EXCEPT ![i] = @ + 1]
  /\ dentry' = [dentry EXCEPT ![<<parent, name>>] = i]
  /\ dirs' = IF kind = "dir" THEN dirs \cup {i} ELSE dirs \ {i}

Empty(p) == \A q \in Paths : IsStrictPrefix(p, q) => target[q] = "none"
ParentIsDir(p) == target[Front(p)] = "dir"

-----------------------------------------------------------------------------
(* Handlers.                                                               *)

(* getattr of the target, add_or_get, then one more lookup.                *)
lookup(parent, name) ==
  LET path == Child(parent, name)
      T == add_or_get(inodes, path)
      i == T.by_path[path]
  IN  /\ Request(parent, name)
      /\ IF target[path] = "none"
           THEN /\ dentry' = [dentry EXCEPT ![<<parent, name>>] = NoInode]
                /\ UNCHANGED <<inodes, nlookup, dirs>>
           ELSE /\ inodes.by_path[path] = NoInode => MayAllocate
                /\ nlookup[i] < MaxLookups
                /\ inodes' = lookup_inc(T, i)
                /\ ReplyEntry(parent, name, i, target[path])
      /\ UNCHANGED <<target, targetDirs, listings, openFiles, panicked>>

forget(i, n) ==
  /\ panicked = "no"
  /\ i # Root
  /\ n \in 1 .. nlookup[i]
  /\ nlookup' = [nlookup EXCEPT ![i] = @ - n]
  /\ IF n = nlookup[i]
       THEN /\ \A m \in Names : dentry[<<i, m>>] = NoInode
            /\ \A k \in OpenKeys : listing[k].ino # i
            /\ \A fh \in DOMAIN files : files[fh] # i
            /\ dentry' = [d \in Inodes \X Names |->
                            IF dentry[d] = i THEN NoInode ELSE dentry[d]]
            /\ dirs' = dirs \ {i}
       ELSE UNCHANGED <<dentry, dirs>>
  /\ IF ForgetFails(inodes, i, n)
       THEN panicked' = "forget" /\ UNCHANGED inodes
       ELSE inodes' = forget_n(inodes, i, n) /\ UNCHANGED panicked
  /\ UNCHANGED <<target, targetDirs, listings, openFiles>>

(* mknod, mkdir, symlink, link and create of the target.                   *)
TargetMakes(path, kind) ==
  /\ ParentIsDir(path) /\ target[path] = "none"
  /\ target' = [target EXCEPT ![path] = kind]

(* The target has made the entry and cannot stat it: it answers an error.  *)
StatFails(path, kind) ==
  /\ limit.stat_fails
  /\ TargetMakes(path, kind)
  /\ UNCHANGED <<inodes, kernel, panicked>>

(* The target makes the new entry, then `add' puts its path in the table.  *)
Added(parent, name, kind) ==
  LET path == Child(parent, name)
  IN  /\ MayAllocate
      /\ TargetMakes(path, kind)
      /\ IF DuplicatePath(inodes, path)
           THEN panicked' = "duplicate path" /\ UNCHANGED <<inodes, kernel>>
           ELSE /\ inodes' = add(inodes, path)
                /\ ReplyEntry(parent, name, NextInode(inodes), kind)
                /\ UNCHANGED panicked

NewEntry(parent, name, kind) ==
  /\ Request(parent, name)
  /\ dentry[<<parent, name>>] = NoInode
  /\ Added(parent, name, kind) \/ StatFails(Child(parent, name), kind)
  /\ UNCHANGED <<targetDirs, listings>>

mknod(parent, name) == NewEntry(parent, name, "file") /\ UNCHANGED openFiles
symlink(parent, name) == NewEntry(parent, name, "file") /\ UNCHANGED openFiles
mkdir(parent, name) == NewEntry(parent, name, "dir") /\ UNCHANGED openFiles

(* create also opens the file.  When the target cannot stat it, or `add'   *)
(* panics, it stays open and nobody holds the handle.                      *)
create(parent, name) ==
  /\ Len(fds) < limit.handles
  /\ NewEntry(parent, name, "file")
  /\ fds' = CreateFile(fds, Child(parent, name))
  /\ files' = Append(files, IF inodes' = inodes THEN NoInode ELSE NextInode(inodes))
  /\ UNCHANGED jobs

(* A hard link gets an inode of its own.                                   *)
link(i, newparent, newname) ==
  /\ i \in Inodes \ dirs /\ nlookup[i] > 0
  /\ target[get_path(inodes, i)] = "file"
  /\ NewEntry(newparent, newname, "file")
  /\ UNCHANGED openFiles

FileNames == Seq(Names) \cup {NoName}
TargetRemoves(path) == target' = [target EXCEPT ![path] = "none"]

unlink(parent, name) ==
  LET path == Child(parent, name)
  IN  /\ Request(parent, name)
      /\ dentry[<<parent, name>>] \notin dirs \cup {NoInode}
      /\ target[path] = "file"
      /\ TargetRemoves(path)
      /\ inodes' = unlink_path(inodes, path)
      /\ dentry' = [dentry EXCEPT ![<<parent, name>>] = NoInode]
      /\ fds' = Renamed(fds, [p \in FileNames |-> IF p = path THEN NoName ELSE p])
      /\ UNCHANGED <<nlookup, dirs, targetDirs, listings, files, jobs, panicked>>

(* rmdir does not touch the inode table.                                   *)
rmdir(parent, name) ==
  LET path == Child(parent, name)
  IN  /\ Request(parent, name)
      /\ dentry[<<parent, name>>] \in dirs
      /\ target[path] = "dir" /\ Empty(path)
      /\ TargetRemoves(path)
      /\ dentry' = [dentry EXCEPT ![<<parent, name>>] = NoInode]
      /\ targetDirs' = [fh \in DOMAIN targetDirs |->
                          IF targetDirs[fh] = path THEN NoPath ELSE targetDirs[fh]]
      /\ UNCHANGED <<inodes, nlookup, dirs, listings, openFiles, panicked>>

(* The whole tree at `old' stays within the bounds of the model.           *)
Rest(p, q) == SubSeq(q, Len(p) + 1, Len(q))
MoveFits(old, new) ==
  \A p \in Paths : IsPrefix(old, p) /\ target[p] # "none" =>
    new \o Rest(old, p) \in Paths

(* What is at p once the tree at `old' has been moved to `new'.            *)
Moved(old, new, p) ==
  IF IsPrefix(old, p) THEN "none"
  ELSE IF IsPrefix(new, p)
         THEN LET q == old \o Rest(new, p)
              IN  IF q \in Paths THEN target[q] ELSE "none"
  ELSE target[p]

MovedFile(old, new, p) ==
  IF p = NoName THEN p
  ELSE IF IsPrefix(old, p) THEN new \o Rest(old, p)
  ELSE IF p = new THEN NoName ELSE p

MovedDir(old, new, p) ==
  IF p \in {NoPath, Deleted} THEN p
  ELSE IF IsPrefix(old, p) THEN new \o Rest(old, p)
  ELSE IF p = new THEN NoPath ELSE p

(* The target has renamed before the table's unwrap can fail.              *)
rename(parent, name, newparent, newname) ==
  LET old == Child(parent, name)
      new == Child(newparent, newname)
  IN  /\ Request(parent, name) /\ Request(newparent, newname)
      /\ dentry[<<parent, name>>] # NoInode
      /\ ~IsPrefix(old, new)
      /\ target[old] # "none" /\ ParentIsDir(new)
      /\ target[new] \in {"none", target[old]} /\ Empty(new)
      /\ MoveFits(old, new)
      /\ target' = [p \in Paths |-> Moved(old, new, p)]
      /\ targetDirs' = [fh \in DOMAIN targetDirs |->
                          MovedDir(old, new, targetDirs[fh])]
      /\ fds' = Renamed(fds, [p \in FileNames |-> MovedFile(old, new, p)])
      /\ IF RenameFails(inodes, old)
           THEN panicked' = "rename" /\ UNCHANGED <<inodes, kernel>>
           ELSE /\ inodes' = rename_path(inodes, old, new)
                /\ dentry' = [dentry EXCEPT
                     ![<<newparent, newname>>] = dentry[<<parent, name>>],
                     ![<<parent, name>>] = NoInode]
                /\ UNCHANGED <<nlookup, dirs, panicked>>
      /\ UNCHANGED <<listings, files, jobs>>

-----------------------------------------------------------------------------
(* Directories.                                                            *)

opendir(i) ==
  LET path == get_path(inodes, i)
  IN  /\ panicked = "no"
      /\ i \in dirs /\ Held(i)
      /\ NextKey(directory_cache) <= limit.keys
      /\ path \in Paths /\ target[path] = "dir"
      /\ targetDirs' = Append(targetDirs, path)
      /\ directory_cache' = new_entry(directory_cache, Len(targetDirs) + 1)
      /\ listing' = Append(listing, [ino |-> i, pos |-> 0, seen |-> <<>>,
                                     atEnd |-> FALSE, first |-> NoList])
      /\ UNCHANGED <<inodes, target, kernel, openFiles, panicked>>

(* What the target returns for a handle: all the entries, in some order.   *)
Children(p) == {n \in Names : /\ Append(p, n) \in Paths
                              /\ target[Append(p, n)] # "none"}
TargetLists(fh) ==
  IF targetDirs[fh] = NoPath THEN {<<>>}
  ELSE {<<".", "..">> \o l : l \in SetToSeqs(Children(targetDirs[fh]))}

(* The entries of a handle: the first readdir asks the target for them.    *)
Fetched(k) ==
  IF directory_cache[k].entries = NoList
    THEN TargetLists(real_fh(directory_cache, k))
    ELSE {directory_cache[k].entries}

(* Mutant: the cookie is the entry's own index, not the next one.          *)
Page_same(list, offset) ==
  LET n == Min({PageSize, Len(list) - offset})
  IN  [i \in 1 .. n |-> [name |-> list[offset + i], cookie |-> offset + i - 1]]

(* Entries from the offset on, each with the cookie to go on from, up to   *)
(* the one that makes reply.add say that the buffer is full.               *)
Page(list, offset) ==
  LET n == Min({PageSize, Len(list) - offset})
  IN  [i \in 1 .. n |-> [name |-> list[offset + i], cookie |-> offset + i]]

(* The kernel consumes a part of the page, or learns that it is the end.   *)
Consumed(l, page) ==
  IF page = <<>>
    THEN {[l EXCEPT !.atEnd = TRUE]}
    ELSE {[l EXCEPT !.pos = page[m].cookie,
                    !.seen = @ \o [j \in 1 .. m |-> page[j].name]] :
          m \in DOMAIN page}

(* The inode of ".." is looked up by path; without one the reply is EIO.   *)
readdir(k) ==
  LET i == listing[k].ino
      path == get_path(inodes, i)
      parent == IF i = Root THEN i ELSE inodes.by_path[Front(path)]
  IN  /\ panicked = "no"
      /\ HasKey(directory_cache, k)
      /\ \E list \in Fetched(k) :
           LET l == [listing[k] EXCEPT !.first = IF @ = NoList THEN list ELSE @]
           IN  /\ directory_cache' = set_entries(directory_cache, k, list)
               /\ \/ /\ parent = NoInode
                     /\ listing' = [listing EXCEPT ![k] = l]
                  \/ /\ parent # NoInode
                     /\ \E new \in Consumed(l, Page(list, l.pos)) :
                          listing' = [listing EXCEPT ![k] = new]
      /\ UNCHANGED <<inodes, target, kernel, targetDirs, openFiles, panicked>>

(* The target fails with an error half-way through the directory: nothing  *)
(* of what it has read is kept, and the kernel may ask again.              *)
readdir_fails(k) ==
  /\ panicked = "no"
  /\ HasKey(directory_cache, k)
  /\ directory_cache[k].entries = NoList
  /\ UNCHANGED <<inodes, target, kernel, directory_cache, listing, targetDirs,
                 openFiles, panicked>>

Rewind(k) ==
  /\ panicked = "no"
  /\ HasKey(directory_cache, k)
  /\ listing' = [listing EXCEPT
                   ![k] = [@ EXCEPT !.pos = 0, !.seen = <<>>, !.atEnd = FALSE]]
  /\ UNCHANGED <<inodes, target, kernel, directory_cache, targetDirs, openFiles,
                 panicked>>

(* The target's handle is released, then the entry deleted.                *)
releasedir(k) ==
  /\ panicked = "no"
  /\ HasKey(directory_cache, k)
  /\ targetDirs' = [targetDirs EXCEPT ![real_fh(directory_cache, k)] = Deleted]
  /\ directory_cache' = delete(directory_cache, k)
  /\ listing' = [listing EXCEPT ![k] = Deleted]
  /\ UNCHANGED <<inodes, target, kernel, openFiles, panicked>>

-----------------------------------------------------------------------------
(* Files.                                                                  *)
tree == <<inodes, target, kernel, targetDirs, listings>>

(* The target opens what is at the path of the inode.                      *)
open(i) ==
  LET path == get_path(inodes, i)
  IN  /\ panicked = "no"
      /\ i \in Inodes \ dirs /\ Held(i)
      /\ Len(fds) < limit.handles
      /\ path \in Paths /\ target[path] = "file"
      /\ fds' = OpenFile(fds, path)
      /\ files' = Append(files, i)
      /\ UNCHANGED <<tree, jobs, panicked>>

(* A handle the kernel holds; it releases one without requests on it.      *)
HeldFiles == {fh \in DOMAIN files : files[fh] \notin {NoInode, Deleted}}
Quiet(fh) == \A j \in DOMAIN jobs : jobs[j].fh # fh

release(fh) ==
  /\ panicked = "no"
  /\ Quiet(fh)
  /\ fds' = CloseFile(fds, fh)
  /\ files' = [files EXCEPT ![fh] = Deleted]
  /\ UNCHANGED <<tree, jobs, panicked>>

(* threadpool_run: at once, without threads, or in the order of the queue. *)
Job(op, fh, offset) == [op |-> op, fh |-> fh, offset |-> offset, sought |-> FALSE]
Transfers == {"read", "write"}

threadpool_run(job) ==
  IF limit.threads = 0
    THEN /\ fds' = IF job.op \in Transfers
                     THEN Advance(SeekTo(fds, job.fh, job.offset), job.fh)
                     ELSE fds
         /\ UNCHANGED jobs
    ELSE /\ Len(jobs) < MaxJobs
         /\ jobs' = Append(jobs, job)
         /\ UNCHANGED fds

FileRequest(op, fh, offset) ==
  /\ panicked = "no"
  /\ threadpool_run(Job(op, fh, offset))
  /\ UNCHANGED <<tree, files, panicked>>

read(fh, offset) == FileRequest("read", fh, offset)
write(fh, offset) == FileRequest("write", fh, offset)
flush(fh) == FileRequest("flush", fh, 0)
fsync(fh) == FileRequest("fsync", fh, 0)

(* A thread takes the next job; its first system call positions the file.  *)
Started == {j \in DOMAIN jobs : jobs[j].sought}
Seek ==
  LET j == Cardinality(Started) + 1
      job == jobs[j]
  IN  /\ j \in DOMAIN jobs /\ j <= limit.threads
      /\ job.op \in Transfers
      /\ fds' = SeekTo(fds, job.fh, job.offset)
      /\ jobs' = [jobs EXCEPT ![j].sought = TRUE]
      /\ UNCHANGED <<tree, files, panicked>>

(* The last system call of a job, after which it replies.                  *)
Transfer(j) ==
  /\ jobs[j].sought
  /\ fds' = Advance(fds, jobs[j].fh)
  /\ jobs' = RemoveAt(jobs, j)
  /\ UNCHANGED <<tree, files, panicked>>

(* A job that is one system call, or whose seek failed.                    *)
Finish ==
  LET j == Cardinality(Started) + 1
  IN  /\ j \in DOMAIN jobs /\ j <= limit.threads
      /\ jobs' = RemoveAt(jobs, j)
      /\ UNCHANGED <<tree, fds, files, panicked>>

-----------------------------------------------------------------------------
NameRequest(i, m) ==
  \/ lookup(i, m) \/ create(i, m) \/ mknod(i, m) \/ symlink(i, m)
  \/ mkdir(i, m) \/ unlink(i, m) \/ rmdir(i, m)

DirectoryRequest ==
  \/ \E i \in Inodes : opendir(i)
  \/ \E k \in OpenKeys :
       readdir(k) \/ readdir_fails(k) \/ Rewind(k) \/ releasedir(k)

OpenFileRequest ==
  \/ \E i \in Inodes : open(i)
  \/ \E fh \in HeldFiles :
       \/ release(fh) \/ flush(fh) \/ fsync(fh)
       \/ \E offset \in Offsets : read(fh, offset) \/ write(fh, offset)

PoolStep == Seek \/ Finish \/ \E j \in DOMAIN jobs : Transfer(j)

Step ==
  \/ \E i \in Inodes, m \in Names : NameRequest(i, m)
  \/ \E i \in Inodes, n \in 1 .. MaxLookups : forget(i, n)
  \/ \E i, j \in Inodes, m \in Names : link(i, j, m)
  \/ \E i, j \in Inodes, m, n \in Names : rename(i, m, j, n)
  \/ DirectoryRequest
  \/ OpenFileRequest
  \/ PoolStep

Next == Step /\ UNCHANGED limit

Spec == Init /\ [][Next]_vars

-----------------------------------------------------------------------------
Known == 1 .. Len(inodes.table)
Free == ToSet(inodes.free_list)

(* The table agrees with itself and with the lookups that the kernel       *)
(* holds, however creates, unlinks, renames over existing files and        *)
(* forgets alternate.  Entries are free exactly when nobody has a lookup   *)
(* on them, each is in the free list once, and no path leads to one, so    *)
(* that `add' and `add_or_get' never hand out an inode in use; a path is   *)
(* mapped only to an inode that is mapped back to it; and a forget never   *)
(* trips "assert!(n <= entry.lookups)" nor the unwrap of its path.         *)
TableExact ==
  /\ IsInjective(inodes.free_list)
  /\ Free = {i \in Known : inodes.table[i].path = NoPath}
  /\ \A i \in Known \ {Root} :
       /\ inodes.table[i].lookups = nlookup[i]
       /\ i \in Free <=> nlookup[i] = 0
  /\ \A p \in Paths : inodes.by_path[p] # NoInode =>
       /\ inodes.by_path[p] \notin Free
       /\ inodes.table[inodes.by_path[p]].path = p
  /\ panicked # "forget"

(* An inode keeps its generation while the kernel holds it, and one that   *)
(* was forgotten is handed out again with the next generation: a pair of   *)
(* inode and generation that the kernel forgot never comes back.  While it *)
(* is held, a pair follows the path in its entry, which need not be the    *)
(* same file: rename does not touch the entries below a renamed directory, *)
(* and a lookup of a new file at such a path finds the old entry.          *)
GenerationFresh ==
  [][ \A i \in Known \ {Root} :
        inodes'.table[i].generation =
          IF nlookup[i] = 0 /\ nlookup'[i] > 0
            THEN inodes.table[i].generation + 1
            ELSE inodes.table[i].generation ]_vars

(* "fuse-mt ... takes care of paginating it": whatever part of each page   *)
(* the kernel consumes and however the directory changes meanwhile, it has *)
(* seen the entries of the directory as first read, in order, none twice   *)
(* and none left out, and all of them once it is told that it is at the    *)
(* end.                                                                    *)
PagesExact ==
  \A k \in OpenKeys : listing[k].first # NoList =>
    /\ listing[k].seen = SubSeq(listing[k].first, 1, listing[k].pos)
    /\ listing[k].atEnd => listing[k].seen = listing[k].first

(* The keys the kernel holds are those of the cache ("no such directory    *)
(* cache key" never panics), and every directory handle open in the target *)
(* belongs to exactly one of them: none is leaked or released twice.  The  *)
(* descriptors open in the target are the file handles the kernel holds    *)
(* and those of a create that failed, and "after release, no more calls    *)
(* will be made with the given file handle", not even by a thread of the   *)
(* pool.                                                                   *)
HandlesMatch ==
  LET keys == {k \in DOMAIN directory_cache : HasKey(directory_cache, k)}
  IN  /\ keys = OpenKeys
      /\ {fh \in DOMAIN targetDirs : targetDirs[fh] # Deleted}
           = {real_fh(directory_cache, k) : k \in keys}
      /\ \A k, l \in keys :
           real_fh(directory_cache, k) = real_fh(directory_cache, l) => k = l
      /\ {fh \in DOMAIN fds : IsOpen(fds, fh)} = {fh \in DOMAIN files : files[fh] # Deleted}
      /\ \A j \in DOMAIN jobs : IsOpen(fds, jobs[j].fh)

(* Reads and writes take place at the offset of the request although they  *)
(* are a seek of a shared descriptor and then a transfer, because a pool   *)
(* of one thread, which mount_passthrough asks for, runs them one by one.  *)
TransfersInPlace ==
  \A j \in DOMAIN jobs : jobs[j].sought /\ limit.threads <= 1 =>
    fds[jobs[j].fh].pos = jobs[j].offset

=============================================================================
