----------------------------- MODULE FuseRequests -----------------------------
(***************************************************************************)
(* From the bytes of a request to the call of a method of the filesystem:    *)
(* ArgumentIterator (ll/argument.rs), the operations and parse               *)
(* (ll/request.rs) and the arms of dispatch_req (request.rs), all under      *)
(* src/fuse/src/fuser.  src/fuse/src/uring_fuse/low_level holds a second     *)
(* copy of the first three.                                                  *)
(*                                                                           *)
(* An Option is a sequence of at most one value.  A SystemTime is a number   *)
(* of NanosPerSec-ths of a second since the epoch.                           *)
(***************************************************************************)
EXTENDS FuseAbi, Integers

CONSTANTS
    NanosPerSec,         \* the model's nanoseconds in a second
    Now                  \* TimeOrNow::Now

None == <<>>
Some(v) == <<v>>

(***************************************************************************)
(* ArgumentIterator.  got is what has been fetched, in order; a fetch that   *)
(* finds too few bytes makes parse return None.  Structures come before      *)
(* strings, so that the panics on unaligned data are not reached.            *)
(***************************************************************************)
ArgumentIterator(data) == [ok |-> TRUE, data |-> data, got |-> <<>>]
Insufficient == [ok |-> FALSE, data |-> <<>>, got |-> <<>>]
Fetched(it, value, cells) ==
    [ok |-> TRUE, got |-> Append(it.got, value),
     data |-> SubSeq(it.data, cells + 1, Len(it.data))]

fetch(it, struct) ==
    IF ~it.ok \/ SizeOf(it.data) < SizeOf(struct) THEN Insufficient
    ELSE Fetched(it, FromBytes(struct, it.data), Len(struct))

fetch_slice(it, struct, count) ==
    IF ~it.ok \/ SizeOf(it.data) < count * SizeOf(struct) THEN Insufficient
    ELSE LET At(i) == SubSeq(it.data, (i - 1) * Len(struct) + 1, Len(it.data))
         IN Fetched(it, [i \in 1 .. count |-> FromBytes(struct, At(i))],
                    count * Len(struct))

\* The bytes before the first zero byte.
fetch_str(it) ==
    LET zeros == {i \in DOMAIN it.data : it.data[i][1] = NUL}
        n == Min(zeros)
    IN IF ~it.ok \/ zeros = {} THEN Insufficient
       ELSE Fetched(it, IF n = 2 THEN it.data[1][1] ELSE Garbage, n)

fetch_all(it) ==
    IF ~it.ok THEN Insufficient ELSE Fetched(it, it.data, Len(it.data))

(***************************************************************************)
(* parse: what each operation fetches: a structure, strings, and for some    *)
(* the rest of the packet.                                                   *)
(***************************************************************************)
Nothing == [arg |-> <<>>, strings |-> 0, rest |-> FALSE]
Str(n) == [Nothing EXCEPT !.strings = n]
Arg(struct) == [Nothing EXCEPT !.arg = struct]
ArgStr(struct, n) == [Arg(struct) EXCEPT !.strings = n]
WithRest(layout) == [layout EXCEPT !.rest = TRUE]

parse_inodes ==
  [FUSE_LOOKUP |-> Str(1),
   FUSE_FORGET |-> Arg(fuse_forget_in),
   FUSE_GETATTR |-> Nothing,
   FUSE_SETATTR |-> Arg(fuse_setattr_in),
   FUSE_READLINK |-> Nothing,
   FUSE_SYMLINK |-> Str(2),
   FUSE_MKNOD |-> ArgStr(fuse_mknod_in, 1),
   FUSE_MKDIR |-> ArgStr(fuse_mkdir_in, 1),
   FUSE_UNLINK |-> Str(1),
   FUSE_RMDIR |-> Str(1),
   FUSE_RENAME |-> ArgStr(fuse_rename_in, 2),
   FUSE_LINK |-> ArgStr(fuse_link_in, 1),
   FUSE_OPEN |-> Arg(fuse_open_in),
   FUSE_READ |-> Arg(fuse_read_in),
   FUSE_WRITE |-> WithRest(Arg(fuse_write_in)),
   FUSE_STATFS |-> Nothing,
   FUSE_RELEASE |-> Arg(fuse_release_in),
   FUSE_FSYNC |-> Arg(fuse_fsync_in),
   FUSE_SETXATTR |-> WithRest(ArgStr(fuse_setxattr_in, 1)),
   FUSE_GETXATTR |-> ArgStr(fuse_getxattr_in, 1),
   FUSE_LISTXATTR |-> Arg(fuse_getxattr_in),
   FUSE_REMOVEXATTR |-> Str(1)]

parse_others ==
  [FUSE_FLUSH |-> Arg(fuse_flush_in),
   FUSE_INIT |-> Arg(fuse_init_in),
   FUSE_OPENDIR |-> Arg(fuse_open_in),
   FUSE_READDIR |-> Arg(fuse_read_in),
   FUSE_RELEASEDIR |-> Arg(fuse_release_in),
   FUSE_FSYNCDIR |-> Arg(fuse_fsync_in),
   FUSE_GETLK |-> Arg(fuse_lk_in),
   FUSE_SETLK |-> Arg(fuse_lk_in),
   FUSE_SETLKW |-> Arg(fuse_lk_in),
   FUSE_ACCESS |-> Arg(fuse_access_in),
   FUSE_CREATE |-> ArgStr(fuse_create_in, 1),
   FUSE_INTERRUPT |-> Arg(fuse_interrupt_in),
   FUSE_BMAP |-> Arg(fuse_bmap_in),
   FUSE_DESTROY |-> Nothing,
   FUSE_IOCTL |-> WithRest(Arg(fuse_ioctl_in)),
   FUSE_POLL |-> Arg(fuse_poll_in),
   FUSE_NOTIFY_REPLY |-> WithRest(Nothing),
   FUSE_BATCH_FORGET |-> Arg(fuse_batch_forget_in),
   FUSE_FALLOCATE |-> Arg(fuse_fallocate_in),
   FUSE_READDIRPLUS |-> Arg(fuse_read_in),
   FUSE_RENAME2 |-> ArgStr(fuse_rename2_in, 2),
   FUSE_LSEEK |-> Arg(fuse_lseek_in),
   FUSE_COPY_FILE_RANGE |-> Arg(fuse_copy_file_range_in),
   CUSE_INIT |-> Arg(fuse_init_in)]

parse(op, data) ==
    LET layout == IF op \in DOMAIN parse_inodes
                  THEN parse_inodes[op] ELSE parse_others[op]
        start == ArgumentIterator(data)
        arg == IF layout.arg = <<>> THEN start ELSE fetch(start, layout.arg)
        strings == CASE layout.strings = 0 -> arg
                     [] layout.strings = 1 -> fetch_str(arg)
                     [] layout.strings = 2 -> fetch_str(fetch_str(arg))
    IN CASE op = "FUSE_BATCH_FORGET" /\ arg.ok ->
              fetch_slice(arg, fuse_forget_one, arg.got[1].count)
         [] layout.rest -> fetch_all(strings)
         [] OTHER -> strings

\* The lengths parse asserts for what follows the arguments of a WRITE and a
\* SETXATTR.
LengthsAgree(op, x) ==
    op \in {"FUSE_WRITE", "FUSE_SETXATTR"} => SizeOf(Last(x)) = x[1].size

(***************************************************************************)
(* The operations and their accessors.  x is what parse fetched.             *)
(***************************************************************************)
Given(word, bit, value) == IF bit \in word THEN Some(value) ELSE None

system_time_from_time(secs, nsecs) ==
    IF secs >= 0 THEN secs * NanosPerSec + nsecs
    ELSE -((-secs) * NanosPerSec + nsecs)

Lookup(x) == [name |-> x[1]]
Forget(x) == [nlookup |-> x[1].nlookup]

SetAttr(x) ==
    LET a == x[1]
        TimeOrNow(bit, now, secs, nsecs) ==
            Given(a.valid, bit,
                  IF now \in a.valid THEN Now
                  ELSE system_time_from_time(secs, nsecs))
    IN [mode |-> Given(a.valid, FATTR_MODE, a.mode),
        uid |-> Given(a.valid, FATTR_UID, a.uid),
        gid |-> Given(a.valid, FATTR_GID, a.gid),
        size |-> Given(a.valid, FATTR_SIZE, a.size),
        atime |-> TimeOrNow(FATTR_ATIME, FATTR_ATIME_NOW, a.atime, a.atimensec),
        mtime |-> TimeOrNow(FATTR_MTIME, FATTR_MTIME_NOW, a.mtime, a.mtimensec),
        ctime |-> Given(a.valid, FATTR_CTIME,
                        system_time_from_time(a.ctime, a.ctimensec)),
        file_handle |-> Given(a.valid, FATTR_FH, a.fh),
        crtime |-> None, chgtime |-> None, bkuptime |-> None, flags |-> None]

SymLink(x) == [target |-> x[1], link |-> x[2]]
MkNod(x) == [name |-> x[2], mode |-> x[1].mode, umask |-> x[1].umask,
             rdev |-> x[1].rdev]
MkDir(x) == [name |-> x[2], mode |-> x[1].mode, umask |-> x[1].umask]
Unlink(x) == [name |-> x[1]]
RmDir(x) == [name |-> x[1]]
Rename(h, x) == [src |-> [dir |-> h.nodeid, name |-> x[2]],
                 dest |-> [dir |-> x[1].newdir, name |-> x[3]]]
Link(h, x) == [inode_no |-> x[1].oldnodeid,
               dest |-> [dir |-> h.nodeid, name |-> x[2]]]
Open(x) == [flags |-> x[1].flags]

Read(x) ==
    LET a == x[1]
    IN [file_handle |-> a.fh, offset |-> a.offset, size |-> a.size,
        lock_owner |-> Given(a.read_flags, FUSE_READ_LOCKOWNER, a.lock_owner),
        flags |-> a.flags]
Write(x) ==
    LET a == x[1]
    IN [file_handle |-> a.fh, offset |-> a.offset, data |-> x[2],
        write_flags |-> a.write_flags, flags |-> a.flags,
        lock_owner |-> Given(a.write_flags, FUSE_WRITE_LOCKOWNER, a.lock_owner)]

Release(x) ==
    LET a == x[1]
    IN [flush |-> FUSE_RELEASE_FLUSH \in a.release_flags,
        file_handle |-> a.fh, flags |-> a.flags,
        lock_owner |-> Given(a.release_flags, FUSE_RELEASE_FLOCK_UNLOCK,
                             a.lock_owner)]
FSync(x) == [file_handle |-> x[1].fh,
             fdatasync |-> FUSE_FSYNC_FDATASYNC \in x[1].fsync_flags]

SetXAttr(x) == [name |-> x[2], value |-> x[3], flags |-> x[1].flags,
                position |-> 0]
GetXAttr(x) == [name |-> x[2], size_u32 |-> x[1].size]
ListXAttr(x) == [size |-> x[1].size]
RemoveXAttr(x) == [name |-> x[1]]
Flush(x) == [file_handle |-> x[1].fh, lock_owner |-> x[1].lock_owner]
InitOp(x) == [capabilities |-> x[1].flags,
              max_readahead |-> x[1].max_readahead,
              version |-> <<x[1].major, x[1].minor>>]

OpenDir(x) == [flags |-> x[1].flags]
ReadDir(x) == [file_handle |-> x[1].fh, offset |-> x[1].offset,
               size |-> x[1].size]
ReleaseDir(x) == [file_handle |-> x[1].fh, flags |-> x[1].flags]
FSyncDir(x) == [file_handle |-> x[1].fh,
                fdatasync |-> FUSE_FSYNC_FDATASYNC \in x[1].fsync_flags]

\* Lock::from_abi
from_abi(lk) == [range |-> <<lk.start, lk.end>>, typ |-> lk.typ, pid |-> lk.pid]
GetLk(x) == [file_handle |-> x[1].fh, lock |-> from_abi(x[1]),
             lock_owner |-> x[1].owner]
SetLk(x) == [file_handle |-> x[1].fh, lock |-> from_abi(x[1]),
             lock_owner |-> x[1].owner]
SetLkW(x) == [file_handle |-> x[1].fh, lock |-> from_abi(x[1]),
              lock_owner |-> x[1].owner]
Access(x) == [mask |-> x[1].mask]
Create(x) == [name |-> x[2], mode |-> x[1].mode, flags |-> x[1].flags,
              umask |-> x[1].umask]
BMap(x) == [block_size |-> x[1].blocksize, block |-> x[1].block]

\* in_data panics when the packet holds fewer bytes than in_size; more are cut
\* off, which for data of one cell leaves garbage.
IoCtl(x) ==
    [in_data |-> IF SizeOf(x[2]) = x[1].in_size THEN x[2] ELSE Garbage,
     unrestricted |-> FUSE_IOCTL_UNRESTRICTED \in x[1].flags,
     file_handle |-> x[1].fh, flags |-> x[1].flags, command |-> x[1].cmd,
     out_size |-> x[1].out_size]
BatchForget(x) == [nodes |-> x[2]]
FAllocate(x) == [file_handle |-> x[1].fh, offset |-> x[1].offset,
                 len |-> x[1].length, mode |-> x[1].mode]
ReadDirPlus(x) == [file_handle |-> x[1].fh, offset |-> x[1].offset,
                   size |-> x[1].size]
Rename2(h, x) == [from |-> [dir |-> h.nodeid, name |-> x[2]],
                  to |-> [dir |-> x[1].newdir, name |-> x[3]],
                  flags |-> x[1].flags]
Lseek(x) == [file_handle |-> x[1].fh, offset |-> x[1].offset,
             whence |-> x[1].whence]
CopyFileRange(h, x) ==
    LET a == x[1]
    IN [src |-> [inode |-> h.nodeid, file_handle |-> a.fh_in, offset |-> a.off_in],
        dest |-> [inode |-> a.nodeid_out, file_handle |-> a.fh_out,
                  offset |-> a.off_out],
        len |-> a.len, flags |-> a.flags]

(***************************************************************************)
(* dispatch_req: the method an operation calls and its arguments in order,   *)
(* or the error it answers itself.                                           *)
(***************************************************************************)
Call(method, args) == [method |-> method, args |-> args]
Refuse(errno) == [method |-> errno, args |-> <<>>]

InodeCalls == {"FUSE_LOOKUP", "FUSE_FORGET", "FUSE_GETATTR", "FUSE_SETATTR",
    "FUSE_READLINK", "FUSE_MKNOD", "FUSE_MKDIR", "FUSE_UNLINK", "FUSE_RMDIR",
    "FUSE_SYMLINK", "FUSE_RENAME", "FUSE_LINK"}
FileCalls == {"FUSE_OPEN", "FUSE_READ", "FUSE_WRITE", "FUSE_FLUSH",
    "FUSE_RELEASE", "FUSE_FSYNC", "FUSE_OPENDIR", "FUSE_READDIR",
    "FUSE_RELEASEDIR", "FUSE_FSYNCDIR", "FUSE_STATFS"}
AttributeCalls == {"FUSE_SETXATTR", "FUSE_GETXATTR", "FUSE_LISTXATTR",
    "FUSE_REMOVEXATTR", "FUSE_ACCESS", "FUSE_CREATE", "FUSE_GETLK",
    "FUSE_SETLK", "FUSE_SETLKW", "FUSE_BMAP"}
Unhandled == {"FUSE_INTERRUPT", "FUSE_POLL", "FUSE_NOTIFY_REPLY", "CUSE_INIT"}

dispatch_inode(op, h, x) ==
    LET ino == h.nodeid
    IN CASE op = "FUSE_LOOKUP" -> Call("lookup", <<ino, Lookup(x).name>>)
         [] op = "FUSE_FORGET" -> Call("forget", <<ino, Forget(x).nlookup>>)
         [] op = "FUSE_GETATTR" -> Call("getattr", <<ino>>)
         [] op = "FUSE_SETATTR" ->
              LET a == SetAttr(x)
              IN Call("setattr",
                      <<ino, a.mode, a.uid, a.gid, a.size, a.atime, a.mtime,
                        a.ctime, a.file_handle, a.crtime, a.chgtime,
                        a.bkuptime, a.flags>>)
         [] op = "FUSE_READLINK" -> Call("readlink", <<ino>>)
         [] op = "FUSE_MKNOD" ->
              Call("mknod", <<ino, MkNod(x).name, MkNod(x).mode,
                              MkNod(x).umask, MkNod(x).rdev>>)
         [] op = "FUSE_MKDIR" ->
              Call("mkdir", <<ino, MkDir(x).name, MkDir(x).mode, MkDir(x).umask>>)
         [] op = "FUSE_UNLINK" -> Call("unlink", <<ino, Unlink(x).name>>)
         [] op = "FUSE_RMDIR" -> Call("rmdir", <<ino, RmDir(x).name>>)
         [] op = "FUSE_SYMLINK" ->
              Call("symlink", <<ino, SymLink(x).target, SymLink(x).link>>)
         [] op = "FUSE_RENAME" ->
              LET r == Rename(h, x)
              IN Call("rename", <<ino, r.src.name, r.dest.dir, r.dest.name, {}>>)
         [] op = "FUSE_LINK" ->
              Call("link", <<Link(h, x).inode_no, ino, Link(h, x).dest.name>>)

dispatch_file(op, h, x) ==
    LET ino == h.nodeid
    IN CASE op = "FUSE_OPEN" -> Call("open", <<ino, Open(x).flags>>)
         [] op = "FUSE_READ" ->
              LET r == Read(x)
              IN Call("read", <<ino, r.file_handle, r.offset, r.size, r.flags,
                                r.lock_owner>>)
         [] op = "FUSE_WRITE" ->
              LET w == Write(x)
              IN Call("write", <<ino, w.file_handle, w.offset, w.data,
                                 w.write_flags, w.flags, w.lock_owner>>)
         [] op = "FUSE_FLUSH" ->
              Call("flush", <<ino, Flush(x).file_handle, Flush(x).lock_owner>>)
         [] op = "FUSE_RELEASE" ->
              LET r == Release(x)
              IN Call("release", <<ino, r.file_handle, r.flags, r.lock_owner,
                                   r.flush>>)
         [] op = "FUSE_FSYNC" ->
              Call("fsync", <<ino, FSync(x).file_handle, FSync(x).fdatasync>>)
         [] op = "FUSE_OPENDIR" -> Call("opendir", <<ino, OpenDir(x).flags>>)
         [] op = "FUSE_READDIR" ->
              Call("readdir", <<ino, ReadDir(x).file_handle, ReadDir(x).offset>>)
         [] op = "FUSE_RELEASEDIR" ->
              Call("releasedir", <<ino, ReleaseDir(x).file_handle,
                                   ReleaseDir(x).flags>>)
         [] op = "FUSE_FSYNCDIR" ->
              Call("fsyncdir", <<ino, FSyncDir(x).file_handle,
                                 FSyncDir(x).fdatasync>>)
         [] op = "FUSE_STATFS" -> Call("statfs", <<ino>>)

dispatch_attribute(op, h, x) ==
    LET ino == h.nodeid
        Lock(l) == <<ino, l.file_handle, l.lock_owner, l.lock.range[1],
                     l.lock.range[2], l.lock.typ, l.lock.pid>>
    IN CASE op = "FUSE_SETXATTR" ->
              LET a == SetXAttr(x)
              IN Call("setxattr", <<ino, a.name, a.value, a.flags, a.position>>)
         [] op = "FUSE_GETXATTR" ->
              Call("getxattr", <<ino, GetXAttr(x).name, GetXAttr(x).size_u32>>)
         [] op = "FUSE_LISTXATTR" ->
              Call("listxattr", <<ino, ListXAttr(x).size>>)
         [] op = "FUSE_REMOVEXATTR" ->
              Call("removexattr", <<ino, RemoveXAttr(x).name>>)
         [] op = "FUSE_ACCESS" -> Call("access", <<ino, Access(x).mask>>)
         [] op = "FUSE_CREATE" ->
              Call("create", <<ino, Create(x).name, Create(x).mode,
                               Create(x).umask, Create(x).flags>>)
         [] op = "FUSE_GETLK" -> Call("getlk", Lock(GetLk(x)))
         [] op = "FUSE_SETLK" -> Call("setlk", Append(Lock(SetLk(x)), FALSE))
         [] op = "FUSE_SETLKW" -> Call("setlk", Append(Lock(SetLkW(x)), TRUE))
         [] op = "FUSE_BMAP" ->
              Call("bmap", <<ino, BMap(x).block_size, BMap(x).block>>)

dispatch_later(op, h, x) ==
    LET ino == h.nodeid
    IN CASE op = "FUSE_DESTROY" -> Call("destroy", <<>>)
         [] op = "FUSE_IOCTL" ->
              LET i == IoCtl(x)
              IN IF i.unrestricted THEN Refuse("ENOSYS")
                 ELSE Call("ioctl", <<ino, i.file_handle, i.flags, i.command,
                                      i.in_data, i.out_size>>)
         [] op = "FUSE_BATCH_FORGET" ->
              Call("batch_forget", <<BatchForget(x).nodes>>)
         [] op = "FUSE_FALLOCATE" ->
              LET f == FAllocate(x)
              IN Call("fallocate", <<ino, f.file_handle, f.offset, f.len, f.mode>>)
         [] op = "FUSE_READDIRPLUS" ->
              LET r == ReadDirPlus(x)
              IN Call("readdirplus", <<ino, r.file_handle, r.offset>>)
         [] op = "FUSE_RENAME2" ->
              LET r == Rename2(h, x)
              IN Call("rename", <<r.from.dir, r.from.name, r.to.dir, r.to.name,
                                  r.flags>>)
         [] op = "FUSE_LSEEK" ->
              Call("lseek", <<ino, Lseek(x).file_handle, Lseek(x).offset,
                              Lseek(x).whence>>)
         [] op = "FUSE_COPY_FILE_RANGE" ->
              LET c == CopyFileRange(h, x)
              IN IF c.flags \subseteq 0 .. 31
                 THEN Call("copy_file_range",
                           <<c.src.inode, c.src.file_handle, c.src.offset,
                             c.dest.inode, c.dest.file_handle, c.dest.offset,
                             c.len, c.flags>>)
                 ELSE Refuse("panic")

dispatch_req(op, h, x) ==
    CASE op \in InodeCalls -> dispatch_inode(op, h, x)
      [] op \in FileCalls -> dispatch_file(op, h, x)
      [] op \in AttributeCalls -> dispatch_attribute(op, h, x)
      [] op \in Unhandled -> Refuse("ENOSYS")
      [] OTHER -> dispatch_later(op, h, x)

\* AnyRequest::try_from: the header and the arguments the header's length
\* bounds, or FALSE for a short read.
try_from(packet) ==
    LET it == fetch(ArgumentIterator(packet), fuse_in_header)
        header == it.got[1]
    IN IF ~it.ok THEN [ok |-> FALSE]
       ELSE IF SizeOf(packet) < header.len THEN [ok |-> FALSE]
       ELSE LET last == Max({k \in 0 .. Len(packet) :
                                SizeOf(SubSeq(packet, 1, k)) <= header.len})
            IN [ok |-> TRUE, header |-> header,
                data |-> SubSeq(packet, Len(fuse_in_header) + 1, last)]

\* AnyRequest::operation and the dispatch that follows: an unknown operation
\* and arguments that are too short are answered with ENOSYS.
Dispatched(header, data) ==
    LET ops == try_from_opcode(header.opcode)
        op == CHOOSE o \in ops : TRUE
        parsed == parse(op, data)
    IN CASE ops = {} -> Refuse("ENOSYS")
         [] ops # {} /\ ~parsed.ok -> Refuse("ENOSYS")
         [] ops # {} /\ parsed.ok /\ ~LengthsAgree(op, parsed.got) ->
              Refuse("panic")
         [] OTHER -> dispatch_req(op, header, parsed.got)
=============================================================================
