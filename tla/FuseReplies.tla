----------------------------- MODULE FuseReplies ------------------------------
(***************************************************************************)
(* From what a method of the filesystem answers to the bytes of the reply:   *)
(* the Reply types (src/fuse/src/fuser/reply.rs) and the Responses they      *)
(* build (src/fuse/src/fuser/ll/reply.rs).  A Duration and a SystemTime are  *)
(* numbers of NanosPerSec-ths of a second; that a Reply is used once is      *)
(* the business of module Session.                                           *)
(***************************************************************************)
EXTENDS FuseRequests

\* libc's numbers of the file types: S_IFMT >> 12.
FileType == [NamedPipe |-> 1, CharDevice |-> 2, Directory |-> 4,
             BlockDevice |-> 6, RegularFile |-> 8, Symlink |-> 10,
             Socket |-> 12]

\* libc's numbers of the errors that occur.
Errno == [EPERM |-> 1, EIO |-> 5, EACCES |-> 13, ENOSYS |-> 38, EPROTO |-> 71]

(***************************************************************************)
(* Responses                                                                *)
(***************************************************************************)
new_error(errno) == [errno |-> Errno[errno], data |-> <<>>]
new_empty == [errno |-> 0, data |-> <<>>]
new_data(cells) == [errno |-> 0, data |-> cells]
from_struct(struct, values) == new_data(AsBytes(struct, values))

with_iovec(response, unique) ==
    AsBytes(fuse_out_header,
            [unique |-> unique,
             error |-> -response.errno,
             len |-> SizeOf(fuse_out_header) + SizeOf(response.data)])
    \o response.data

as_secs(duration) == duration \div NanosPerSec
subsec_nanos(duration) == duration % NanosPerSec

\* A plausible mistake: the sign of a time before the epoch is lost.
time_from_system_time_unsigned(time) ==
    IF time >= 0 THEN <<as_secs(time), subsec_nanos(time)>>
    ELSE <<as_secs(-time), subsec_nanos(-time)>>
time_from_system_time(time) ==
    IF time >= 0 THEN <<as_secs(time), subsec_nanos(time)>>
    ELSE <<-as_secs(-time), subsec_nanos(-time)>>

\* perm has the 12 bits below the file type.
mode_from_kind_and_perm(kind, perm) == FileType[kind] * 4096 + perm

fuse_attr_from_attr(attr) ==
    LET a == time_from_system_time(attr.atime)
        m == time_from_system_time(attr.mtime)
        c == time_from_system_time(attr.ctime)
    IN [ino |-> attr.ino, size |-> attr.size, blocks |-> attr.blocks,
        atime |-> a[1], mtime |-> m[1], ctime |-> c[1],
        atimensec |-> a[2], mtimensec |-> m[2], ctimensec |-> c[2],
        mode |-> mode_from_kind_and_perm(attr.kind, attr.perm),
        nlink |-> attr.nlink, uid |-> attr.uid, gid |-> attr.gid,
        rdev |-> attr.rdev, blksize |-> attr.blksize]

EntryOut(ino, generation, attr, attr_ttl, entry_ttl) ==
    attr @@ [nodeid |-> ino, generation |-> generation,
             entry_valid |-> as_secs(entry_ttl),
             attr_valid |-> as_secs(attr_ttl),
             entry_valid_nsec |-> subsec_nanos(entry_ttl),
             attr_valid_nsec |-> subsec_nanos(attr_ttl)]

new_entry(ino, generation, attr, attr_ttl, entry_ttl) ==
    from_struct(fuse_entry_out,
                EntryOut(ino, generation, attr, attr_ttl, entry_ttl))
new_attr(ttl, attr) ==
    from_struct(fuse_attr_out, attr @@ [attr_valid |-> as_secs(ttl),
                                        attr_valid_nsec |-> subsec_nanos(ttl)])
new_open(fh, flags) ==
    from_struct(fuse_open_out, [fh |-> fh, open_flags |-> flags])
new_lock(lock) ==
    from_struct(fuse_lk_out, [start |-> lock.range[1], end |-> lock.range[2],
                              typ |-> lock.typ, pid |-> lock.pid])
new_bmap(block) == from_struct(fuse_bmap_out, [block |-> block])
new_write(written) == from_struct(fuse_write_out, [size |-> written])
new_statfs(blocks, bfree, bavail, files, ffree, bsize, namelen, frsize) ==
    from_struct(fuse_statfs_out,
                [blocks |-> blocks, bfree |-> bfree, bavail |-> bavail,
                 files |-> files, ffree |-> ffree, bsize |-> bsize,
                 namelen |-> namelen, frsize |-> frsize])
new_create(ttl, attr, generation, fh, flags) ==
    new_data(AsBytes(fuse_entry_out, EntryOut(attr.ino, generation, attr, ttl, ttl))
             \o AsBytes(fuse_open_out, [fh |-> fh, open_flags |-> flags]))
new_ioctl(result, data) ==
    new_data(AsBytes(fuse_ioctl_out, [result |-> result, in_iovs |-> 1,
                                      out_iovs |-> 1]) \o data)
new_xattr_size(size) == from_struct(fuse_getxattr_out, [size |-> size])
new_lseek(offset) == from_struct(fuse_lseek_out, [offset |-> offset])

(***************************************************************************)
(* Directory listings                                                       *)
(***************************************************************************)
EntListBuf(max_size) == [max_size |-> max_size, buf |-> <<>>]

Align64(n) == ((n + 7) \div 8) * 8

\* A plausible mistake: the padding of the entry is forgotten.
Full_unpadded(list, ent) == SizeOf(list.buf) + SizeOf(ent) > list.max_size
Full(list, ent) == SizeOf(list.buf) + Align64(SizeOf(ent)) > list.max_size

\* push: the list with the entry, padded to 8 bytes, or, when it would not
\* fit, the list as it is.
push(list, ent) ==
    LET padlen == Align64(SizeOf(ent)) - SizeOf(ent)
        padding == IF padlen = 0 THEN <<>> ELSE <<<<0, padlen>>>>
    IN IF Full(list, ent) THEN list
       ELSE [list EXCEPT !.buf = @ \o ent \o padding]

\* The bytes of an entry.  name is a sequence of one cell.
DirEntry(ino, offset, kind, name) ==
    AsBytes(fuse_dirent,
            [ino |-> ino, off |-> offset, namelen |-> SizeOf(name),
             typ |-> mode_from_kind_and_perm(kind, 0) \div 4096]) \o name
DirEntryPlus(ino, generation, offset, name, entry_valid, attr, attr_valid) ==
    AsBytes(fuse_entry_out,
            EntryOut(attr.ino, generation, attr, attr_valid, entry_valid))
    \o AsBytes(fuse_dirent, [ino |-> attr.ino, off |-> offset,
                             namelen |-> SizeOf(name),
                             typ |-> attr.mode \div 4096]) \o name

(***************************************************************************)
(* The Reply types                                                          *)
(***************************************************************************)
ReplyEmpty_ok == new_empty
ReplyData_data(data) == new_data(data)
ReplyEntry_entry(ttl, attr, generation) ==
    new_entry(attr.ino, generation, fuse_attr_from_attr(attr), ttl, ttl)
ReplyAttr_attr(ttl, attr) == new_attr(ttl, fuse_attr_from_attr(attr))
ReplyOpen_opened(fh, flags) == new_open(fh, flags)
ReplyWrite_written(size) == new_write(size)
ReplyStatfs_statfs(blocks, bfree, bavail, files, ffree, bsize, namelen, frsize) ==
    new_statfs(blocks, bfree, bavail, files, ffree, bsize, namelen, frsize)
ReplyCreate_created(ttl, attr, generation, fh, flags) ==
    new_create(ttl, fuse_attr_from_attr(attr), generation, fh, flags)
ReplyLock_locked(start, end, typ, pid) ==
    new_lock([range |-> <<start, end>>, typ |-> typ, pid |-> pid])
ReplyBmap_bmap(block) == new_bmap(block)
ReplyIoctl_ioctl(result, data) == new_ioctl(result, data)
ReplyXattr_size(size) == new_xattr_size(size)
ReplyXattr_data(data) == new_data(data)
ReplyLseek_offset(offset) == new_lseek(offset)

ReplyDirectory_add(list, ino, offset, kind, name) ==
    push(list, DirEntry(ino, offset, kind, name))
ReplyDirectoryPlus_add(list, ino, offset, name, ttl, attr, generation) ==
    push(list, DirEntryPlus(ino, generation, offset, name, ttl,
                            fuse_attr_from_attr(attr), ttl))
ReplyDirectory_ok(list) == new_data(list.buf)
=============================================================================
