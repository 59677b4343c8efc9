------------------------------- MODULE FuseAbi -------------------------------
(***************************************************************************)
(* The structures and constants the FUSE device is spoken to with           *)
(* (src/fuse/src/fuser/ll/fuse_abi.rs, built with the default feature       *)
(* abi-7-30 on Linux).  A packet is a sequence of cells <<value, width>>:   *)
(* a field of a structure, a string, the zero byte after it, or a block of  *)
(* data, with its width in bytes.  A structure is the sequence of its       *)
(* fields with their widths; a nested structure is written out in place.    *)
(* A flag word is the set of the numbers of its bits.                       *)
(***************************************************************************)
EXTENDS Naturals, Sequences, SequencesExt, FiniteSetsExt

CONSTANT NUL            \* the byte 0 that ends a string
CONSTANT Garbage        \* the value read where no field starts

(***************************************************************************)
(* Bytes and structures                                                     *)
(***************************************************************************)
U64(fields) == [i \in DOMAIN fields |-> <<fields[i], 8>>]
U32(fields) == [i \in DOMAIN fields |-> <<fields[i], 4>>]
U16(fields) == [i \in DOMAIN fields |-> <<fields[i], 2>>]

\* size_of: the bytes a structure, or a sequence of cells, takes.
SizeOf(cells) ==
    LET upto[n \in 0 .. Len(cells)] ==
            IF n = 0 THEN 0 ELSE upto[n - 1] + cells[n][2]
    IN upto[Len(cells)]

\* as_bytes: a structure with the given values, and 0 where it has none
\* (padding and unused fields).
AsBytes(struct, values) ==
    [i \in DOMAIN struct |->
        <<IF struct[i][1] \in DOMAIN values THEN values[struct[i][1]] ELSE 0,
          struct[i][2]>>]

\* The values of the fields of a structure that starts the cells; where the
\* cells are those of another structure, every field reads as Garbage.
FromBytes(struct, cells) ==
    LET fits == \A k \in DOMAIN struct : cells[k][2] = struct[k][2]
    IN [f \in {struct[i][1] : i \in DOMAIN struct} |->
           IF fits THEN cells[CHOOSE i \in DOMAIN struct : struct[i][1] = f][1]
           ELSE Garbage]

(***************************************************************************)
(* Constants                                                                *)
(***************************************************************************)
FUSE_KERNEL_MINOR_VERSION == 30

\* Bits of fuse_setattr_in.valid
FATTR_MODE == 0
FATTR_UID == 1
FATTR_GID == 2
FATTR_SIZE == 3
FATTR_ATIME == 4
FATTR_MTIME == 5
FATTR_FH == 6
FATTR_ATIME_NOW == 7
FATTR_MTIME_NOW == 8
FATTR_CTIME == 10

\* Bits of the INIT request and reply
FUSE_ASYNC_READ == 0
FUSE_BIG_WRITES == 5
FUSE_MAX_PAGES == 22

\* Bits of the other requests
FUSE_RELEASE_FLUSH == 0
FUSE_RELEASE_FLOCK_UNLOCK == 1
FUSE_WRITE_LOCKOWNER == 1
FUSE_READ_LOCKOWNER == 1
FUSE_IOCTL_UNRESTRICTED == 1
FUSE_FSYNC_FDATASYNC == 0

\* fuse_opcode: the operations by their numbers.
fuse_opcode ==
  [FUSE_LOOKUP |-> 1, FUSE_FORGET |-> 2, FUSE_GETATTR |-> 3,
   FUSE_SETATTR |-> 4, FUSE_READLINK |-> 5, FUSE_SYMLINK |-> 6,
   FUSE_MKNOD |-> 8, FUSE_MKDIR |-> 9, FUSE_UNLINK |-> 10,
   FUSE_RMDIR |-> 11, FUSE_RENAME |-> 12, FUSE_LINK |-> 13,
   FUSE_OPEN |-> 14, FUSE_READ |-> 15, FUSE_WRITE |-> 16,
   FUSE_STATFS |-> 17, FUSE_RELEASE |-> 18, FUSE_FSYNC |-> 20,
   FUSE_SETXATTR |-> 21, FUSE_GETXATTR |-> 22, FUSE_LISTXATTR |-> 23,
   FUSE_REMOVEXATTR |-> 24, FUSE_FLUSH |-> 25, FUSE_INIT |-> 26,
   FUSE_OPENDIR |-> 27, FUSE_READDIR |-> 28, FUSE_RELEASEDIR |-> 29,
   FUSE_FSYNCDIR |-> 30, FUSE_GETLK |-> 31, FUSE_SETLK |-> 32,
   FUSE_SETLKW |-> 33, FUSE_ACCESS |-> 34, FUSE_CREATE |-> 35,
   FUSE_INTERRUPT |-> 36, FUSE_BMAP |-> 37, FUSE_DESTROY |-> 38,
   FUSE_IOCTL |-> 39, FUSE_POLL |-> 40, FUSE_NOTIFY_REPLY |-> 41,
   FUSE_BATCH_FORGET |-> 42, FUSE_FALLOCATE |-> 43,
   FUSE_READDIRPLUS |-> 44, FUSE_RENAME2 |-> 45, FUSE_LSEEK |-> 46,
   FUSE_COPY_FILE_RANGE |-> 47, CUSE_INIT |-> 4096]

\* try_from: the operation of a number, as a set that is empty for a number
\* that names none (InvalidOpcodeError).
try_from_opcode(n) == {op \in DOMAIN fuse_opcode : fuse_opcode[op] = n}

(***************************************************************************)
(* Headers                                                                  *)
(***************************************************************************)
fuse_in_header == U32(<<"len", "opcode">>) \o U64(<<"unique", "nodeid">>)
                  \o U32(<<"uid", "gid", "pid", "padding">>)
fuse_out_header == U32(<<"len", "error">>) \o U64(<<"unique">>)

(***************************************************************************)
(* What requests carry                                                      *)
(***************************************************************************)
fuse_file_lock == U64(<<"start", "end">>) \o U32(<<"typ", "pid">>)

fuse_forget_in == U64(<<"nlookup">>)
fuse_forget_one == U64(<<"nodeid", "nlookup">>)
fuse_batch_forget_in == U32(<<"count", "dummy">>)

fuse_mknod_in == U32(<<"mode", "rdev", "umask", "padding">>)
fuse_mkdir_in == U32(<<"mode", "umask">>)
fuse_rename_in == U64(<<"newdir">>)
fuse_rename2_in == U64(<<"newdir">>) \o U32(<<"flags", "padding">>)
fuse_link_in == U64(<<"oldnodeid">>)

fuse_setattr_in ==
    U32(<<"valid", "padding">>)
    \o U64(<<"fh", "size", "lock_owner", "atime", "mtime", "ctime">>)
    \o U32(<<"atimensec", "mtimensec", "ctimensec",
             "mode", "unused4", "uid", "gid", "unused5">>)

fuse_open_in == U32(<<"flags", "unused">>)
fuse_create_in == U32(<<"flags", "mode", "umask", "padding">>)
fuse_release_in == U64(<<"fh">>) \o U32(<<"flags", "release_flags">>)
                   \o U64(<<"lock_owner">>)
fuse_flush_in == U64(<<"fh">>) \o U32(<<"unused", "padding">>)
                 \o U64(<<"lock_owner">>)
fuse_read_in == U64(<<"fh", "offset">>) \o U32(<<"size", "read_flags">>)
                \o U64(<<"lock_owner">>) \o U32(<<"flags", "padding">>)
fuse_write_in == U64(<<"fh", "offset">>) \o U32(<<"size", "write_flags">>)
                 \o U64(<<"lock_owner">>) \o U32(<<"flags", "padding">>)
fuse_fsync_in == U64(<<"fh">>) \o U32(<<"fsync_flags", "padding">>)

fuse_setxattr_in == U32(<<"size", "flags">>)
fuse_getxattr_in == U32(<<"size", "padding">>)
fuse_lk_in == U64(<<"fh", "owner">>) \o fuse_file_lock
              \o U32(<<"lk_flags", "padding">>)
fuse_access_in == U32(<<"mask", "padding">>)
fuse_init_in == U32(<<"major", "minor", "max_readahead", "flags">>)
fuse_interrupt_in == U64(<<"unique">>)
fuse_bmap_in == U64(<<"block">>) \o U32(<<"blocksize", "padding">>)
fuse_ioctl_in == U64(<<"fh">>) \o U32(<<"flags", "cmd">>) \o U64(<<"arg">>)
                 \o U32(<<"in_size", "out_size">>)
fuse_poll_in == U64(<<"fh", "kh">>) \o U32(<<"flags", "events">>)
fuse_fallocate_in == U64(<<"fh", "offset", "length">>)
                     \o U32(<<"mode", "padding">>)
fuse_lseek_in == U64(<<"fh", "offset">>) \o U32(<<"whence", "padding">>)
fuse_copy_file_range_in ==
    U64(<<"fh_in", "off_in", "nodeid_out", "fh_out", "off_out", "len", "flags">>)

(***************************************************************************)
(* What replies carry                                                       *)
(***************************************************************************)
fuse_attr ==
    U64(<<"ino", "size", "blocks", "atime", "mtime", "ctime">>)
    \o U32(<<"atimensec", "mtimensec", "ctimensec", "mode", "nlink",
             "uid", "gid", "rdev", "blksize", "padding">>)

fuse_kstatfs ==
    U64(<<"blocks", "bfree", "bavail", "files", "ffree">>)
    \o U32(<<"bsize", "namelen", "frsize", "padding">>)
    \o U32([i \in 1 .. 6 |-> "spare"])

fuse_entry_out ==
    U64(<<"nodeid", "generation", "entry_valid", "attr_valid">>)
    \o U32(<<"entry_valid_nsec", "attr_valid_nsec">>) \o fuse_attr

fuse_attr_out == U64(<<"attr_valid">>) \o U32(<<"attr_valid_nsec", "dummy">>)
                 \o fuse_attr

fuse_open_out == U64(<<"fh">>) \o U32(<<"open_flags", "padding">>)
fuse_create_out == fuse_entry_out \o fuse_open_out
fuse_write_out == U32(<<"size", "padding">>)
fuse_statfs_out == fuse_kstatfs
fuse_getxattr_out == U32(<<"size", "padding">>)
fuse_lk_out == fuse_file_lock

fuse_init_out ==
    U32(<<"major", "minor", "max_readahead", "flags">>)
    \o U16(<<"max_background", "congestion_threshold">>)
    \o U32(<<"max_write", "time_gran">>) \o U16(<<"max_pages", "unused2">>)
    \o U32([i \in 1 .. 8 |-> "reserved"])

fuse_bmap_out == U64(<<"block">>)
fuse_ioctl_out == U32(<<"result", "flags", "in_iovs", "out_iovs">>)
fuse_lseek_out == U64(<<"offset">>)

\* A dirent is followed by its name; a direntplus is an entry and a dirent.
fuse_dirent == U64(<<"ino", "off">>) \o U32(<<"namelen", "typ">>)
=============================================================================
