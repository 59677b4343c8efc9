--------------------------------- MODULE Wire ---------------------------------
(***************************************************************************)
(* One request at a time from the kernel to a method of the filesystem and   *)
(* its answer back, byte for byte (src/fuse/src/fuser): the kernel encodes a *)
(* call, the session parses and dispatches it, the method answers with one   *)
(* of the Reply types, and the kernel decodes the reply.  INIT comes first   *)
(* and fixes the size of later writes.  Directories are listed by as many    *)
(* READDIR or READDIRPLUS requests as it takes.                              *)
(*                                                                           *)
(* The kernel is external: what it sends and how it reads replies is written *)
(* from the ABI the code is built for.  A field without a special meaning    *)
(* holds its own name, so a value that ends up in the wrong place shows.     *)
(***************************************************************************)
EXTENDS Filesystem, KernelConfig

CONSTANTS
    Opcodes,             \* the operations the kernel sends
    Versions,            \* the ABI versions of kernels
    ValidSets,           \* the sets of attributes SETATTR changes
    FileTimes,           \* triples of times <<secs, nsecs>> that setattr sends
    AnswerTimes,         \* triples of times that getattr and lookup answer
    Durations,           \* the ttl values of answers
    Kinds,               \* the file types of answers
    Directory,           \* a directory: entries [ino, kind, name]
    ListSizes            \* the sizes of the kernel's buffer, by operation

\* The requests are those of a kernel whose structures are the ones the code is
\* built for.  INIT lets kernels from 7.6 on through, but those before 7.12
\* send shorter MKNOD and CREATE (before 7.9 READ and WRITE, too) requests,
\* which parse refuses with ENOSYS: they are not modelled.
ASSUME VersionsAssumption ==
    \A v \in Versions : v[1] # 7 \/ v[2] < 6 \/ v[2] >= 12

VARIABLES
    step,        \* "start", "idle", "sent", "called", "answered", "read", "down"
    sent,        \* the kernel's call
    packet,      \* what the kernel wrote to the device
    call,        \* the method called and its arguments
    list,        \* the entries a readdir method has collected, [max_size, buf]
    added,       \* how many entries the method has added
    given,       \* what the method answered
    answer,      \* what the session wrote to the device
    understood,  \* what the kernel makes of it
    max_write,   \* the largest write agreed on
    offset,      \* where the kernel goes on listing
    seen         \* the entries the kernel has listed

kernel == <<understood, max_write, offset, seen>>
vars == <<config, step, sent, packet, call, list, added, given, answer, kernel>>

BUFFER_SIZE == MAX_WRITE_SIZE + 4096

\* aligned_sub_buf: up to 7 bytes of the buffer are lost to alignment.
aligned_sub_buf(size) == size - 7

Idle == [op |-> "none"]
NoCall == [method |-> "none", args |-> <<>>]
NoAnswer == [kind |-> "none"]
StatFsFields == {"blocks", "bfree", "bavail", "files", "ffree", "bsize",
                 "namelen", "frsize"}
LockFields == {"start", "end", "typ", "pid"}
InitFields == {"major", "minor", "max_readahead", "flags", "max_background",
               "congestion_threshold", "max_write", "time_gran", "max_pages"}

(***************************************************************************)
(* The kernel's calls                                                        *)
(***************************************************************************)
\* A request of a kernel newer than the code.
KernelOpcode(op) == IF op = "FUSE_SYNCFS" THEN 50 ELSE fuse_opcode[op]

Listings == {"FUSE_READDIR", "FUSE_READDIRPLUS"}
OneString == {"FUSE_LOOKUP", "FUSE_MKNOD", "FUSE_MKDIR", "FUSE_UNLINK",
    "FUSE_RMDIR", "FUSE_LINK", "FUSE_SETXATTR", "FUSE_GETXATTR",
    "FUSE_REMOVEXATTR", "FUSE_CREATE"}
TwoStrings == {"FUSE_SYMLINK", "FUSE_RENAME", "FUSE_RENAME2"}

\* The structure the kernel sends with an operation.
KernelStruct(op) ==
    CASE op = "FUSE_FORGET" -> fuse_forget_in
      [] op = "FUSE_BATCH_FORGET" -> fuse_batch_forget_in
      [] op = "FUSE_SETATTR" -> fuse_setattr_in
      [] op = "FUSE_MKNOD" -> fuse_mknod_in
      [] op = "FUSE_MKDIR" -> fuse_mkdir_in
      [] op = "FUSE_RENAME" -> fuse_rename_in
      [] op = "FUSE_RENAME2" -> fuse_rename2_in
      [] op = "FUSE_LINK" -> fuse_link_in
      [] op \in {"FUSE_OPEN", "FUSE_OPENDIR"} -> fuse_open_in
      [] op \in {"FUSE_READ"} \union Listings -> fuse_read_in
      [] op = "FUSE_WRITE" -> fuse_write_in
      [] op = "FUSE_FLUSH" -> fuse_flush_in
      [] op \in {"FUSE_RELEASE", "FUSE_RELEASEDIR"} -> fuse_release_in
      [] op \in {"FUSE_FSYNC", "FUSE_FSYNCDIR"} -> fuse_fsync_in
      [] op = "FUSE_SETXATTR" -> fuse_setxattr_in
      [] op \in {"FUSE_GETXATTR", "FUSE_LISTXATTR"} -> fuse_getxattr_in
      [] op \in {"FUSE_GETLK", "FUSE_SETLK", "FUSE_SETLKW"} -> fuse_lk_in
      [] op = "FUSE_ACCESS" -> fuse_access_in
      [] op = "FUSE_CREATE" -> fuse_create_in
      [] op = "FUSE_INTERRUPT" -> fuse_interrupt_in
      [] op = "FUSE_BMAP" -> fuse_bmap_in
      [] op = "FUSE_IOCTL" -> fuse_ioctl_in
      [] op = "FUSE_POLL" -> fuse_poll_in
      [] op = "FUSE_FALLOCATE" -> fuse_fallocate_in
      [] op = "FUSE_LSEEK" -> fuse_lseek_in
      [] op = "FUSE_COPY_FILE_RANGE" -> fuse_copy_file_range_in
      [] op = "FUSE_INIT" -> fuse_init_in
      [] OTHER -> <<>>

\* Fields that mean more than their value: flag words, sizes and times.
Special(op) ==
    CASE op = "FUSE_SETATTR" ->
           {[valid |-> v, atime |-> t[1][1], atimensec |-> t[1][2],
             mtime |-> t[2][1], mtimensec |-> t[2][2],
             ctime |-> t[3][1], ctimensec |-> t[3][2]] :
               v \in ValidSets, t \in FileTimes}
      [] op = "FUSE_WRITE" ->
           {[size |-> n, write_flags |-> f] :
               n \in {1, max_write}, f \in SUBSET {0, 1}}
      [] op = "FUSE_READ" -> {[read_flags |-> f] : f \in SUBSET {1}}
      [] op \in Listings ->
           {[size |-> n, offset |-> offset] : n \in ListSizes[op]}
      [] op = "FUSE_RELEASE" -> {[release_flags |-> f] : f \in SUBSET {0, 1}}
      [] op \in {"FUSE_FSYNC", "FUSE_FSYNCDIR"} ->
           {[fsync_flags |-> f] : f \in SUBSET {0}}
      [] op \in {"FUSE_SETXATTR", "FUSE_GETXATTR", "FUSE_LISTXATTR"} ->
           {[size |-> n] : n \in {0, 5}}
      [] op = "FUSE_IOCTL" ->
           {[flags |-> f, in_size |-> n] : f \in SUBSET {0, 1}, n \in {0, 5}}
      [] op = "FUSE_RENAME2" -> {[flags |-> f] : f \in SUBSET {0, 1}}
      [] op = "FUSE_COPY_FILE_RANGE" -> {[flags |-> f] : f \in {{}, {0, 31}}}
      [] op = "FUSE_BATCH_FORGET" -> {[count |-> n] : n \in 0 .. 2}
      [] OTHER -> {[none |-> 0]}

Block(name, size) == IF size = 0 THEN <<>> ELSE <<<<name, size>>>>
ForgetOne(i) == [nodeid |-> <<"nodeid", i>>, nlookup |-> <<"nlookup", i>>]

KernelCalls(op) ==
    {LET struct == KernelStruct(op)
         arg == [f \in {struct[i][1] : i \in DOMAIN struct} |->
                    IF f \in DOMAIN s THEN s[f] ELSE f]
     IN [op |-> op, nodeid |-> "this node", arg |-> arg,
         strings |-> CASE op \in OneString -> <<"first">>
                       [] op \in TwoStrings -> <<"first", "second">>
                       [] OTHER -> <<>>,
         data |-> CASE op \in {"FUSE_WRITE", "FUSE_SETXATTR"} ->
                         Block("data", arg.size)
                    [] op = "FUSE_IOCTL" -> Block("data", arg.in_size)
                    [] op = "FUSE_BATCH_FORGET" ->
                         FlattenSeq([i \in 1 .. arg.count |->
                                        AsBytes(fuse_forget_one, ForgetOne(i))])
                    [] OTHER -> <<>>]
     : s \in Special(op)}

Encoded(c) ==
    LET arg == AsBytes(KernelStruct(c.op), c.arg)
        strings == FlattenSeq([i \in DOMAIN c.strings |->
                                  <<<<c.strings[i], 6>>, <<NUL, 1>>>>])
        args == arg \o strings \o c.data
    IN AsBytes(fuse_in_header,
               [len |-> SizeOf(fuse_in_header) + SizeOf(args),
                opcode |-> KernelOpcode(c.op), unique |-> KernelOpcode(c.op),
                nodeid |-> c.nodeid]) \o args

(***************************************************************************)
(* What a call means: the value a method's parameter should have, by the     *)
(* parameter's name.                                                         *)
(***************************************************************************)
AttrBit == [mode |-> 0, uid |-> 1, gid |-> 2, size |-> 3, fh |-> 6]
TimeBits == [atime |-> <<4, 7>>, mtime |-> <<5, 8>>, ctime |-> <<10, 11>>]
NsecOf == [atime |-> "atimensec", mtime |-> "mtimensec", ctime |-> "ctimensec"]
MacOnly == {"crtime", "chgtime", "bkuptime"}

\* The time of a timespec.
TimeOf(secs, nsecs) == secs * NanosPerSec + nsecs

\* A time before the epoch is mirrored about its second: half a second before
\* it is sent as <<-1, 0.5>> and arrives as one and a half.
Attribute(a, p) ==
    CASE p = "flags" \/ p \in MacOnly -> None
      [] p \in DOMAIN AttrBit ->
           IF AttrBit[p] \in a.valid THEN Some(a[p]) ELSE None
      [] p \in DOMAIN TimeBits ->
           IF TimeBits[p][1] \notin a.valid THEN None
           ELSE IF TimeBits[p][2] \in a.valid THEN Some(Now)
           ELSE Some(IF a[p] >= 0 THEN TimeOf(a[p], a[NsecOf[p]])
                     ELSE TimeOf(a[p], -a[NsecOf[p]]))

LockOwner(c) ==
    CASE c.op = "FUSE_READ" ->
           IF 1 \in c.arg.read_flags THEN Some(c.arg.lock_owner) ELSE None
      [] c.op = "FUSE_WRITE" ->
           IF 1 \in c.arg.write_flags THEN Some(c.arg.lock_owner) ELSE None
      [] c.op = "FUSE_RELEASE" ->
           IF 1 \in c.arg.release_flags THEN Some(c.arg.lock_owner) ELSE None
      [] c.op = "FUSE_FLUSH" -> c.arg.lock_owner
      [] OTHER -> c.arg.owner

Meant(c, p) ==
    CASE c.op = "FUSE_SETATTR" /\ p # "ino" -> Attribute(c.arg, p)
      [] p = "parent" \/ p = "ino_in" -> c.nodeid
      [] p = "ino" ->
           IF c.op = "FUSE_LINK" THEN c.arg.oldnodeid ELSE c.nodeid
      [] p = "newparent" ->
           IF c.op = "FUSE_LINK" THEN c.nodeid ELSE c.arg.newdir
      [] p = "name" -> c.strings[1]
      [] p = "newname" \/ p = "link" -> Last(c.strings)
      [] p \in {"data", "value", "in_data"} -> c.data
      [] p = "nodes" -> [i \in 1 .. c.arg.count |-> ForgetOne(i)]
      [] p = "lock_owner" -> LockOwner(c)
      [] p = "datasync" -> 0 \in c.arg.fsync_flags
      [] p = "flush" -> 0 \in c.arg.release_flags
      [] p = "sleep" -> c.op = "FUSE_SETLKW"
      [] p = "position" -> 0
      [] p = "idx" -> c.arg.block
      [] p = "offset_in" -> c.arg.off_in
      [] p = "ino_out" -> c.arg.nodeid_out
      [] p = "offset_out" -> c.arg.off_out
      [] p = "flags" /\ c.op = "FUSE_RENAME" -> {}
      [] OTHER -> c.arg[p]

\* The calls a filesystem is never asked for.
NotSupported(c) ==
    \/ c.op \in {"FUSE_SYNCFS", "FUSE_INTERRUPT", "FUSE_POLL",
                 "FUSE_NOTIFY_REPLY", "CUSE_INIT"}
    \/ c.op = "FUSE_IOCTL" /\ 1 \in c.arg.flags

(***************************************************************************)
(* The session                                                               *)
(***************************************************************************)
Init ==
    /\ config = NoConfig
    /\ step = "start"
    /\ sent = Idle
    /\ packet = <<>>
    /\ call = NoCall
    /\ list = EntListBuf(0)
    /\ added = 0
    /\ given = NoAnswer
    /\ answer = <<>>
    /\ understood = NoAnswer
    /\ max_write = 0
    /\ offset = 0
    /\ seen = <<>>

\* The kernel sends its INIT.
SendInit ==
    /\ step = "start"
    /\ \E v \in Versions, caps \in KernelCaps, ra \in KernelReadaheads :
       \E c \in {[op |-> "FUSE_INIT", nodeid |-> 0, strings |-> <<>>, data |-> <<>>,
                  arg |-> [major |-> v[1], minor |-> v[2],
                           max_readahead |-> ra, flags |-> caps]]} :
          sent' = c /\ packet' = Encoded(c)
    /\ step' = "sent"
    /\ UNCHANGED <<config, call, list, added, given, answer, kernel>>

\* The kernel sends a request.  A listing goes on where the last reply ended.
Send ==
    /\ step = "idle"
    /\ \E op \in Opcodes : \E c \in KernelCalls(op) :
         sent' = c /\ packet' = Encoded(c)
    /\ step' = "sent"
    /\ UNCHANGED <<config, call, list, added, given, answer, kernel>>

\* The request session.run reads: one that fits into the buffer and is not cut
\* short.  Without one the session ends.
Requests ==
    {r \in {try_from(packet)} : r.ok /\ SizeOf(packet) <= aligned_sub_buf(BUFFER_SIZE)}

\* What a method says through its Reply.
Response(g) ==
    CASE g.kind = "error" -> new_error(g.errno)
      [] g.kind = "ok" -> ReplyEmpty_ok
      [] g.kind = "data" -> ReplyData_data(g.data)
      [] g.kind = "entry" -> ReplyEntry_entry(g.ttl, g.attr, g.generation)
      [] g.kind = "attr" -> ReplyAttr_attr(g.ttl, g.attr)
      [] g.kind = "open" -> ReplyOpen_opened(g.fh, g.flags)
      [] g.kind = "create" ->
           ReplyCreate_created(g.ttl, g.attr, g.generation, g.fh, g.flags)
      [] g.kind = "write" -> ReplyWrite_written(g.size)
      [] g.kind = "statfs" ->
           ReplyStatfs_statfs(g.blocks, g.bfree, g.bavail, g.files, g.ffree,
                              g.bsize, g.namelen, g.frsize)
      [] g.kind = "lock" -> ReplyLock_locked(g.start, g.end, g.typ, g.pid)
      [] g.kind = "bmap" -> ReplyBmap_bmap(g.block)
      [] g.kind = "ioctl" -> ReplyIoctl_ioctl(g.result, g.data)
      [] g.kind = "lseek" -> ReplyLseek_offset(g.offset)
      [] g.kind = "xattr size" -> ReplyXattr_size(g.size)
      [] g.kind = "xattr" -> ReplyXattr_data(g.data)
      [] g.kind = "init" -> from_struct(fuse_init_out, g)

Answer(g, response) ==
    /\ given' = g
    /\ \E r \in Requests : answer' = with_iovec(response, r.header.unique)
    /\ step' = "answered"

\* The INIT arm of dispatch_req: a version before 7.6 is refused, or init is
\* called with a new configuration.
ReceiveInit ==
    /\ step = "sent"
    /\ sent.op = "FUSE_INIT"
    /\ \E r \in Requests : \E x \in {InitOp(parse("FUSE_INIT", r.data).got)} :
         \/ /\ x.version[1] < 7 \/ (x.version[1] = 7 /\ x.version[2] < 6)
            /\ Answer(Fails("EPROTO"), Response(Fails("EPROTO")))
            /\ UNCHANGED <<config, call>>
         \/ /\ x.version[1] > 7 \/ (x.version[1] = 7 /\ x.version[2] >= 6)
            /\ config' = new(x.capabilities, x.max_readahead)
            /\ call' = Call("init", <<>>)
            /\ step' = "called"
            /\ UNCHANGED <<given, answer>>
    /\ UNCHANGED <<sent, packet, list, added, kernel>>

\* init changes the configuration.
Configure ==
    /\ call.method = "init"
    /\ InitCalls
    /\ UNCHANGED <<step, sent, packet, call, list, added, given, answer, kernel>>

\* init returns: with an error, or the configuration is sent to the kernel.
init ==
    /\ call.method = "init"
    /\ \E g \in {[kind |-> "init"] @@ InitReply(config), Fails("EIO")} :
          Answer(g, Response(g))
    /\ config' = NoConfig
    /\ call' = NoCall
    /\ UNCHANGED <<sent, packet, list, added, kernel>>

\* Session::run reads a request and Request::dispatch calls a method with it,
\* or answers it; DESTROY is answered after destroy has been called.
Receive ==
    /\ step = "sent"
    /\ sent.op # "FUSE_INIT"
    /\ \E r \in Requests : \E d \in {Dispatched(r.header, r.data)} :
         \/ /\ d.method = "destroy"
            /\ Answer([kind |-> "ok"], ReplyEmpty_ok)
            /\ UNCHANGED <<call, list>>
         \/ /\ d.method \in DOMAIN Errno
            /\ Answer(Fails(d.method), Response(Fails(d.method)))
            /\ UNCHANGED <<call, list>>
         \/ /\ d.method \in DOMAIN Methods
            /\ call' = d
            /\ step' = "called"
            /\ list' = IF sent.op \in Listings
                       THEN EntListBuf(parse(sent.op, r.data).got[1].size) ELSE list
            /\ UNCHANGED <<given, answer>>
    /\ UNCHANGED <<config, sent, packet, added, kernel>>

(***************************************************************************)
(* The filesystem's methods                                                  *)
(***************************************************************************)
Called == step = "called" /\ call.method # "init"
Returns(g, response) ==
    /\ Answer(g, response)
    /\ call' = NoCall
    /\ list' = EntListBuf(0)
    /\ added' = 0
    /\ UNCHANGED <<config, sent, packet, kernel>>

\* A method the filesystem does not implement.
Default ==
    /\ Called
    /\ Methods[call.method].reply # "none"
    /\ \E g \in {Methods[call.method].default} : Returns(g, Response(g))

\* forget and batch_forget have nothing to answer.
Forgets ==
    /\ Called
    /\ Methods[call.method].reply = "none"
    /\ call' = NoCall
    /\ step' = "idle"
    /\ sent' = Idle
    /\ packet' = <<>>
    /\ UNCHANGED <<config, list, added, given, answer, kernel>>

\* A FileAttr with the given kind and times.
FileAttr(kind, t) ==
    [ino |-> "ino", size |-> "size", blocks |-> "blocks", atime |-> t[1],
     mtime |-> t[2], ctime |-> t[3], kind |-> kind, perm |-> 420,
     nlink |-> "nlink", uid |-> "uid", gid |-> "gid", rdev |-> "rdev",
     blksize |-> "blksize"]
FileAttrs == {FileAttr(k, t) : k \in Kinds, t \in AnswerTimes}

\* What a method that is implemented may answer with its Reply.
Bytes == <<<<"bytes", 3>>>>
Answers(reply) ==
    CASE reply = "ReplyEmpty" -> {[kind |-> "ok"]}
      [] reply = "ReplyData" -> {[kind |-> "data", data |-> Bytes]}
      [] reply = "ReplyEntry" ->
           {[kind |-> "entry", ttl |-> ttl, attr |-> attr,
             generation |-> "generation"] : ttl \in Durations, attr \in FileAttrs}
      [] reply = "ReplyAttr" ->
           {[kind |-> "attr", ttl |-> ttl, attr |-> attr] :
               ttl \in Durations, attr \in FileAttrs}
      [] reply = "ReplyOpen" -> {[kind |-> "open", fh |-> "fh", flags |-> {1}]}
      [] reply = "ReplyCreate" ->
           {[kind |-> "create", ttl |-> ttl, attr |-> attr, flags |-> {1},
             generation |-> "generation", fh |-> "fh"] :
               ttl \in Durations, attr \in FileAttrs}
      [] reply = "ReplyWrite" -> {[kind |-> "write", size |-> "size"]}
      [] reply = "ReplyStatfs" ->
           {[kind |-> "statfs"] @@ [f \in StatFsFields |-> f]}
      [] reply = "ReplyLock" -> {[kind |-> "lock"] @@ [f \in LockFields |-> f]}
      [] reply = "ReplyBmap" -> {[kind |-> "bmap", block |-> "block"]}
      [] reply = "ReplyIoctl" ->
           {[kind |-> "ioctl", result |-> "result", data |-> Bytes]}
      [] reply = "ReplyLseek" -> {[kind |-> "lseek", offset |-> "offset"]}
      [] reply = "ReplyXattr" ->
           {IF Last(call.args) = 0 THEN [kind |-> "xattr size", size |-> 3]
            ELSE [kind |-> "xattr", data |-> Bytes]}
      [] OTHER -> {}

\* A method that answers, or fails.
Implemented ==
    /\ Called
    /\ Methods[call.method].reply # "none"
    /\ \E g \in Answers(Methods[call.method].reply) \union {Fails("EACCES")} :
          Returns(g, Response(g))

\* The loop of SimpleFS's readdir: entries from the offset on are added until
\* one does not fit.
EntryName(e) == <<<<e.name, e.len>>>>
AddEntry(l, n) ==
    LET e == Directory[n]
    IN ReplyDirectory_add(l, e.ino, n, e.kind, EntryName(e))

\* No filesystem of the repository has a readdirplus: this one is taken to loop
\* in the same way, so that ReplyDirectoryPlus is checked with it.
EntryAttr(e) == [FileAttr(e.kind, <<0, 0, 0>>) EXCEPT !.ino = e.ino]
AddEntryPlus(l, n) ==
    LET e == Directory[n]
    IN ReplyDirectoryPlus_add(l, e.ino, n, EntryName(e), Min(Durations),
                              EntryAttr(e), "generation")

Add(l, n) ==
    IF call.method = "readdir" THEN AddEntry(l, n) ELSE AddEntryPlus(l, n)
InListing == Called /\ call.method \in {"readdir", "readdirplus"}
NextEntry == call.args[3] + added + 1

readdir_add ==
    /\ InListing
    /\ NextEntry \in DOMAIN Directory
    /\ \E l \in {Add(list, NextEntry)} : l # list /\ list' = l
    /\ added' = added + 1
    /\ UNCHANGED <<config, step, sent, packet, call, given, answer, kernel>>

readdir_ok ==
    /\ InListing
    /\ NextEntry \in DOMAIN Directory => Add(list, NextEntry) = list
    /\ Returns([kind |-> "list", added |-> added], ReplyDirectory_ok(list))

(***************************************************************************)
(* The kernel reads the reply                                                *)
(***************************************************************************)
\* What the kernel expects in answer to a call, and the structure it is in.
Expected(c) ==
    CASE c.op \in {"FUSE_LOOKUP", "FUSE_MKNOD", "FUSE_MKDIR", "FUSE_SYMLINK",
                   "FUSE_LINK"} -> [kind |-> "entry", struct |-> fuse_entry_out]
      [] c.op \in {"FUSE_GETATTR", "FUSE_SETATTR"} ->
           [kind |-> "attr", struct |-> fuse_attr_out]
      [] c.op \in {"FUSE_OPEN", "FUSE_OPENDIR"} ->
           [kind |-> "open", struct |-> fuse_open_out]
      [] c.op = "FUSE_CREATE" -> [kind |-> "create", struct |-> fuse_create_out]
      [] c.op \in {"FUSE_WRITE", "FUSE_COPY_FILE_RANGE"} ->
           [kind |-> "write", struct |-> fuse_write_out]
      [] c.op = "FUSE_STATFS" -> [kind |-> "statfs", struct |-> fuse_statfs_out]
      [] c.op = "FUSE_GETLK" -> [kind |-> "lock", struct |-> fuse_lk_out]
      [] c.op = "FUSE_BMAP" -> [kind |-> "bmap", struct |-> fuse_bmap_out]
      [] c.op = "FUSE_IOCTL" -> [kind |-> "ioctl", struct |-> fuse_ioctl_out]
      [] c.op = "FUSE_LSEEK" -> [kind |-> "lseek", struct |-> fuse_lseek_out]
      [] c.op \in {"FUSE_GETXATTR", "FUSE_LISTXATTR"} ->
           IF c.arg.size = 0
           THEN [kind |-> "xattr size", struct |-> fuse_getxattr_out]
           ELSE [kind |-> "xattr", struct |-> <<>>]
      [] c.op \in {"FUSE_READ", "FUSE_READLINK"} ->
           [kind |-> "data", struct |-> <<>>]
      [] c.op = "FUSE_INIT" -> [kind |-> "init", struct |-> fuse_init_out]
      [] c.op = "FUSE_READDIR" -> [kind |-> "list", struct |-> fuse_dirent]
      [] c.op = "FUSE_READDIRPLUS" ->
           [kind |-> "list", struct |-> fuse_entry_out \o fuse_dirent]
      [] OTHER -> [kind |-> "ok", struct |-> <<>>]

\* The entries of a listing, from the cell at i on: each record is a structure
\* and a name, rounded up to 8 bytes; one that is cut short ends the listing.
Entries(cells, struct) ==
    LET start == [i \in 1 .. Len(cells) + 1 |-> SizeOf(SubSeq(cells, 1, i - 1))]
        At(i) == FromBytes(struct, SubSeq(cells, i, Len(cells)))
        fixed == SizeOf(struct)
        record(d) == Align64(fixed + d.namelen)
        from[i \in DOMAIN start] ==
            IF start[i] + fixed > SizeOf(cells) THEN <<>>
            ELSE LET d == At(i)
                     ends == {j \in DOMAIN start : start[j] = start[i] + record(d)}
                 IN IF d.namelen = Garbage \/ ends = {} THEN <<>>
                    ELSE <<[ino |-> d.ino, off |-> d.off, typ |-> d.typ,
                            name |-> cells[i + Len(struct)]]>> \o from[Max(ends)]
    IN from[1]

KernelAttr(d) ==
    [ino |-> d.ino, size |-> d.size, blocks |-> d.blocks,
     atime |-> TimeOf(d.atime, d.atimensec),
     mtime |-> TimeOf(d.mtime, d.mtimensec),
     ctime |-> TimeOf(d.ctime, d.ctimensec),
     kind |-> CHOOSE k \in DOMAIN FileType : FileType[k] = d.mode \div 4096,
     perm |-> d.mode % 4096, nlink |-> d.nlink, uid |-> d.uid, gid |-> d.gid,
     rdev |-> d.rdev, blksize |-> d.blksize]

\* What the kernel makes of a reply of an expected kind: d is its structure,
\* rest what follows it.
Decoded(kind, d, rest) ==
    CASE kind = "entry" ->
           [kind |-> kind, attr |-> KernelAttr(d), generation |-> d.generation,
            ttl |-> TimeOf(d.entry_valid, d.entry_valid_nsec)]
      [] kind = "attr" -> [kind |-> kind, attr |-> KernelAttr(d),
                           ttl |-> TimeOf(d.attr_valid, d.attr_valid_nsec)]
      [] kind = "open" -> [kind |-> kind, fh |-> d.fh, flags |-> d.open_flags]
      [] kind = "create" ->
           [kind |-> kind, attr |-> KernelAttr(d), generation |-> d.generation,
            ttl |-> TimeOf(d.entry_valid, d.entry_valid_nsec),
            fh |-> d.fh, flags |-> d.open_flags]
      [] kind = "write" -> [kind |-> kind, size |-> d.size]
      [] kind = "statfs" -> [kind |-> kind] @@ [f \in StatFsFields |-> d[f]]
      [] kind = "lock" -> [kind |-> kind] @@ [f \in LockFields |-> d[f]]
      [] kind = "bmap" -> [kind |-> kind, block |-> d.block]
      [] kind = "ioctl" -> [kind |-> kind, result |-> d.result, data |-> rest]
      [] kind = "lseek" -> [kind |-> kind, offset |-> d.offset]
      [] kind = "xattr size" -> [kind |-> kind, size |-> d.size]
      [] kind \in {"data", "xattr"} -> [kind |-> kind, data |-> rest]
      [] kind = "init" -> [kind |-> kind] @@ [f \in InitFields |-> d[f]]
      [] kind = "ok" -> [kind |-> kind]

\* The kernel takes a reply only for the request it waits for and with the
\* length the reply has; a structure must be there in full.
ReadReply ==
    /\ step = "answered"
    /\ \E h \in {FromBytes(fuse_out_header, answer)}, e \in {Expected(sent)} :
       \E data \in {SubSeq(answer, Len(fuse_out_header) + 1, Len(answer))} :
          understood' =
            CASE \/ h.unique # KernelOpcode(sent.op)
                 \/ h.len # SizeOf(answer) -> [kind |-> "refused"]
              [] h.error # 0 ->
                   Fails(CHOOSE n \in DOMAIN Errno : Errno[n] = -h.error)
              [] e.kind = "list" /\ SizeOf(data) > sent.arg.size ->
                   [kind |-> "refused"]
              [] e.kind = "list" -> [kind |-> "list",
                                     entries |-> Entries(data, e.struct)]
              [] Len(data) < Len(e.struct) -> [kind |-> "refused"]
              [] OTHER -> Decoded(e.kind, FromBytes(e.struct, data),
                                  SubSeq(data, Len(e.struct) + 1, Len(data)))
    /\ step' = "read"
    /\ UNCHANGED <<config, sent, packet, call, list, added, given, answer,
                   max_write, offset, seen>>

\* After INIT the kernel knows how much to write, after a listing where to go
\* on; an empty listing ends it, and the next one starts at the beginning.
TakeReply ==
    /\ step = "read"
    /\ step' = IF \/ sent.op = "FUSE_DESTROY"
                  \/ sent.op = "FUSE_INIT" /\ understood.kind # "init"
               THEN "down" ELSE "idle"
    /\ max_write' = IF understood.kind = "init" THEN understood.max_write
                    ELSE max_write
    /\ IF understood.kind # "list" THEN UNCHANGED <<offset, seen>>
       ELSE IF understood.entries = <<>> THEN offset' = 0 /\ seen' = <<>>
       ELSE /\ offset' = Last(understood.entries).off
            /\ seen' = seen \o understood.entries
    /\ sent' = Idle
    /\ packet' = <<>>
    /\ given' = NoAnswer
    /\ answer' = <<>>
    /\ understood' = NoAnswer
    /\ UNCHANGED <<config, call, list, added>>

Next == \/ SendInit \/ ReceiveInit \/ Configure \/ init
        \/ Send \/ Receive \/ Default \/ Forgets \/ Implemented
        \/ readdir_add \/ readdir_ok \/ ReadReply \/ TakeReply

Spec == Init /\ [][Next]_vars


\* The time the kernel reads for one that a method gave.
ReadTime(time) ==
    IF time >= 0 THEN time ELSE time + 2 * subsec_nanos(-time)
AsRead(attr) == [attr EXCEPT !.atime = ReadTime(@), !.mtime = ReadTime(@),
                             !.ctime = ReadTime(@)]

\* Every reply says to the kernel what the method said to the Reply: it is
\* for the right request and of the right length, the error has its sign
\* turned, and each field of the answer is where the kernel looks for it
\* (reply.rs and ll/reply.rs).  The exception is a time before the epoch with a
\* fraction: time_from_system_time sends the fraction of the distance from the
\* epoch, so the kernel reads a time that is later by twice the fraction (half
\* a second before the epoch becomes half a second after it).
AnswersAsGiven ==
    step = "read" /\ given.kind # "list" =>
        understood = IF "attr" \in DOMAIN given
                     THEN [given EXCEPT !.attr = AsRead(@)] ELSE given

\* A listing is exact: a reply is never larger than the kernel asked for, the
\* kernel reads every entry that was added and no other, and from request to
\* request it sees each entry of the directory once and in order, until none
\* is left (EntListBuf::push and SimpleFS's readdir).
ListingExact ==
    /\ \A i \in DOMAIN seen :
         /\ i <= Len(Directory)
         /\ seen[i].ino = Directory[i].ino
         /\ seen[i].name = <<Directory[i].name, Directory[i].len>>
         /\ seen[i].typ = FileType[Directory[i].kind]
    /\ offset = Len(seen)
    /\ step = "read" /\ given.kind = "list" =>
         /\ understood.kind = "list"
         /\ Len(understood.entries) = given.added
         /\ given.added = 0 => Len(seen) = Len(Directory)

\* What the filesystem and the kernel agree on suits both: the INIT reply
\* stays within what the kernel offered, and every request the kernel may send
\* after it fits into the session's buffer, wherever the buffer is aligned
\* (KernelConfig, Init::reply and BUFFER_SIZE).
NegotiatedFits ==
    /\ step = "read" /\ understood.kind = "init" => ReplyFits(sent.arg, understood)
    /\ SizeOf(packet) <= BUFFER_SIZE - 7
=============================================================================
