------------------------------ MODULE Filesystem ------------------------------
(***************************************************************************)
(* The trait Filesystem of src/fuse/src/fuser/mod.rs: the parameters of each *)
(* method by name and in order, the Reply it is given, and what it answers   *)
(* when a filesystem does not implement it.                                  *)
(***************************************************************************)
EXTENDS FuseReplies

Method(params, reply, default) ==
    [params |-> params, reply |-> reply, default |-> default]
Fails(errno) == [kind |-> "error", errno |-> errno]
Ok == [kind |-> "ok"]
Opened == [kind |-> "open", fh |-> 0, flags |-> {}]
OrENOSYS(params, reply) == Method(params, reply, Fails("ENOSYS"))
NoReply(params) == Method(params, "none", Ok)

inode_methods ==
  [lookup |-> OrENOSYS(<<"parent", "name">>, "ReplyEntry"),
   forget |-> NoReply(<<"ino", "nlookup">>),
   batch_forget |-> NoReply(<<"nodes">>),
   getattr |-> OrENOSYS(<<"ino">>, "ReplyAttr"),
   setattr |-> OrENOSYS(<<"ino", "mode", "uid", "gid", "size", "atime", "mtime",
                          "ctime", "fh", "crtime", "chgtime", "bkuptime",
                          "flags">>, "ReplyAttr"),
   readlink |-> OrENOSYS(<<"ino">>, "ReplyData"),
   mknod |-> OrENOSYS(<<"parent", "name", "mode", "umask", "rdev">>,
                      "ReplyEntry"),
   mkdir |-> OrENOSYS(<<"parent", "name", "mode", "umask">>, "ReplyEntry"),
   unlink |-> OrENOSYS(<<"parent", "name">>, "ReplyEmpty"),
   rmdir |-> OrENOSYS(<<"parent", "name">>, "ReplyEmpty"),
   symlink |-> Method(<<"parent", "name", "link">>, "ReplyEntry",
                      Fails("EPERM"))]

file_methods ==
  [rename |-> OrENOSYS(<<"parent", "name", "newparent", "newname", "flags">>,
                       "ReplyEmpty"),
   link |-> Method(<<"ino", "newparent", "newname">>, "ReplyEntry",
                   Fails("EPERM")),
   open |-> Method(<<"ino", "flags">>, "ReplyOpen", Opened),
   read |-> OrENOSYS(<<"ino", "fh", "offset", "size", "flags", "lock_owner">>,
                     "ReplyData"),
   write |-> OrENOSYS(<<"ino", "fh", "offset", "data", "write_flags", "flags",
                        "lock_owner">>, "ReplyWrite"),
   flush |-> OrENOSYS(<<"ino", "fh", "lock_owner">>, "ReplyEmpty"),
   release |-> Method(<<"ino", "fh", "flags", "lock_owner", "flush">>,
                      "ReplyEmpty", Ok)]

directory_methods ==
  [fsync |-> OrENOSYS(<<"ino", "fh", "datasync">>, "ReplyEmpty"),
   opendir |-> Method(<<"ino", "flags">>, "ReplyOpen", Opened),
   readdir |-> OrENOSYS(<<"ino", "fh", "offset">>, "ReplyDirectory"),
   readdirplus |-> OrENOSYS(<<"ino", "fh", "offset">>, "ReplyDirectoryPlus"),
   releasedir |-> Method(<<"ino", "fh", "flags">>, "ReplyEmpty", Ok),
   fsyncdir |-> OrENOSYS(<<"ino", "fh", "datasync">>, "ReplyEmpty"),
   statfs |-> Method(<<"ino">>, "ReplyStatfs",
                     [kind |-> "statfs", blocks |-> 0, bfree |-> 0, bavail |-> 0,
                      files |-> 0, ffree |-> 0, bsize |-> 512, namelen |-> 255,
                      frsize |-> 0])]

attribute_methods ==
  [setxattr |-> OrENOSYS(<<"ino", "name", "value", "flags", "position">>,
                         "ReplyEmpty"),
   getxattr |-> OrENOSYS(<<"ino", "name", "size">>, "ReplyXattr"),
   listxattr |-> OrENOSYS(<<"ino", "size">>, "ReplyXattr"),
   removexattr |-> OrENOSYS(<<"ino", "name">>, "ReplyEmpty"),
   access |-> OrENOSYS(<<"ino", "mask">>, "ReplyEmpty"),
   create |-> OrENOSYS(<<"parent", "name", "mode", "umask", "flags">>,
                       "ReplyCreate"),
   getlk |-> OrENOSYS(<<"ino", "fh", "lock_owner", "start", "end", "typ",
                        "pid">>, "ReplyLock"),
   setlk |-> OrENOSYS(<<"ino", "fh", "lock_owner", "start", "end", "typ", "pid",
                        "sleep">>, "ReplyEmpty")]

other_methods ==
  [bmap |-> OrENOSYS(<<"ino", "blocksize", "idx">>, "ReplyBmap"),
   ioctl |-> OrENOSYS(<<"ino", "fh", "flags", "cmd", "in_data", "out_size">>,
                      "ReplyIoctl"),
   fallocate |-> OrENOSYS(<<"ino", "fh", "offset", "length", "mode">>,
                          "ReplyEmpty"),
   lseek |-> OrENOSYS(<<"ino", "fh", "offset", "whence">>, "ReplyLseek"),
   copy_file_range |-> OrENOSYS(<<"ino_in", "fh_in", "offset_in", "ino_out",
                                  "fh_out", "offset_out", "len", "flags">>,
                                "ReplyWrite")]

Methods == inode_methods @@ file_methods @@ directory_methods
           @@ attribute_methods @@ other_methods
=============================================================================
