------------------------------- MODULE Session -------------------------------
(***************************************************************************)
(* A session of uring_fuse: session.rs, request.rs, channel.rs, reply/ and *)
(* mount/.  One thread runs the loop that reads a request, dispatches it   *)
(* to the filesystem and replies.  The filesystem is any implementation of *)
(* the trait: a method answers at once, drops its Reply, panics, or hands  *)
(* the Reply to another thread, which may answer or drop it at any time.   *)
(* The program that created the session runs it in the foreground or in    *)
(* the background, and may unmount it through a SessionUnmounter.          *)
(*                                                                         *)
(* The kernel (external) sends INIT first and other requests once it has   *)
(* been answered.  A "unique" is used again when its request is over.  An  *)
(* unmount, or closing the last reference to the device, ends the          *)
(* connection and every request with it; systems that send DESTROY do so   *)
(* before.  Without allow_other it lets only the owner in.                 *)
(***************************************************************************)
EXTENDS Naturals, FiniteSets

CONSTANTS
  Uniques,     \* identifiers of requests
  Operations,  \* operations the kernel asks for, but Init and Destroy
  Users, root, \* users, among them the superuser
  Mounts,      \* by whom and with what options the filesystem is mounted
  NoRequest

ASSUME SessionAssumption ==
  /\ root \in Users
  /\ Mounts \subseteq
       [owner : Users, options : SUBSET {"AutoUnmount", "AllowRoot", "AllowOther"}]

VARIABLES
  options,      \* the options the program asked for
  owner,        \* Session.session_owner
  initialized,  \* Session.initialized
  destroyed,    \* Session.destroyed
  se,           \* the Session: "new", "running", "returned", "unwinding"
                \* after a panic in run, or "dropped"
  current,      \* the request that the loop has read and not yet dispatched
  replies,      \* requests whose Reply object is on another thread
  mount,        \* the Mount: in the "session", in the "background", "dropped"
  unmounter,    \* the program has a SessionUnmounter
  filesystem,   \* its methods called so far: init successfully, and how many
                \* calls of destroy have returned and how many panicked
  conn,         \* kernel: "up", "destroying" or "down"
  kinit,        \* kernel: INIT is "pending", "done" or "failed"
  pending,      \* kernel: the request of each unique, or NoRequest
  sent,         \* kernel: uniques that have been read and wait for an answer
  stray         \* operations answered although nobody waits for an answer

session == <<options, owner, initialized, destroyed, se, current, mount, unmounter>>
kernel == <<conn, kinit, pending, sent, stray>>
vars == <<session, replies, filesystem, kernel>>

-----------------------------------------------------------------------------
(* Kinds of operations.                                                    *)

(* INIT of a version that is too old, of major version 7, or of a later    *)
(* one: the kernel then sends a second INIT.                               *)
Inits == {"InitOld", "Init", "InitNewer"}

(* "Only allow operations that the kernel may issue without a uid set".    *)
NoUid == Inits \cup
  {"Destroy", "Read", "ReadDir", "ReadDirPlus", "BatchForget", "Forget",
   "Write", "FSync", "FSyncDir", "Release", "ReleaseDir"}

(* The arms that call a method of the filesystem with a Reply, and those   *)
(* of operations that are not answered.                                    *)
NoReply == {"Forget", "BatchForget"}
InodeOperations ==
  {"Lookup", "GetAttr", "SetAttr", "ReadLink", "MkNod", "MkDir", "Unlink",
   "RmDir", "SymLink", "Rename", "Link"}
FileOperations == {"Open", "Read", "Write", "Flush", "Release", "FSync"}
DirectoryOperations == {"OpenDir", "ReadDir", "ReleaseDir", "FSyncDir"}
OtherOperations ==
  {"StatFs", "SetXAttr", "GetXAttr", "ListXAttr", "RemoveXAttr", "Access",
   "Create", "GetLk", "SetLk", "SetLkW", "BMap", "IoCtl"}
LaterOperations ==
  {"FAllocate", "ReadDirPlus", "Rename2", "Lseek", "CopyFileRange"}
Methods == UNION {NoReply, InodeOperations, FileOperations,
                  DirectoryOperations, OtherOperations, LaterOperations}

(* Opcodes unknown to fuse_opcode, and operations left to do.              *)
Unknown == {"Unknown"}
Unsupported == {"Interrupt", "IoCtlUnrestricted", "Poll", "NotifyReply", "CuseInit"}

ASSUME OperationsAssumption ==
  Operations \subseteq Methods \cup Unknown \cup Unsupported

(* Who asks; the uid of the header is root where the kernel sets none.     *)
AllOperations == Operations \cup Inits \cup {"Destroy"}
Requests == [op : AllOperations, user : Users]
Received == [unique : Uniques, op : AllOperations, user : Users]
Request(op, user) == [op |-> op, user |-> user]
Uid(r) == IF r.op \in NoUid THEN root ELSE r.user

ASSUME NoRequestAssumption == NoRequest \notin Requests \cup Received

-----------------------------------------------------------------------------
(* The device: open as long as the channel of the Session, the Mount or    *)
(* the sender of a Reply refers to it.                                     *)
DeviceOpen == se # "dropped" \/ mount # "dropped" \/ replies # {}
Connected == conn # "down" /\ DeviceOpen

(* Options as they are passed on: allow_root is allow_other to the kernel, *)
(* and auto_unmount alone adds allow_other.                                *)
KernelAllowOther == options # {}

(* The users that Session.allowed lets in.                                 *)
Allowed ==
  IF "AllowRoot" \in options THEN {owner, root}
  ELSE IF "AllowOther" \in options THEN Users ELSE {owner}

(* writev to the device: an error that is logged, or the end of a request. *)
Send(u, op) ==
  IF Connected /\ u \in sent
    THEN /\ sent' = sent \ {u}
         /\ pending' = [pending EXCEPT ![u] = NoRequest]
         /\ UNCHANGED stray
    ELSE /\ stray' = IF Connected THEN stray \cup {op} ELSE stray
         /\ UNCHANGED <<sent, pending>>

FirstUnique == CHOOSE u \in Uniques : TRUE

(* Session::new has mounted the filesystem.                                *)
Init ==
  /\ \E m \in Mounts : options = m.options /\ owner = m.owner
  /\ initialized = FALSE /\ destroyed = FALSE
  /\ se = "new"
  /\ current = NoRequest
  /\ replies = {}
  /\ mount = "session" /\ unmounter = FALSE
  /\ filesystem = [init |-> FALSE, destroy |-> 0, unwound |-> 0]
  /\ conn = "up" /\ kinit = "pending"
  /\ \E op \in Inits :
       pending = [u \in Uniques |-> IF u = FirstUnique THEN Request(op, root)
                                    ELSE NoRequest]
  /\ sent = {} /\ stray = {}

-----------------------------------------------------------------------------
(* The kernel.                                                             *)

NewRequest(u, op, user) ==
  /\ Connected /\ conn = "up" /\ kinit = "done"
  /\ pending[u] = NoRequest
  /\ KernelAllowOther \/ user = owner
  /\ op \in NoUid => user = owner
  /\ pending' = [pending EXCEPT ![u] = Request(op, user)]
  /\ UNCHANGED <<session, replies, filesystem, conn, kinit, sent, stray>>

(* What happens to the connection when the filesystem is unmounted.        *)
Umount ==
  /\ conn = "up"
  /\ \/ conn' = "down" /\ UNCHANGED pending
     \/ /\ se = "running" /\ kinit = "done"
        /\ \E u \in Uniques :
             /\ pending[u] = NoRequest
             /\ pending' = [pending EXCEPT ![u] = Request("Destroy", root)]
        /\ conn' = "destroying"

(* Somebody else unmounts, fusermount does so after the end of its socket, *)
(* or the last user of a lazily unmounted filesystem leaves.               *)
ExternalUmount ==
  /\ Umount
  /\ UNCHANGED <<session, replies, filesystem, kinit, sent, stray>>

DestroyAnswered ==
  /\ conn = "destroying"
  /\ \A u \in Uniques : pending[u] # NoRequest => pending[u].op # "Destroy"
  /\ conn' = "down"
  /\ UNCHANGED <<session, replies, filesystem, kinit, pending, sent, stray>>

-----------------------------------------------------------------------------
(* The loop.                                                               *)

(* Errors after which the loop reads again are steps that change nothing.  *)
receive(u) ==
  /\ se = "running" /\ current = NoRequest
  /\ Connected
  /\ pending[u] # NoRequest /\ u \notin sent
  /\ current' = [unique |-> u, op |-> pending[u].op, user |-> pending[u].user]
  /\ IF pending[u].op \in NoReply
       THEN pending' = [pending EXCEPT ![u] = NoRequest] /\ UNCHANGED sent
       ELSE sent' = sent \cup {u} /\ UNCHANGED pending
  /\ UNCHANGED <<options, owner, initialized, destroyed, se, mount, unmounter,
                 replies, filesystem, conn, kinit, stray>>

(* Mutant: ENODEV is one of the errors after which the loop reads again.   *)
run_returns_never ==
  /\ se = "running" /\ current = NoRequest
  /\ ~Connected
  /\ UNCHANGED vars

(* ENODEV ends the loop, and so does an unhandled error.                   *)
run_returns ==
  /\ se = "running" /\ current = NoRequest
  /\ ~Connected
  /\ se' = "returned"
  /\ UNCHANGED <<options, owner, initialized, destroyed, current, mount, unmounter,
                 replies, filesystem, kernel>>

(* The arm of dispatch_req that a request takes.                           *)
Arm(r) ==
  IF r.op \in Unknown THEN "ENOSYS"
  ELSE IF Uid(r) \notin Allowed /\ r.op \notin NoUid THEN "EACCES"
  ELSE IF r.op \in Inits THEN "init"
  ELSE IF ~initialized THEN "EIO"
  ELSE IF r.op = "Destroy" THEN "destroy"
  ELSE IF destroyed THEN "EIO"
  ELSE IF r.op \in Methods THEN "method"
  ELSE "ENOSYS"

Dispatch(arm) ==
  /\ se = "running" /\ current # NoRequest
  /\ Arm(current) = arm
  /\ current' = NoRequest
  /\ UNCHANGED <<options, owner, mount, unmounter, conn>>

reply_err ==
  /\ \E errno \in {"ENOSYS", "EACCES", "EIO"} : Dispatch(errno)
  /\ Send(current.unique, current.op)
  /\ UNCHANGED <<initialized, destroyed, se, replies, filesystem, kinit>>

(* An old version is refused, filesystem.init may fail, and the kernel     *)
(* answers our version with another INIT when its own is newer.  An init   *)
(* that panics unwinds `run' and leaves INIT unanswered.                   *)
dispatch_init ==
  LET u == current.unique
  IN  /\ Dispatch("init")
      /\ \/ /\ kinit' = "failed"
            /\ Send(u, current.op)
            /\ UNCHANGED <<initialized, filesystem>>
         \/ /\ current.op # "InitOld"
            /\ initialized' = TRUE
            /\ filesystem' = [filesystem EXCEPT !.init = TRUE]
            /\ IF current.op = "InitNewer" /\ Connected
                 THEN /\ pending' = [pending EXCEPT ![u] = Request("Init", root)]
                      /\ sent' = sent \ {u}
                      /\ UNCHANGED <<kinit, stray>>
                 ELSE kinit' = "done" /\ Send(u, current.op)
      /\ UNCHANGED <<destroyed, se, replies>>

InitPanics ==
  /\ Dispatch("init")
  /\ current.op # "InitOld"
  /\ se' = "unwinding"
  /\ UNCHANGED <<initialized, destroyed, replies, filesystem, kinit, pending, sent, stray>>

destroy(f) == [f EXCEPT !.destroy = @ + 1]
destroy_panics(f) == [f EXCEPT !.unwound = @ + 1]

dispatch_destroy ==
  /\ Dispatch("destroy")
  /\ filesystem' = destroy(filesystem)
  /\ destroyed' = TRUE
  /\ Send(current.unique, current.op)
  /\ UNCHANGED <<initialized, se, replies, kinit>>

(* A destroy that panics leaves the flag as it was and DESTROY unanswered. *)
DestroyPanics ==
  /\ Dispatch("destroy")
  /\ filesystem' = destroy_panics(filesystem)
  /\ se' = "unwinding"
  /\ UNCHANGED <<initialized, destroyed, replies, kinit, pending, sent, stray>>

(* A method answers, or drops its Reply, which answers EIO; or it panics,  *)
(* before or after, and the Reply is dropped while the stack unwinds.      *)
dispatch_method ==
  /\ Dispatch("method")
  /\ IF current.op \in NoReply
       THEN UNCHANGED <<pending, sent, stray>>
       ELSE Send(current.unique, current.op)
  /\ se' \in {"running", "unwinding"}
  /\ UNCHANGED <<initialized, destroyed, replies, filesystem, kinit>>

(* A method hands its Reply to another thread.                             *)
DeferReply ==
  /\ Dispatch("method")
  /\ current.op \notin NoReply
  /\ replies' = replies \cup {current.unique}
  /\ UNCHANGED <<initialized, destroyed, se, filesystem, kinit, pending, sent, stray>>

(* Mutant: the sender is not taken, and drop answers a second time.        *)
send_ll_mut_again(u) ==
  /\ Send(u, "Deferred")
  /\ UNCHANGED replies

(* The answer is written and the sender taken, so that drop does nothing.  *)
send_ll_mut(u) ==
  /\ Send(u, "Deferred")
  /\ replies' = replies \ {u}

(* The Reply is used, or it is dropped.                                    *)
AnswerDeferred(u) ==
  /\ u \in replies
  /\ send_ll_mut(u)
  /\ UNCHANGED <<session, filesystem, conn, kinit>>

-----------------------------------------------------------------------------
(* The program and its handles.                                            *)

(* Mount::drop.  is_mounted is true in any case: an ended connection polls *)
(* POLLERR, which counts as mounted.  The unmount takes place now, or      *)
(* later, or never, if it fails with EBUSY.                                *)
MountDrop ==
  /\ mount' = "dropped"
  /\ \/ Umount
     \/ UNCHANGED <<conn, pending>>

NoMountDrop == UNCHANGED <<mount, conn, pending>>

run ==
  /\ se = "new"
  /\ se' = "running"
  /\ UNCHANGED <<options, owner, initialized, destroyed, current, mount, unmounter,
                 replies, filesystem, kernel>>

unmount_callable ==
  /\ se = "new" /\ ~unmounter
  /\ unmounter' = TRUE
  /\ UNCHANGED <<options, owner, initialized, destroyed, se, current, mount,
                 replies, filesystem, kernel>>

(* The Mount moves to the BackgroundSession; without one, ENODEV.          *)
BackgroundSession_new ==
  /\ se = "new" /\ mount = "session"
  /\ mount' = "background"
  /\ se' = "running"
  /\ UNCHANGED <<options, owner, initialized, destroyed, current, unmounter,
                 replies, filesystem, kernel>>

(* Session::unmount, or SessionUnmounter::unmount on any thread, which     *)
(* finds nothing once the Mount is in a BackgroundSession.                 *)
unmount ==
  /\ mount = "session"
  /\ unmounter \/ se \in {"new", "returned"}
  /\ MountDrop
  /\ UNCHANGED <<options, owner, initialized, destroyed, se, current, unmounter,
                 replies, filesystem, kinit, sent, stray>>

(* BackgroundSession::join, or its drop: `join' then waits for the thread. *)
join ==
  /\ mount = "background"
  /\ MountDrop
  /\ UNCHANGED <<options, owner, initialized, destroyed, se, current, unmounter,
                 replies, filesystem, kinit, sent, stray>>

(* The last owner of the mutex drops the Mount in it.                      *)
DropUnmounter ==
  /\ unmounter
  /\ unmounter' = FALSE
  /\ IF se = "dropped" /\ mount = "session" THEN MountDrop ELSE NoMountDrop
  /\ UNCHANGED <<options, owner, initialized, destroyed, se, current,
                 replies, filesystem, kinit, sent, stray>>

(* Mutant: destroy is called whether or not the kernel has asked for it.   *)
DestroyOnDrop_always ==
  /\ filesystem' = destroy(filesystem)
  /\ destroyed' = TRUE

DestroyOnDrop ==
  /\ filesystem' = IF destroyed THEN filesystem ELSE destroy(filesystem)
  /\ destroyed' = TRUE

(* Session::drop: at the end of the thread or of `mount', while a panic    *)
(* unwinds it, or unused, or because BackgroundSession::new found no Mount. *)
(* A destroy that panics here does not keep the fields from being dropped. *)
drop ==
  /\ se \in {"new", "returned", "unwinding"}
  /\ \/ DestroyOnDrop
     \/ /\ ~destroyed /\ se # "unwinding"
        /\ filesystem' = destroy_panics(filesystem)
        /\ UNCHANGED destroyed
  /\ se' = "dropped"
  /\ IF mount = "session" /\ ~unmounter THEN MountDrop ELSE NoMountDrop
  /\ UNCHANGED <<options, owner, initialized, current, unmounter,
                 replies, kinit, sent, stray>>

(* A second panic while the first one unwinds aborts the process, and the  *)
(* kernel closes everything it had open.                                   *)
Abort ==
  /\ se = "unwinding" /\ ~destroyed
  /\ filesystem' = destroy_panics(filesystem)
  /\ se' = "dropped" /\ mount' = "dropped" /\ unmounter' = FALSE
  /\ replies' = {}
  /\ UNCHANGED <<options, owner, initialized, destroyed, current, kernel>>

-----------------------------------------------------------------------------
KernelStep ==
  \/ \E u \in Uniques, op \in Operations, user \in Users : NewRequest(u, op, user)
  \/ ExternalUmount \/ DestroyAnswered

dispatch ==
  \/ reply_err \/ dispatch_init \/ InitPanics \/ dispatch_destroy
  \/ DestroyPanics \/ dispatch_method \/ DeferReply

ProgramStep ==
  \/ run \/ unmount_callable \/ BackgroundSession_new \/ unmount \/ join
  \/ DropUnmounter \/ drop \/ Abort

Next ==
  \/ KernelStep
  \/ \E u \in Uniques : receive(u) \/ AnswerDeferred(u)
  \/ run_returns \/ dispatch
  \/ ProgramStep

(* The loop goes on and serves requests in their order, an answered        *)
(* DESTROY ends the connection, and a session whose loop has returned or   *)
(* panicked is dropped by the thread or by `mount'.                        *)
Fairness ==
  /\ \A u \in Uniques : SF_vars(receive(u))
  /\ WF_vars(run_returns)
  /\ WF_vars(dispatch)
  /\ WF_vars(DestroyAnswered)
  /\ WF_vars(se \in {"returned", "unwinding"} /\ (drop \/ Abort))

Spec == Init /\ [][Next]_vars /\ Fairness

-----------------------------------------------------------------------------
(* "makes sure that a request is replied exactly once": while the          *)
(* connection lasts, a request that the kernel waits for is in exactly one *)
(* hand, the loop's or a Reply object's, whatever methods do, panic or     *)
(* hand over; only an INIT or a DESTROY whose init or destroy panicked is  *)
(* in nobody's, and then the loop is over.  Nothing is answered twice, and *)
(* what wants no answer gets none, but for a FORGET that is read after     *)
(* DESTROY and answered EIO like everything else.                          *)
RepliesMatch ==
  LET inLoop == IF current = NoRequest \/ current.op \in NoReply THEN {}
                ELSE {current.unique}
      held == inLoop \cup replies
  IN  /\ stray \subseteq NoReply
      /\ stray # {} => destroyed
      /\ inLoop \cap replies = {}
      /\ Connected =>
           /\ held \subseteq sent
           /\ \A u \in sent \ held :
                /\ se \in {"unwinding", "dropped"}
                /\ pending[u].op \in Inits \cup {"Destroy"}

CallsMethod == dispatch_method \/ DeferReply
Destroys(f) == f.destroy + f.unwound

(* Methods are called between a successful init and the first destroy.     *)
(* destroy is called by the kernel's DESTROY or by Session::drop, however  *)
(* the session ends, also where init was never called or failed; it is     *)
(* called again only by Session::drop, after the call for DESTROY panicked, *)
(* and never once a call has returned.                                     *)
Lifecycle ==
  [][ /\ CallsMethod => filesystem.init /\ Destroys(filesystem) = 0
      /\ Destroys(filesystem') # Destroys(filesystem) =>
           \/ Destroys(filesystem) = 0
           \/ filesystem = [init |-> TRUE, destroy |-> 0, unwound |-> 1] /\ se' = "dropped"
      /\ se' = "dropped" => Destroys(filesystem') > 0 ]_vars

(* A request that reaches a running session is answered, or its Reply is   *)
(* in the hands of the filesystem, or the session is over; and when the    *)
(* connection is over, the session ends and is dropped.                    *)
RequestsEnd ==
  /\ \A u \in Uniques :
       se = "running" /\ pending[u] # NoRequest ~>
         pending[u] = NoRequest \/ u \in replies \/ ~Connected \/ se = "dropped"
  /\ se = "running" /\ ~Connected ~> se = "dropped"

=============================================================================
